----------------------------- MODULE AsyncTimer -----------------------------
(***************************************************************************)
(* z::AsyncTimer<Key> of zpp/base/timer.hpp: a set of (deadline, key)      *)
(* pairs ordered by deadline.  Requesters Push, reply callbacks Pop the    *)
(* key they acknowledge, a timer thread calls Timer again and again.  Push *)
(* and Pop are one critical section each.  Timer keeps the spin lock for   *)
(* its whole pass, while it runs the user's timeout callback, and erases   *)
(* an entry after its callback has returned.  A Pop that finds no entry    *)
(* returns ZENOT_EXIST and changes nothing.                                *)
(*                                                                         *)
(* The deadlines are ztimestamp_ms(), a wall clock: it may be set back.    *)
(*                                                                         *)
(*   Reenter      TRUE: the timeout callback may call the timer again.     *)
(*   MaxTime, MaxPush, MaxBack bound the clock, the entries pushed for one *)
(*   key and the times the clock is set back.                              *)
(***************************************************************************)
EXTENDS Integers, FiniteSets

CONSTANTS TimerKeys, Timeouts, Reenter, MaxTime, MaxPush, MaxBack

ASSUME ATAssumption ==
    /\ Timeouts \subseteq Nat
    /\ Reenter \in BOOLEAN
    /\ MaxTime \in Nat /\ MaxPush \in Nat /\ MaxBack \in Nat

VARIABLES
    ts_set,     \* the pending <<deadline, key>> pairs
    now,        \* the wall clock
    back,       \* how often it was set back
    pcT,        \* the timer thread: "idle", or holding the lock: "scan",
                \* "call" in the callback, "stuck" on the lock it holds
    snap,       \* the clock as the running pass read it
    cur,        \* the entry whose callback runs
    pushes,     \* entries inserted by Push, by key
    acks,       \* ZEOK results of Pop, by key
    fires       \* timeout callbacks, by key

timerVars == <<ts_set, now, back, pcT, snap, cur, pushes, acks, fires>>

Entries == (0..MaxTime) \X TimerKeys

TimerInit ==
    /\ ts_set = {}
    /\ now = 0 /\ back = 0
    /\ pcT = "idle"
    /\ snap = 0
    /\ cur \in {0} \X TimerKeys
    /\ pushes = [k \in TimerKeys |-> 0]
    /\ acks = [k \in TimerKeys |-> 0]
    /\ fires = [k \in TimerKeys |-> 0]

LockFree == pcT = "idle"
Earliest(S) == {e \in S : \A f \in S : e[1] <= f[1]}
Pending(k) == {e \in ts_set : e[2] = k}

-----------------------------------------------------------------------------
(* Mutants *)

MutTimerErase ==                \* forgets to erase the entry it has fired
    /\ pcT = "call"
    /\ pcT' = "scan"
    /\ UNCHANGED <<ts_set, now, back, snap, cur, pushes, acks, fires>>

MutTimerEnd ==                  \* stops the pass after the first callback
    /\ pcT = "scan"
    /\ \E e \in Earliest(ts_set) : e[1] <= snap
    /\ pcT' = "idle"
    /\ UNCHANGED <<ts_set, now, back, snap, cur, pushes, acks, fires>>

MutPopOk(k) ==                  \* does not take the lock
    /\ \E e \in Earliest(Pending(k)) : ts_set' = ts_set \ {e}
    /\ acks' = [acks EXCEPT ![k] = @ + 1]
    /\ UNCHANGED <<now, back, pcT, snap, cur, pushes, fires>>

-----------------------------------------------------------------------------
(* Push and Pop *)

\* Push(key, timeout_ms): ts_set.insert((now + timeout_ms, key)).  A pair
\* that the set holds already stays one entry.
Push(k, t) ==
    /\ LockFree
    /\ pushes[k] < MaxPush /\ now + t <= MaxTime
    /\ <<now + t, k>> \notin ts_set
    /\ ts_set' = ts_set \cup {<<now + t, k>>}
    /\ pushes' = [pushes EXCEPT ![k] = @ + 1]
    /\ UNCHANGED <<now, back, pcT, snap, cur, acks, fires>>

\* Pop(key): erases the first entry of the key.
PopOk(k) ==
    /\ LockFree
    /\ \E e \in Earliest(Pending(k)) : ts_set' = ts_set \ {e}
    /\ acks' = [acks EXCEPT ![k] = @ + 1]
    /\ UNCHANGED <<now, back, pcT, snap, cur, pushes, fires>>

-----------------------------------------------------------------------------
(* Timer *)

TimerBegin ==
    /\ LockFree
    /\ pcT' = "scan"
    /\ snap' = now
    /\ UNCHANGED <<ts_set, now, back, cur, pushes, acks, fires>>

\* fn_timeout(it->second, hint) for a first entry with it->first <= now.
TimerCall ==
    /\ pcT = "scan"
    /\ \E e \in Earliest(ts_set) :
          /\ e[1] <= snap
          /\ cur' = e
          /\ fires' = [fires EXCEPT ![e[2]] = @ + 1]
    /\ pcT' = "call"
    /\ UNCHANGED <<ts_set, now, back, snap, pushes, acks>>

\* The callback calls Push, Pop or Timer: zspin_lock on the lock it is under.
TimerReenter ==
    /\ Reenter
    /\ pcT = "call"
    /\ pcT' = "stuck"
    /\ UNCHANGED <<ts_set, now, back, snap, cur, pushes, acks, fires>>

\* ts_set.erase(it++).
TimerErase ==
    /\ pcT = "call"
    /\ ts_set' = ts_set \ {cur}
    /\ pcT' = "scan"
    /\ UNCHANGED <<now, back, snap, cur, pushes, acks, fires>>

\* End of the set, or a first entry that has not expired.
TimerEnd ==
    /\ pcT = "scan"
    /\ \A e \in Earliest(ts_set) : e[1] > snap
    /\ pcT' = "idle"
    /\ UNCHANGED <<ts_set, now, back, snap, cur, pushes, acks, fires>>

-----------------------------------------------------------------------------
(* The clock, ztimestamp_ms() of zsi *)

Tick ==
    /\ now < MaxTime
    /\ now' = now + 1
    /\ UNCHANGED <<ts_set, back, pcT, snap, cur, pushes, acks, fires>>

SetBack ==
    /\ back < MaxBack
    /\ back' = back + 1
    /\ now' \in 0..now - 1
    /\ UNCHANGED <<ts_set, pcT, snap, cur, pushes, acks, fires>>

-----------------------------------------------------------------------------
Timer == TimerBegin \/ TimerCall \/ TimerReenter \/ TimerErase \/ TimerEnd

TimerNext ==
    \/ \E k \in TimerKeys : PopOk(k) \/ \E t \in Timeouts : Push(k, t)
    \/ Timer \/ Tick \/ SetBack

TimerSpec == TimerInit /\ [][TimerNext]_timerVars

\* The clock advances, the timer thread keeps calling Timer and its callback
\* returns.  Nothing is assumed of Push and Pop.
TimerFairness ==
    /\ WF_timerVars(Tick)
    /\ WF_timerVars(TimerBegin \/ TimerCall \/ TimerErase \/ TimerEnd)

FairTimerSpec == TimerSpec /\ TimerFairness

-----------------------------------------------------------------------------
(* Properties *)

TimerTypeOK ==
    /\ ts_set \subseteq Entries
    /\ now \in 0..MaxTime /\ back \in 0..MaxBack
    /\ pcT \in {"idle", "scan", "call", "stuck"}
    /\ snap \in 0..MaxTime
    /\ cur \in Entries
    /\ pushes \in [TimerKeys -> 0..MaxPush]
    /\ acks \in [TimerKeys -> Nat]
    /\ fires \in [TimerKeys -> Nat]

\* Entries of k nobody has resolved: the one in its callback is not.
Unresolved(k) ==
    Pending(k) \ (IF pcT \in {"call", "stuck"} THEN {cur} ELSE {})

\* An entry is resolved exactly once: acknowledged or timed out, not both,
\* not twice and not lost, although callback and erasure are two steps.
ResolvedExactly == \A k \in TimerKeys :
    acks[k] + fires[k] + Cardinality(Unresolved(k)) = pushes[k]

\* The entry in its callback is still registered, so Pop, which cannot run
\* now, has not handed it out and the erasure removes it and nothing else.
FiringRegistered == TimerTypeOK /\ (pcT \in {"call", "stuck"} => cur \in ts_set)

\* Every entry is resolved in the end, however often the clock is set back,
\* provided that happens finitely often and no callback calls the timer.
EventuallyResolved ==
    \A e \in Entries : e \in ts_set ~> e \notin ts_set \/ pcT = "stuck"
=============================================================================
