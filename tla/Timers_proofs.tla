--------------------------- MODULE Timers_proofs ---------------------------
(***************************************************************************)
(* Proofs about SyncTimer, for any requests, replies, workers and any      *)
(* assignment of keys, shared or not: no store or post through a dead      *)
(* out_t, keyed registration, ZEOK only with a reply, one owner per reply. *)
(* And about AsyncTimer, for any keys, timeouts and bounds, with and       *)
(* without callbacks that call back: every entry is resolved exactly once, *)
(* the entry in its callback is registered, and passes are complete.       *)
(***************************************************************************)
EXTENDS SyncTimer, AsyncTimer, FiniteSetTheorems, WellFoundedInduction, TLAPS

-----------------------------------------------------------------------------
(* SyncTimer *)

LEMMA InitIInv == Init => IInv
BY STAssumption
   DEF Init, IInv, TypeOK, Registered, KeyInv, LiveInv, SpinInv, TokenInv,
       OwnerInv, Target

\* The steps of a request thread.
LEMMA RequestPreserves ==
    ASSUME IInv, NEW r \in Requests, Request(r)
    PROVE  IInv'
<1> USE STAssumption DEF IInv, workerVars
\* None of them changes what a worker found, as it holds the lock.
<1>0. ASSUME NEW w \in Workers, pcW[w] = "stored"
      PROVE  spin = w /\ spin # Free
  BY <1>0 DEF SpinInv
<1>1. CASE PushOk(r)
  <2> USE <1>1 DEF PushOk
  <2>1. TypeOK' BY DEF TypeOK
  <2>2. Registered' BY DEF Registered, KeyInv, TypeOK
  <2>3. KeyInv' BY DEF KeyInv, TypeOK
  <2>4. LiveInv' BY DEF LiveInv, TypeOK
  <2>5. SpinInv' BY <1>0 DEF SpinInv, TypeOK
  <2>6. TokenInv' /\ OwnerInv' BY DEF TokenInv, OwnerInv
  <2> QED BY <2>1, <2>2, <2>3, <2>4, <2>5, <2>6
<1>2. CASE PushExists(r)
  <2> USE <1>2 DEF PushExists
  <2>1. TypeOK' BY DEF TypeOK
  <2>2. Registered' BY DEF Registered, TypeOK
  <2>3. KeyInv' BY DEF KeyInv
  <2>4. LiveInv' BY DEF LiveInv, TypeOK
  <2>5. SpinInv' BY DEF SpinInv, Target
  <2>6. TokenInv' /\ OwnerInv' BY DEF TokenInv, OwnerInv
  <2> QED BY <2>1, <2>2, <2>3, <2>4, <2>5, <2>6
<1>3. CASE WaitOk(r)
  <2> USE <1>3 DEF WaitOk
  <2>1. TypeOK' BY DEF TypeOK
  <2>2. Registered' BY DEF Registered, TypeOK
  <2>3. KeyInv' BY DEF KeyInv
  <2>4. LiveInv' BY DEF LiveInv, TypeOK
  <2>5. SpinInv' BY DEF SpinInv, Target
  <2>6. TokenInv' BY DEF TokenInv, TypeOK
  <2>7. OwnerInv' BY DEF OwnerInv
  <2> QED BY <2>1, <2>2, <2>3, <2>4, <2>5, <2>6, <2>7
<1>4. CASE WaitTimeout(r)
  <2> USE <1>4 DEF WaitTimeout
  <2>1. TypeOK' BY DEF TypeOK
  <2>2. Registered' BY DEF Registered, TypeOK
  <2>3. KeyInv' BY DEF KeyInv
  <2>4. LiveInv' BY DEF LiveInv, TypeOK
  <2>5. SpinInv' BY DEF SpinInv, Target
  <2>6. TokenInv' BY DEF TokenInv, TypeOK
  <2>7. OwnerInv' BY DEF OwnerInv
  <2> QED BY <2>1, <2>2, <2>3, <2>4, <2>5, <2>6, <2>7
<1>5. CASE WaitErase(r)
  <2> USE <1>5 DEF WaitErase
  <2>1. TypeOK' BY DEF TypeOK
  <2>2. Registered' BY DEF Registered, KeyInv, TypeOK
  <2>3. KeyInv' BY DEF KeyInv, TypeOK
  <2>4. LiveInv' BY DEF LiveInv, TypeOK
  <2>5. SpinInv' BY <1>0 DEF SpinInv, TypeOK
  <2>6. TokenInv' /\ OwnerInv' BY DEF TokenInv, OwnerInv
  <2> QED BY <2>1, <2>2, <2>3, <2>4, <2>5, <2>6
<1>6. CASE WaitFini(r)
  <2> USE <1>6 DEF WaitFini
  <2>1. TypeOK' BY DEF TypeOK
  <2>2. Registered' BY DEF Registered, TypeOK
  <2>3. KeyInv' BY DEF KeyInv
  <2>4. LiveInv' BY DEF LiveInv, TypeOK
  <2>5. SpinInv' BY DEF SpinInv, Target
  <2>6. TokenInv' /\ OwnerInv' BY DEF TokenInv, OwnerInv
  <2> QED BY <2>1, <2>2, <2>3, <2>4, <2>5, <2>6
<1> QED BY <1>1, <1>2, <1>3, <1>4, <1>5, <1>6 DEF Request

\* The steps of a callback.
LEMMA WorkerPreserves ==
    ASSUME IInv, NEW w \in Workers, Worker(w)
    PROVE  IInv'
<1> USE STAssumption DEF IInv
<1>1. ASSUME NEW x \in Replies, PopMiss(w, x) PROVE IInv'
  <2> USE <1>1 DEF PopMiss, Deliverable
  <2>1. TypeOK' BY DEF TypeOK
  <2>2. Registered' /\ KeyInv' /\ LiveInv' BY DEF Registered, KeyInv, LiveInv
  <2>3. SpinInv' BY DEF SpinInv, TypeOK
  <2>4. TokenInv' BY DEF TokenInv
  <2>5. OwnerInv' BY DEF OwnerInv, TypeOK
  <2> QED BY <2>1, <2>2, <2>3, <2>4, <2>5
<1>2. ASSUME NEW x \in Replies, PopStore(w, x) PROVE IInv'
  <2> DEFINE r == sem_map[KeyOf[ReplyTo[x]]]
  <2>1. /\ pcW[w] = "idle" /\ owner[x] = "service" /\ spin = Free
        /\ r # None /\ r \in Requests
        /\ out' = [out EXCEPT ![r] = x]
        /\ spin' = w
        /\ arg' = [arg EXCEPT ![w] = x]
        /\ owner' = [owner EXCEPT ![x] = "stored"]
        /\ pcW' = [pcW EXCEPT ![w] = "stored"]
        /\ UNCHANGED <<sem_map, live, sem, pcR, waited>>
    BY <1>2 DEF PopStore, Deliverable, TypeOK
  <2> HIDE DEF r
  <2>2. TypeOK' BY <2>1 DEF TypeOK
  <2>3. Registered' /\ KeyInv' /\ LiveInv'
    BY <2>1 DEF Registered, KeyInv, LiveInv
  <2>4. SpinInv'
    <3>1. \A v \in Workers : pcW[v] # "stored"
      BY <2>1 DEF SpinInv, TypeOK
    <3>2. Target(w)' = r
      BY <2>1 DEF Target, r, TypeOK
    <3>3. out'[r] = x /\ arg'[w] = x /\ owner'[x] = "stored"
      BY <2>1 DEF TypeOK
    <3>4. ASSUME NEW v \in Workers, v # w PROVE pcW'[v] # "stored"
      BY <2>1, <3>1, <3>4 DEF TypeOK
    <3>5. pcW'[w] = "stored" BY <2>1 DEF TypeOK
    <3> QED BY <2>1, <3>2, <3>3, <3>4, <3>5 DEF SpinInv
  <2>5. TokenInv' BY <2>1 DEF TokenInv, TypeOK
  <2>6. OwnerInv' BY <2>1 DEF OwnerInv, TypeOK
  <2> QED BY <2>2, <2>3, <2>4, <2>5, <2>6
<1>3. CASE PopPost(w)
  <2> DEFINE r == Target(w)
  <2>1. /\ pcW[w] = "stored" /\ spin = w
        /\ arg[w] \in Replies /\ r \in Requests /\ out[r] # NoReply
        /\ sem' = [sem EXCEPT ![r] = @ + 1]
        /\ owner' = [owner EXCEPT ![arg[w]] = "accepted"]
        /\ pcW' = [pcW EXCEPT ![w] = "idle"]
        /\ spin' = Free
        /\ UNCHANGED <<sem_map, live, out, pcR, waited, arg>>
    BY <1>3 DEF PopPost, SpinInv, Target, TypeOK
  <2> HIDE DEF r
  <2>2. TypeOK' BY <2>1 DEF TypeOK
  <2>3. Registered' /\ KeyInv' /\ LiveInv'
    BY <2>1 DEF Registered, KeyInv, LiveInv
  <2>4. SpinInv'
    <3>1. ASSUME NEW v \in Workers PROVE pcW'[v] # "stored"
      BY <2>1 DEF SpinInv, TypeOK
    <3> QED BY <2>1, <3>1 DEF SpinInv
  <2>5. TokenInv' BY <2>1 DEF TokenInv, TypeOK
  <2>6. OwnerInv' BY <2>1 DEF OwnerInv, TypeOK
  <2> QED BY <2>2, <2>3, <2>4, <2>5, <2>6
<1> QED BY <1>1, <1>2, <1>3 DEF Worker

\* IInv is an invariant.
THEOREM Inductive == Spec => []IInv
<1>1. IInv /\ [Next]_vars => IInv'
  <2> SUFFICES ASSUME IInv, [Next]_vars PROVE IInv'
    OBVIOUS
  <2>1. CASE Next BY <2>1, RequestPreserves, WorkerPreserves DEF Next
  <2>2. CASE UNCHANGED vars
    BY <2>2 DEF vars, IInv, TypeOK, Registered, KeyInv, LiveInv, SpinInv,
       TokenInv, OwnerInv, Target
  <2> QED BY <2>1, <2>2
<1> QED BY InitIInv, <1>1, PTL DEF Spec

\* No callback writes or posts through the out_t of a request that has left.
THEOREM NoDangling == Spec => []NoDanglingPost
<1>1. IInv => NoDanglingPost
  <2> SUFFICES ASSUME IInv, NEW w \in Workers, pcW[w] = "stored"
               PROVE  Target(w) \in live /\ pcR[Target(w)] \in {"posted", "left"}
    BY DEF NoDanglingPost
  <2>1. Target(w) # None /\ arg[w] \in Replies
    BY DEF IInv, SpinInv
  <2>2. Target(w) \in Requests /\ KeyOf[ReplyTo[arg[w]]] \in Keys
    BY <2>1, STAssumption DEF IInv, TypeOK, Target
  <2>3. sem_map[KeyOf[Target(w)]] = Target(w)
    BY <2>1, <2>2 DEF IInv, KeyInv, Target
  <2> QED BY <2>2, <2>3 DEF IInv, Registered, LiveInv
<1> QED BY <1>1, Inductive, PTL

\* A registered request stays found under its key until its own Wait erases it.
THEOREM KeyedRegistration == Spec => []Registered
BY Inductive, PTL DEF IInv

\* ZEOK from Wait always comes with a reply.
THEOREM OkImpliesReply == Spec => []OkHasReply
<1>1. IInv => OkHasReply BY DEF IInv, TokenInv, OkHasReply
<1> QED BY <1>1, Inductive, PTL

\* A reply is never both released by its callback and handed to a requester.
THEOREM SingleOwner == Spec => []OneOwner
<1>1. IInv => OneOwner BY DEF IInv, OwnerInv, OneOwner
<1> QED BY <1>1, Inductive, PTL

-----------------------------------------------------------------------------
(* AsyncTimer *)

\* The inductive invariant: an acknowledgement can neither reach the entry in
\* its callback nor be counted for an entry that has timed out.
ATIInv == FiringRegistered /\ IsFiniteSet(ts_set) /\ ResolvedExactly

-----------------------------------------------------------------------------
(* Counting the entries of a key *)

LEMMA CountAdd ==
    ASSUME NEW S, IsFiniteSet(S), NEW e, e \notin S
    PROVE  Cardinality(S \cup {e}) = Cardinality(S) + 1
BY FS_AddElement

LEMMA CountRemove ==
    ASSUME NEW S, IsFiniteSet(S), NEW e \in S
    PROVE  Cardinality(S) = Cardinality(S \ {e}) + 1
<1>1. IsFiniteSet(S \ {e}) /\ Cardinality(S \ {e}) = Cardinality(S) - 1
  BY FS_RemoveElement
<1>2. Cardinality(S) \in Nat BY FS_CardinalityType
<1> QED BY <1>1, <1>2

LEMMA UnresolvedFinite ==
    ASSUME IsFiniteSet(ts_set), NEW k
    PROVE  IsFiniteSet(Unresolved(k)) /\ Cardinality(Unresolved(k)) \in Nat
<1>1. Unresolved(k) \subseteq ts_set BY DEF Unresolved, Pending
<1> QED BY <1>1, FS_Subset, FS_CardinalityType

-----------------------------------------------------------------------------
(* The steps *)

LEMMA ATInit == TimerInit => ATIInv
<1> SUFFICES ASSUME TimerInit PROVE ATIInv OBVIOUS
<1>1. TimerTypeOK BY ATAssumption DEF TimerInit, TimerTypeOK, Entries
<1>2. \A k : Unresolved(k) = {} BY DEF TimerInit, Unresolved, Pending
<1>3. ResolvedExactly BY <1>2, FS_EmptySet DEF TimerInit, ResolvedExactly
<1> QED BY <1>1, <1>3, FS_EmptySet DEF TimerInit, ATIInv, FiringRegistered

LEMMA PushPreserves ==
    ASSUME ATIInv, NEW k \in TimerKeys, NEW t \in Timeouts, Push(k, t)
    PROVE  ATIInv'
<1> DEFINE e == <<now + t, k>>
<1>1. e \in Entries /\ e \notin ts_set /\ pcT = "idle" /\ ts_set' = ts_set \cup {e}
  BY ATAssumption DEF ATIInv, FiringRegistered, TimerTypeOK, Push, LockFree, Entries
<1>2. TimerTypeOK' BY <1>1, ATAssumption DEF ATIInv, FiringRegistered, TimerTypeOK, Push
<1>3. FiringRegistered' BY <1>1, <1>2 DEF FiringRegistered, Push
<1>4. IsFiniteSet(ts_set') BY <1>1, FS_AddElement DEF ATIInv
<1>5. ASSUME NEW l \in TimerKeys
      PROVE  (acks[l] + fires[l] + Cardinality(Unresolved(l)) = pushes[l])'
  <2>1. CASE l = k
    <3>1. Unresolved(l)' = Unresolved(l) \cup {e} /\ e \notin Unresolved(l)
      BY <1>1, <2>1 DEF Unresolved, Pending, Push
    <3>2. Cardinality(Unresolved(l)') = Cardinality(Unresolved(l)) + 1
      BY <3>1, UnresolvedFinite, CountAdd DEF ATIInv
    <3>3. pushes'[l] = pushes[l] + 1 /\ acks' = acks /\ fires' = fires
      BY <2>1 DEF Push, ATIInv, FiringRegistered, TimerTypeOK
    <3> QED BY <3>2, <3>3, UnresolvedFinite
            DEF ATIInv, ResolvedExactly, FiringRegistered, TimerTypeOK
  <2>2. CASE l # k
    <3>1. Unresolved(l)' = Unresolved(l) BY <1>1, <2>2 DEF Unresolved, Pending, Push
    <3>2. pushes'[l] = pushes[l] /\ acks' = acks /\ fires' = fires
      BY <2>2 DEF Push, ATIInv, FiringRegistered, TimerTypeOK
    <3> QED BY <3>1, <3>2 DEF ATIInv, ResolvedExactly
  <2> QED BY <2>1, <2>2
<1> QED BY <1>3, <1>4, <1>5 DEF ATIInv, ResolvedExactly

LEMMA PopPreserves ==
    ASSUME ATIInv, NEW k \in TimerKeys, PopOk(k)
    PROVE  ATIInv'
<1>1. PICK e \in Earliest(Pending(k)) : ts_set' = ts_set \ {e} BY DEF PopOk
<1>2. e \in ts_set /\ e[2] = k /\ pcT = "idle"
  BY <1>1 DEF Earliest, Pending, PopOk, LockFree
<1>3. TimerTypeOK' BY <1>1 DEF ATIInv, FiringRegistered, TimerTypeOK, PopOk
<1>4. FiringRegistered' BY <1>2, <1>3 DEF FiringRegistered, PopOk
<1>5. IsFiniteSet(ts_set') BY <1>1, FS_Subset DEF ATIInv
<1>6. ASSUME NEW l \in TimerKeys
      PROVE  (acks[l] + fires[l] + Cardinality(Unresolved(l)) = pushes[l])'
  <2>1. CASE l = k
    <3>1. Unresolved(l)' = Unresolved(l) \ {e} /\ e \in Unresolved(l)
      BY <1>1, <1>2, <2>1 DEF Unresolved, Pending, PopOk
    <3>2. Cardinality(Unresolved(l)) = Cardinality(Unresolved(l)') + 1
      BY <3>1, UnresolvedFinite, CountRemove DEF ATIInv
    <3>3. acks'[l] = acks[l] + 1 /\ pushes' = pushes /\ fires' = fires
      BY <2>1 DEF PopOk, ATIInv, FiringRegistered, TimerTypeOK
    <3>4. Cardinality(Unresolved(l)') \in Nat
      BY <3>1, UnresolvedFinite, FS_RemoveElement, FS_CardinalityType, FS_Subset DEF ATIInv
    <3> QED BY <3>2, <3>3, <3>4 DEF ATIInv, ResolvedExactly, FiringRegistered, TimerTypeOK
  <2>2. CASE l # k
    <3>1. Unresolved(l)' = Unresolved(l)
      BY <1>1, <1>2, <2>2 DEF Unresolved, Pending, PopOk
    <3>2. acks'[l] = acks[l] /\ pushes' = pushes /\ fires' = fires
      BY <2>2 DEF PopOk, ATIInv, FiringRegistered, TimerTypeOK
    <3> QED BY <3>1, <3>2 DEF ATIInv, ResolvedExactly
  <2> QED BY <2>1, <2>2
<1> QED BY <1>4, <1>5, <1>6 DEF ATIInv, ResolvedExactly

LEMMA CallPreserves ==
    ASSUME ATIInv, TimerCall
    PROVE  ATIInv'
<1>1. PICK e \in Earliest(ts_set) :
         cur' = e /\ fires' = [fires EXCEPT ![e[2]] = @ + 1]
  BY DEF TimerCall
<1>2. e \in ts_set /\ e \in Entries /\ pcT = "scan" /\ pcT' = "call" /\ ts_set' = ts_set
  BY <1>1 DEF Earliest, TimerCall, ATIInv, FiringRegistered, TimerTypeOK
<1>3. e[2] \in TimerKeys BY <1>2 DEF Entries
<1>4. TimerTypeOK' BY <1>1, <1>2, <1>3 DEF ATIInv, FiringRegistered, TimerTypeOK, TimerCall
<1>5. FiringRegistered' BY <1>1, <1>2, <1>4 DEF FiringRegistered
<1>6. ASSUME NEW l \in TimerKeys
      PROVE  (acks[l] + fires[l] + Cardinality(Unresolved(l)) = pushes[l])'
  <2>1. Unresolved(l)' = Unresolved(l) \ {e}
    BY <1>1, <1>2 DEF Unresolved, Pending
  <2>2. acks' = acks /\ pushes' = pushes BY DEF TimerCall
  <2>3. CASE l = e[2]
    <3>1. e \in Unresolved(l) BY <1>2, <2>3 DEF Unresolved, Pending
    <3>2. Cardinality(Unresolved(l)) = Cardinality(Unresolved(l)') + 1
      BY <2>1, <3>1, UnresolvedFinite, CountRemove DEF ATIInv
    <3>3. fires'[l] = fires[l] + 1
      BY <1>1, <2>3 DEF ATIInv, FiringRegistered, TimerTypeOK
    <3>4. Cardinality(Unresolved(l)') \in Nat
      BY <2>1, UnresolvedFinite, FS_CardinalityType, FS_Subset DEF ATIInv
    <3> QED BY <2>2, <3>2, <3>3, <3>4 DEF ATIInv, ResolvedExactly, FiringRegistered, TimerTypeOK
  <2>4. CASE l # e[2]
    <3>1. Unresolved(l)' = Unresolved(l) BY <2>1, <2>4 DEF Unresolved, Pending
    <3>2. fires'[l] = fires[l] BY <1>1, <2>4 DEF ATIInv, FiringRegistered, TimerTypeOK
    <3> QED BY <2>2, <3>1, <3>2 DEF ATIInv, ResolvedExactly
  <2> QED BY <2>3, <2>4
<1> QED BY <1>2, <1>5, <1>6 DEF ATIInv, ResolvedExactly

\* The steps after which the same entries are unresolved as before.
LEMMA OtherPreserves ==
    ASSUME ATIInv,
           \/ TimerBegin \/ TimerReenter \/ TimerErase \/ TimerEnd \/ Tick \/ SetBack
           \/ UNCHANGED timerVars
    PROVE  ATIInv'
<1> USE DEF ATIInv, TimerBegin, TimerReenter, TimerErase, TimerEnd, Tick, SetBack, timerVars,
            LockFree
<1>1. TimerTypeOK' BY ATAssumption DEF FiringRegistered, TimerTypeOK
<1>2. FiringRegistered' BY <1>1 DEF FiringRegistered
<1>3. IsFiniteSet(ts_set') BY FS_Subset
<1>4. \A l : Unresolved(l)' = Unresolved(l) BY DEF Unresolved, Pending
<1>5. UNCHANGED <<acks, fires, pushes>> OBVIOUS
<1>6. ResolvedExactly' BY <1>4, <1>5 DEF ResolvedExactly
<1> QED BY <1>2, <1>3, <1>6

-----------------------------------------------------------------------------
(* The theorems *)

\* The inductive invariant of AsyncTimer holds for any keys, timeouts and
\* bounds, whether or not a callback calls the timer.
THEOREM ATInductive == TimerSpec => []ATIInv
<1>1. ATIInv /\ [TimerNext]_timerVars => ATIInv'
  <2> SUFFICES ASSUME ATIInv, [TimerNext]_timerVars PROVE ATIInv' OBVIOUS
  <2>1. CASE \E k \in TimerKeys : PopOk(k) BY <2>1, PopPreserves
  <2>2. CASE \E k \in TimerKeys, t \in Timeouts : Push(k, t) BY <2>2, PushPreserves
  <2>3. CASE TimerCall BY <2>3, CallPreserves
  <2>4. CASE \/ TimerBegin \/ TimerReenter \/ TimerErase \/ TimerEnd \/ Tick \/ SetBack
             \/ UNCHANGED timerVars
    BY <2>4, OtherPreserves
  <2> QED BY <2>1, <2>2, <2>3, <2>4 DEF TimerNext, Timer
<1> QED BY <1>1, ATInit, PTL DEF TimerSpec

\* Push, Pop and Timer together resolve each entry once: every entry pushed is
\* acknowledged, timed out, or still to be resolved.
THEOREM ResolvedOnce == TimerSpec => []ResolvedExactly
<1>1. ATIInv => ResolvedExactly BY DEF ATIInv
<1> QED BY <1>1, ATInductive, PTL

\* The entry in its callback is registered until Timer erases it.
THEOREM FiringKept == TimerSpec => []FiringRegistered
<1>1. ATIInv => FiringRegistered BY DEF ATIInv
<1> QED BY <1>1, ATInductive, PTL
=============================================================================
