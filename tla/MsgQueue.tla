------------------------------ MODULE MsgQueue ------------------------------
(***************************************************************************)
(* z::MsgQueue<T> of zpp/base/msg_queue.hpp: two std::queues, one that     *)
(* producers fill under spin_in and one that consumers empty under         *)
(* spin_out, exchanged by the consumer that finds its own queue empty.     *)
(* A semaphore is posted when a push makes the producers' queue nonempty.  *)
(*                                                                         *)
(* Pop exchanges the queues WITHOUT spin_in, at any time.  A Push has by   *)
(* then possibly loaded que_in and not yet used it, so the steps of Push   *)
(* are separate actions here: load, enqueue, read the size, post.  The     *)
(* history variable crossed says in whose Push an exchange has fallen      *)
(* between the load and the reading of the size.                           *)
(*                                                                         *)
(*   MaxInFlight       bound on the messages queued when a Push starts, of *)
(*                     the callers; 1 is a request/answer use of the queue.*)
(*   MaxSem            bound of the model on the semaphore, which goes     *)
(*                     over 1 only after an exchange inside a Push.        *)
(***************************************************************************)
EXTENDS Integers, Sequences, FiniteSets

CONSTANTS Producers, Consumers, Msgs, NoMsg, Free, MaxInFlight, MaxSem

ASSUME MQAssumption ==
    /\ NoMsg \notin Msgs
    /\ Free \notin Producers \cup Consumers
    /\ MaxInFlight \in Nat \ {0} /\ MaxSem \in Nat \ {0}

VARIABLES
    que,        \* the two std::queue objects, que[0] and que[1]
    in,         \* que_in points to que[in], que_out to que[1 - in]
    sem,        \* value of the semaphore
    spin_in,    \* the producer holding spin_in, or Free
    spin_out,   \* the consumer holding spin_out, or Free
    pcP,        \* where each producer is in Push
    ptr,        \* the queue a producer's load of que_in returned
    arg,        \* the argument t of Push
    pcC,        \* where each consumer is in Pop
    out,        \* the message a consumer's latest ZEOK Pop stored in t
    crossed     \* history: producers with a Push that an exchange fell into

vars == <<que, in, crossed, sem, spin_in, spin_out, pcP, ptr, arg, pcC, out>>
swapVars == <<in, crossed>>
pushVars == <<spin_in, pcP, ptr, arg>>
popVars == <<spin_out, pcC, out>>

Queues == {0, 1}
QueIn == que[in]
QueOut == que[1 - in]
Queued == Len(QueIn) + Len(QueOut)

Init ==
    /\ que = [q \in Queues |-> <<>>]
    /\ in = 0
    /\ sem = 0
    /\ spin_in = Free /\ spin_out = Free
    /\ pcP = [p \in Producers |-> "idle"]
    /\ ptr = [p \in Producers |-> 0]
    /\ arg = [p \in Producers |-> NoMsg]
    /\ pcC = [c \in Consumers |-> "idle"]
    /\ out = [c \in Consumers |-> NoMsg]
    /\ crossed = {}

-----------------------------------------------------------------------------
(* Mutants: each is a plausible slip in the operation it is named after.   *)

MutPushSizeNever(p) ==          \* never sees the size that asks for a post
    /\ pcP[p] = "pushed"
    /\ pcP' = [pcP EXCEPT ![p] = "idle"]
    /\ spin_in' = Free
    /\ UNCHANGED <<que, swapVars, sem, ptr, arg>> /\ UNCHANGED popVars

MutPopWaitUnchecked(c) ==       \* goes on whatever zsem_wait returned
    /\ pcC[c] = "waiting"
    /\ sem' = IF sem > 0 THEN sem - 1 ELSE 0
    /\ pcC' = [pcC EXCEPT ![c] = "woken"]
    /\ UNCHANGED <<que, swapVars, spin_out, out>> /\ UNCHANGED pushVars

MutPopTakeKeeps(c) ==           \* front() without pop()
    /\ pcC[c] = "take"
    /\ QueOut # <<>>
    /\ out' = [out EXCEPT ![c] = Head(QueOut)]
    /\ pcC' = [pcC EXCEPT ![c] = "took"]
    /\ UNCHANGED <<que, swapVars, sem, spin_out>> /\ UNCHANGED pushVars

-----------------------------------------------------------------------------
(* Push *)

\* SpinLock lck(&spin_in), then the load of que_in for que_in->push(t).
\* The caller starts a Push only below MaxInFlight queued messages.
PushBegin(p) ==
    /\ pcP[p] = "idle"
    /\ spin_in = Free
    /\ Queued < MaxInFlight
    /\ spin_in' = p
    /\ ptr' = [ptr EXCEPT ![p] = in]
    /\ \E m \in Msgs : arg' = [arg EXCEPT ![p] = m]
    /\ pcP' = [pcP EXCEPT ![p] = "loaded"]
    /\ UNCHANGED <<que, swapVars, sem>> /\ UNCHANGED popVars

\* que_in->push(t) on the queue whose address was loaded.
PushEnq(p) ==
    /\ pcP[p] = "loaded"
    /\ que' = [que EXCEPT ![ptr[p]] = Append(@, arg[p])]
    /\ pcP' = [pcP EXCEPT ![p] = "pushed"]
    /\ UNCHANGED <<swapVars, sem, spin_in, ptr, arg>> /\ UNCHANGED popVars

\* 1 == que_in->size().  que_in is a plain member: the build may read it
\* again or keep the address it has.  Without a post, Push returns.
PushSize(p) ==
    /\ pcP[p] = "pushed"
    /\ \E q \in {ptr[p], in} :
          IF Len(que[q]) = 1
          THEN pcP' = [pcP EXCEPT ![p] = "posting"] /\ UNCHANGED spin_in
          ELSE pcP' = [pcP EXCEPT ![p] = "idle"] /\ spin_in' = Free
    /\ UNCHANGED <<que, swapVars, sem, ptr, arg>> /\ UNCHANGED popVars

\* zsem_post(&sem), and the end of Push.
PushPost(p) ==
    /\ pcP[p] = "posting"
    /\ sem < MaxSem
    /\ sem' = sem + 1
    /\ pcP' = [pcP EXCEPT ![p] = "idle"]
    /\ spin_in' = Free
    /\ UNCHANGED <<que, swapVars, ptr, arg>> /\ UNCHANGED popVars

Push(p) == PushBegin(p) \/ PushEnq(p) \/ PushSize(p) \/ PushPost(p)

-----------------------------------------------------------------------------
(* Pop *)

\* SpinLock lck(&spin_out) and the test of que_out->empty().
PopBegin(c) ==
    /\ pcC[c] = "idle"
    /\ spin_out = Free
    /\ spin_out' = c
    /\ pcC' = [pcC EXCEPT ![c] = IF QueOut = <<>> THEN "waiting" ELSE "take"]
    /\ UNCHANGED <<que, swapVars, sem, out>> /\ UNCHANGED pushVars

\* zsem_wait returns ZEOK.
PopWaitOk(c) ==
    /\ pcC[c] = "waiting"
    /\ sem > 0
    /\ sem' = sem - 1
    /\ pcC' = [pcC EXCEPT ![c] = "woken"]
    /\ UNCHANGED <<que, swapVars, spin_out, out>> /\ UNCHANGED pushVars

\* zsem_wait times out (a wait that finds the semaphore positive does not),
\* Pop releases spin_out and returns the error.
PopTimeout(c) ==
    /\ pcC[c] = "waiting"
    /\ sem = 0
    /\ pcC' = [pcC EXCEPT ![c] = "idle"]
    /\ spin_out' = Free
    /\ UNCHANGED <<que, swapVars, sem, out>> /\ UNCHANGED pushVars

\* que_out = zatmc_xchg_ptr(&que_in, que_out).
PopSwap(c) ==
    /\ pcC[c] = "woken"
    /\ in' = 1 - in
    /\ crossed' = crossed \cup {p \in Producers : pcP[p] \in {"loaded", "pushed"}}
    /\ pcC' = [pcC EXCEPT ![c] = "take"]
    /\ UNCHANGED <<que, sem, spin_out, out>> /\ UNCHANGED pushVars

\* t = que_out->front(); que_out->pop().  On an empty std::queue both are
\* undefined: the consumer goes to "ub", from where nothing is claimed.
PopTake(c) ==
    /\ pcC[c] = "take"
    /\ IF QueOut = <<>>
       THEN pcC' = [pcC EXCEPT ![c] = "ub"] /\ UNCHANGED <<que, out>>
       ELSE /\ pcC' = [pcC EXCEPT ![c] = "took"]
            /\ out' = [out EXCEPT ![c] = Head(QueOut)]
            /\ que' = [que EXCEPT ![1 - in] = Tail(@)]
    /\ UNCHANGED <<swapVars, sem, spin_out>> /\ UNCHANGED pushVars

\* The destructor of lck releases spin_out; Pop returns ZEOK.
PopReturn(c) ==
    /\ pcC[c] = "took"
    /\ pcC' = [pcC EXCEPT ![c] = "idle"]
    /\ spin_out' = Free
    /\ UNCHANGED <<que, swapVars, sem, out>> /\ UNCHANGED pushVars

Pop(c) == \/ PopBegin(c) \/ PopWaitOk(c) \/ PopTimeout(c)
          \/ PopSwap(c) \/ PopTake(c) \/ PopReturn(c)

-----------------------------------------------------------------------------
Next == (\E p \in Producers : Push(p)) \/ (\E c \in Consumers : Pop(c))

Spec == Init /\ [][Next]_vars

\* A Push that has started runs to its end; some consumer keeps calling Pop.
\* Nothing is assumed about starting a Push.
Fairness ==
    /\ \A p \in Producers : WF_vars(PushEnq(p) \/ PushSize(p) \/ PushPost(p))
    /\ WF_vars(\E c \in Consumers : Pop(c))

FairSpec == Spec /\ Fairness

-----------------------------------------------------------------------------
(* Properties *)

TypeOK ==
    /\ que \in [Queues -> Seq(Msgs)]
    /\ in \in Queues
    /\ sem \in Nat
    /\ spin_in \in Producers \cup {Free}
    /\ spin_out \in Consumers \cup {Free}
    /\ pcP \in [Producers -> {"idle", "loaded", "pushed", "posting"}]
    /\ ptr \in [Producers -> Queues]
    /\ arg \in [Producers -> Msgs \cup {NoMsg}]
    /\ \A p \in Producers : pcP[p] = "loaded" => arg[p] \in Msgs
    /\ pcC \in [Consumers -> {"idle", "waiting", "woken", "take", "took", "ub"}]
    /\ out \in [Consumers -> Msgs \cup {NoMsg}]
    /\ crossed \subseteq Producers

\* que_in->push by a producer and que_out->front/pop by a consumer never
\* work on the same std::queue at the same time (thread safety of the class).
\* It holds with one message in flight: the consumer that may exchange then
\* holds the only token, and its message is the one all producers wait for.
NoDataRace ==
    \A p \in Producers, c \in Consumers :
        ~(pcP[p] = "loaded" /\ pcC[c] = "take" /\ ptr[p] = 1 - in)

\* Messages waiting in the producers' queue always have their wakeup: unless
\* a Push is still running, the semaphore is positive or a consumer has taken
\* the token and is about to exchange the queues.  Without it every later Pop
\* times out over a nonempty queue, and no later Push sees a size of 1.
NoLostWakeup ==
    (QueIn # <<>> /\ spin_in = Free) =>
        (sem > 0 \/ \E c \in Consumers : pcC[c] = "woken")

\* The converse: a token stands for a nonempty queue, so Pop never calls
\* front() and pop() on an empty std::queue.
NoPopEmpty ==
    \A c \in Consumers : /\ pcC[c] # "ub"
                         /\ pcC[c] = "take" => QueOut # <<>>

Uncrossed == crossed = {}

\* Whatever the callers do, the exchange inside a Push is all that can go
\* wrong: up to the first one each wakeup stands for a nonempty queue and
\* each nonempty queue has its wakeup.
WakeupUnlessCrossed == Uncrossed => NoLostWakeup /\ NoPopEmpty

\* The two queues, read consumers' side first, behave as one FIFO channel up
\* to the first exchange inside a Push: no message is lost, duplicated or
\* overtaken, across every exchange before.
Channel == INSTANCE FifoChannel WITH chan <- QueOut \o QueIn, got <- out
FifoUnlessCrossed ==
    Channel!Init /\ [][Uncrossed' => Channel!Next]_(Channel!vars)

\* While messages are queued, some Pop keeps returning one.
EventuallyDelivered ==
    (Queued > 0) ~> (\E c \in Consumers : pcC[c] = "took")

-----------------------------------------------------------------------------
(* The inductive invariant behind the safety properties, which holds until *)
(* an exchange falls inside a Push.                                        *)

InPush == {p \in Producers : pcP[p] # "idle"}
InPop == {c \in Consumers : pcC[c] # "idle"}

\* Each spin lock is held by the one thread inside its call.
LockInv == /\ \A p \in Producers : p \in InPush <=> spin_in = p
           /\ \A c \in Consumers : c \in InPop <=> spin_out = c

\* Until a Push has read the size, the queue it loaded is still que_in.
PtrInv == \A p \in Producers :
    /\ pcP[p] \in {"loaded", "pushed"} => ptr[p] = in
    /\ pcP[p] \in {"pushed", "posting"} => QueIn # <<>>

\* A consumer waits only over an empty que_out and takes from a full one.
OutInv == \A c \in Consumers :
    /\ pcC[c] # "ub"
    /\ pcC[c] \in {"waiting", "woken"} => QueOut = <<>>
    /\ pcC[c] = "take" => QueOut # <<>>

\* The wakeup of a nonempty que_in is in exactly one place: with the Push
\* that will post it, in the semaphore, or with the consumer that took it.
Posting == \E p \in Producers : \/ pcP[p] = "posting"
                                \/ pcP[p] = "pushed" /\ Len(QueIn) = 1
Woken == \E c \in Consumers : pcC[c] = "woken"

TokenInv ==
    /\ sem \in {0, 1}
    /\ QueIn = <<>> => sem = 0 /\ ~Posting /\ ~Woken
    /\ QueIn # <<>> => \/ sem = 1 /\ ~Posting /\ ~Woken
                       \/ sem = 0 /\ Posting /\ ~Woken
                       \/ sem = 0 /\ ~Posting /\ Woken

\* The callers' bound holds while a Push is about to add its message.
LimitInv ==
    /\ Queued <= MaxInFlight
    /\ (\E p \in Producers : pcP[p] = "loaded") => Queued < MaxInFlight

IInv == TypeOK /\ LockInv /\ PtrInv /\ OutInv /\ TokenInv /\ LimitInv
=============================================================================
