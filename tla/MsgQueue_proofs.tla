--------------------------- MODULE MsgQueue_proofs ---------------------------
(***************************************************************************)
(* Proofs about MsgQueue, for every set of producers, consumers and        *)
(* messages and every bound: type correctness; that up to the first        *)
(* exchange inside a Push no wakeup is lost, none is void, and the queues  *)
(* are a FIFO channel; and that with one message in flight no exchange     *)
(* falls inside a Push, so that no two threads are in one std::queue.      *)
(***************************************************************************)
EXTENDS MsgQueue, TLAPS, SequenceTheorems

\* Type correctness of the queue, on every schedule.
THEOREM TypeCorrect == Spec => []TypeOK
<1>1. Init => TypeOK
  BY DEF Init, TypeOK, Queues
<1>2. TypeOK /\ [Next]_vars => TypeOK'
  <2> SUFFICES ASSUME TypeOK, [Next]_vars PROVE TypeOK'
    OBVIOUS
  <2> USE DEF TypeOK, Queues, QueIn, QueOut, pushVars, popVars, swapVars
  <2>1. ASSUME NEW p \in Producers, PushBegin(p) PROVE TypeOK'
    BY <2>1 DEF PushBegin
  <2>2. ASSUME NEW p \in Producers, PushEnq(p) PROVE TypeOK'
    BY <2>2 DEF PushEnq
  <2>3. ASSUME NEW p \in Producers, PushSize(p) PROVE TypeOK'
    BY <2>3 DEF PushSize
  <2>4. ASSUME NEW p \in Producers, PushPost(p) PROVE TypeOK'
    BY <2>4 DEF PushPost
  <2>5. ASSUME NEW c \in Consumers, PopBegin(c) PROVE TypeOK'
    BY <2>5 DEF PopBegin
  <2>6. ASSUME NEW c \in Consumers, PopWaitOk(c) PROVE TypeOK'
    BY <2>6 DEF PopWaitOk
  <2>7. ASSUME NEW c \in Consumers, PopTimeout(c) PROVE TypeOK'
    BY <2>7 DEF PopTimeout
  <2>8. ASSUME NEW c \in Consumers, PopSwap(c) PROVE TypeOK'
    BY <2>8 DEF PopSwap
  <2>9. ASSUME NEW c \in Consumers, PopTake(c) PROVE TypeOK'
    <3>1. CASE QueOut = <<>>
      BY <2>9, <3>1 DEF PopTake
    <3>2. CASE QueOut # <<>>
      <4>1. Head(QueOut) \in Msgs /\ Tail(QueOut) \in Seq(Msgs)
        BY <3>2
      <4>2. que' = [que EXCEPT ![1 - in] = Tail(QueOut)] /\ 1 - in \in Queues
        BY <2>9, <3>2 DEF PopTake
      <4>3. que' \in [Queues -> Seq(Msgs)]
        BY <4>1, <4>2
      <4> HIDE DEF QueOut
      <4>4. UNCHANGED <<in, crossed, sem, spin_in, spin_out, pcP, ptr, arg>>
        BY <2>9 DEF PopTake
      <4>5. pcC' \in [Consumers -> {"idle", "waiting", "woken", "take", "took", "ub"}]
            /\ out' \in [Consumers -> Msgs \cup {NoMsg}]
        BY <2>9, <3>2, <4>1 DEF PopTake
      <4> QED BY <4>3, <4>4, <4>5
    <3> QED BY <3>1, <3>2
  <2>10. ASSUME NEW c \in Consumers, PopReturn(c) PROVE TypeOK'
    BY <2>10 DEF PopReturn
  <2>11. CASE UNCHANGED vars
    BY <2>11 DEF vars
  <2> QED
    BY <2>1, <2>2, <2>3, <2>4, <2>5, <2>6, <2>7, <2>8, <2>9, <2>10, <2>11
       DEF Next, Push, Pop
<1> QED
  BY <1>1, <1>2, PTL DEF Spec

\* The two queues seen from the side of que_in.
LEMMA QueueTypes ==
    ASSUME TypeOK
    PROVE  /\ in \in {0, 1} /\ QueIn \in Seq(Msgs) /\ QueOut \in Seq(Msgs)
           /\ Len(QueIn) \in Nat /\ Len(QueOut) \in Nat
           /\ QueIn = <<>> <=> Len(QueIn) = 0
           /\ QueOut = <<>> <=> Len(QueOut) = 0
<1>1. in \in {0, 1} /\ QueIn \in Seq(Msgs) /\ QueOut \in Seq(Msgs)
  BY DEF TypeOK, Queues, QueIn, QueOut
<1>2. Len(QueIn) \in Nat /\ Len(QueOut) \in Nat BY <1>1, LenProperties
<1> QED BY <1>1, <1>2, EmptySeq

\* A step that keeps both queues and que_in keeps what is queued.
LEMMA QueuesKept ==
    ASSUME UNCHANGED <<que, in>>
    PROVE  QueIn' = QueIn /\ QueOut' = QueOut /\ Queued' = Queued
BY DEF QueIn, QueOut, Queued

\* The inductive step of IInv, one lemma per operation.
LEMMA PushPreserves ==
    ASSUME IInv, TypeOK', NEW p \in Producers, Push(p)
    PROVE  IInv'
<1> USE MQAssumption DEF IInv, pushVars, popVars, swapVars
<1>0. p \in InPush => /\ spin_in = p
                      /\ \A q \in Producers \ {p} : pcP[q] = "idle"
  BY DEF LockInv, InPush
<1>1. CASE PushBegin(p)
  <2> USE <1>1 DEF PushBegin
  <2>1. \A q \in Producers : pcP[q] = "idle"
    BY DEF LockInv, InPush
  <2>2. LockInv' BY <2>1 DEF LockInv, InPush, InPop, TypeOK
  <2>3. PtrInv' BY <2>1 DEF PtrInv, TypeOK
  <2>4. OutInv' BY QueuesKept DEF OutInv
  <2>5. TokenInv'
    <3>1. Woken' <=> Woken BY DEF Woken
    <3>2. ~Posting /\ ~Posting' BY <2>1 DEF Posting, TypeOK
    <3> QED BY <3>1, <3>2, QueuesKept DEF TokenInv
  <2>6. LimitInv' BY QueuesKept DEF LimitInv
  <2> QED BY <2>2, <2>3, <2>4, <2>5, <2>6
<1>2. CASE PushEnq(p)
  <2> USE <1>2 DEF PushEnq
  <2>1. /\ ptr[p] = in /\ spin_in = p /\ arg[p] \in Msgs
        /\ \A q \in Producers \ {p} : pcP[q] = "idle"
    BY <1>0 DEF PtrInv, InPush, TypeOK
  <2>2. QueIn' = Append(QueIn, arg[p]) /\ QueOut' = QueOut
    BY <2>1 DEF TypeOK, Queues, QueIn, QueOut
  <2>3. Len(QueIn') = Len(QueIn) + 1 /\ QueIn' # <<>>
    BY <2>1, <2>2, QueueTypes
  <2>4. LockInv' BY <1>0 DEF LockInv, InPush, InPop, TypeOK
  <2>5. PtrInv' BY <2>1, <2>3 DEF PtrInv, TypeOK
  <2>6. OutInv' BY <2>2 DEF OutInv
  <2>7. TokenInv'
    <3>1. Woken' <=> Woken BY DEF Woken
    <3>2. ~Posting BY <2>1 DEF Posting
    <3>3. Posting' <=> QueIn = <<>>
      <4>1. Posting' <=> Len(QueIn') = 1 BY <2>1 DEF Posting, TypeOK
      <4> QED BY <4>1, <2>3, QueueTypes
    <3> QED BY <2>3, <3>1, <3>2, <3>3 DEF TokenInv
  <2>8. LimitInv'
    <3>1. Queued < MaxInFlight BY DEF LimitInv
    <3>2. Queued \in Nat /\ Queued' = Queued + 1
      BY <2>2, <2>3, QueueTypes DEF Queued
    <3>3. ~\E q \in Producers : pcP'[q] = "loaded" BY <2>1 DEF TypeOK
    <3> QED BY <3>1, <3>2, <3>3 DEF LimitInv
  <2> QED BY <2>4, <2>5, <2>6, <2>7, <2>8
<1>3. CASE PushSize(p)
  <2> USE <1>3 DEF PushSize
  <2>1. /\ ptr[p] = in /\ spin_in = p /\ QueIn # <<>>
        /\ \A q \in Producers \ {p} : pcP[q] = "idle"
    BY <1>0 DEF PtrInv, InPush
  <2>2. IF Len(QueIn) = 1
        THEN pcP' = [pcP EXCEPT ![p] = "posting"] /\ UNCHANGED spin_in
        ELSE pcP' = [pcP EXCEPT ![p] = "idle"] /\ spin_in' = Free
    BY <2>1 DEF QueIn
  <2>3. LockInv' BY <2>1, <2>2 DEF LockInv, InPush, InPop, TypeOK
  <2>4. PtrInv' BY <2>1, <2>2, QueuesKept DEF PtrInv, TypeOK
  <2>5. OutInv' BY QueuesKept DEF OutInv
  <2>6. TokenInv'
    <3>1. Woken' <=> Woken BY DEF Woken
    <3>2. Posting <=> Len(QueIn) = 1 BY <2>1 DEF Posting
    <3>3. Posting' <=> Len(QueIn) = 1
      <4>1. \A q \in Producers \ {p} : pcP'[q] = "idle"
        BY <2>1, <2>2 DEF TypeOK
      <4>2. pcP'[p] = IF Len(QueIn) = 1 THEN "posting" ELSE "idle"
        BY <2>2 DEF TypeOK
      <4> QED BY <4>1, <4>2 DEF Posting
    <3> QED BY <3>1, <3>2, <3>3, QueuesKept DEF TokenInv
  <2>7. LimitInv'
    <3>1. ~\E q \in Producers : pcP'[q] = "loaded"
      <4>1. \A q \in Producers \ {p} : pcP'[q] = "idle" BY <2>1, <2>2 DEF TypeOK
      <4>2. pcP'[p] \in {"idle", "posting"} BY <2>2 DEF TypeOK
      <4> QED BY <4>1, <4>2
    <3> QED BY <3>1, QueuesKept DEF LimitInv
  <2> QED BY <2>3, <2>4, <2>5, <2>6, <2>7
<1>4. CASE PushPost(p)
  <2> USE <1>4 DEF PushPost
  <2>1. /\ spin_in = p /\ QueIn # <<>>
        /\ \A q \in Producers : pcP'[q] = "idle"
    BY <1>0 DEF PtrInv, InPush, TypeOK
  <2>2. LockInv' BY <2>1 DEF LockInv, InPush, InPop, TypeOK
  <2>3. PtrInv' BY <2>1 DEF PtrInv
  <2>4. OutInv' BY QueuesKept DEF OutInv
  <2>5. TokenInv'
    <3>1. Woken' <=> Woken BY DEF Woken
    <3>2. Posting /\ ~Posting' BY <2>1 DEF Posting
    <3> QED BY <2>1, <3>1, <3>2, QueuesKept DEF TokenInv
  <2>6. LimitInv' BY <2>1, QueuesKept DEF LimitInv
  <2> QED BY <2>2, <2>3, <2>4, <2>5, <2>6
<1> QED BY <1>1, <1>2, <1>3, <1>4 DEF Push

\* The actions of Pop that move no message only hand the lock or the token on.
LEMMA PopPreserves ==
    ASSUME IInv, TypeOK', NEW c \in Consumers, Pop(c), crossed' = {}
    PROVE  IInv'
<1> USE MQAssumption DEF IInv, pushVars, popVars, swapVars
<1>0. c \in InPop => /\ spin_out = c
                     /\ \A d \in Consumers \ {c} : pcC[d] = "idle"
  BY DEF LockInv, InPop
<1>1. CASE PopBegin(c)
  <2> USE <1>1 DEF PopBegin
  <2>1. LockInv' BY DEF LockInv, InPush, InPop, TypeOK
  <2>2. PtrInv' BY QueuesKept DEF PtrInv
  <2>3. OutInv' BY QueuesKept DEF OutInv, TypeOK
  <2>4. TokenInv'
    <3>1. Woken' <=> Woken BY DEF Woken, TypeOK
    <3>2. Posting' <=> Posting BY QueuesKept DEF Posting
    <3> QED BY <3>1, <3>2, QueuesKept DEF TokenInv
  <2>5. LimitInv' BY QueuesKept DEF LimitInv
  <2> QED BY <2>1, <2>2, <2>3, <2>4, <2>5
<1>2. CASE PopWaitOk(c)
  <2> USE <1>2 DEF PopWaitOk
  <2>1. LockInv' BY DEF LockInv, InPush, InPop, TypeOK
  <2>2. PtrInv' BY QueuesKept DEF PtrInv
  <2>3. OutInv' BY QueuesKept DEF OutInv, TypeOK
  <2>4. TokenInv'
    <3>1. Woken' BY DEF Woken, TypeOK
    <3>2. Posting' <=> Posting BY QueuesKept DEF Posting
    <3> QED BY <3>1, <3>2, QueuesKept DEF TokenInv
  <2>5. LimitInv' BY QueuesKept DEF LimitInv
  <2> QED BY <2>1, <2>2, <2>3, <2>4, <2>5
<1>3. CASE PopTimeout(c)
  <2> USE <1>3 DEF PopTimeout
  <2>1. LockInv' BY <1>0 DEF LockInv, InPush, InPop, TypeOK
  <2>2. PtrInv' BY QueuesKept DEF PtrInv
  <2>3. OutInv' BY QueuesKept DEF OutInv, TypeOK
  <2>4. TokenInv'
    <3>1. Woken' <=> Woken BY DEF Woken, TypeOK
    <3>2. Posting' <=> Posting BY QueuesKept DEF Posting
    <3> QED BY <3>1, <3>2, QueuesKept DEF TokenInv
  <2>5. LimitInv' BY QueuesKept DEF LimitInv
  <2> QED BY <2>1, <2>2, <2>3, <2>4, <2>5
<1>4. CASE PopSwap(c)
  <2> USE <1>4 DEF PopSwap
  <2>1. Woken /\ QueOut = <<>> /\ QueIn # <<>> /\ sem = 0 /\ ~Posting
    BY DEF Woken, OutInv, TokenInv
  <2>2. Queued = Len(QueIn) /\ Len(QueIn) \in Nat \ {0}
    BY <2>1, QueueTypes DEF Queued
  \* No Push is between its load of que_in and its return.
  <2>3. \A p \in Producers : pcP[p] = "idle"
    <3>1. \A p \in Producers : pcP[p] \notin {"loaded", "pushed"} OBVIOUS
    <3>2. \A p \in Producers : pcP[p] # "posting" BY <2>1 DEF Posting
    <3> QED BY <3>1, <3>2 DEF TypeOK
  <2>4. QueIn' = QueOut /\ QueOut' = QueIn
    BY QueueTypes DEF QueIn, QueOut
  <2>5. LockInv' BY DEF LockInv, InPush, InPop, TypeOK
  <2>6. PtrInv' BY <2>3 DEF PtrInv
  <2>7. OutInv' BY <1>0, <2>1, <2>4 DEF OutInv, InPop, TypeOK
  <2>8. TokenInv'
    <3>1. ~Woken' BY <1>0 DEF Woken, InPop, TypeOK
    <3>2. ~Posting' BY <2>3 DEF Posting
    <3> QED BY <2>1, <2>4, <3>1, <3>2 DEF TokenInv
  <2>9. LimitInv'
    <3>1. Queued' = Queued BY <2>4, QueueTypes DEF Queued
    <3> QED BY <3>1 DEF LimitInv
  <2> QED BY <2>5, <2>6, <2>7, <2>8, <2>9
<1>5. CASE PopTake(c)
  <2> USE <1>5 DEF PopTake
  <2>1. QueOut # <<>> BY DEF OutInv
  <2>2. /\ pcC' = [pcC EXCEPT ![c] = "took"]
        /\ que' = [que EXCEPT ![1 - in] = Tail(@)]
    BY <2>1
  <2>3. QueOut' = Tail(QueOut) /\ QueIn' = QueIn
    BY <2>2, QueueTypes DEF QueIn, QueOut, TypeOK, Queues
  <2>4. Len(QueOut') = Len(QueOut) - 1
    BY <2>1, <2>3, QueueTypes, HeadTailProperties
  <2>5. LockInv' BY <2>2 DEF LockInv, InPush, InPop, TypeOK
  <2>6. PtrInv' BY <2>3 DEF PtrInv
  <2>7. OutInv' BY <1>0, <2>2 DEF OutInv, InPop, TypeOK
  <2>8. TokenInv'
    <3>1. Woken' <=> Woken BY <2>2 DEF Woken, TypeOK
    <3>2. Posting' <=> Posting BY <2>3 DEF Posting
    <3> QED BY <2>3, <3>1, <3>2 DEF TokenInv
  <2>9. LimitInv'
    <3>1. Queued \in Nat /\ Len(QueIn) \in Nat /\ Len(QueOut) \in Nat
      BY QueueTypes DEF Queued
    <3>2. Queued' = Len(QueIn) + (Len(QueOut) - 1)
      BY <2>3, <2>4 DEF Queued
    <3>3. Queued' = Queued - 1
      BY <3>1, <3>2 DEF Queued
    <3> QED BY <3>1, <3>3 DEF LimitInv
  <2> QED BY <2>5, <2>6, <2>7, <2>8, <2>9
<1>6. CASE PopReturn(c)
  <2> USE <1>6 DEF PopReturn
  <2>1. LockInv' BY <1>0 DEF LockInv, InPush, InPop, TypeOK
  <2>2. PtrInv' BY QueuesKept DEF PtrInv
  <2>3. OutInv' BY QueuesKept DEF OutInv, TypeOK
  <2>4. TokenInv'
    <3>1. Woken' <=> Woken BY DEF Woken, TypeOK
    <3>2. Posting' <=> Posting BY QueuesKept DEF Posting
    <3> QED BY <3>1, <3>2, QueuesKept DEF TokenInv
  <2>5. LimitInv' BY QueuesKept DEF LimitInv
  <2> QED BY <2>1, <2>2, <2>3, <2>4, <2>5
<1> QED BY <1>1, <1>2, <1>3, <1>4, <1>5, <1>6 DEF Pop

\* An exchange inside a Push is not forgotten.
LEMMA CrossedStays == [Next]_vars => (Uncrossed' => Uncrossed)
BY DEF Next, Push, Pop, PushBegin, PushEnq, PushSize, PushPost, PopBegin, PopWaitOk, PopTimeout,
       PopSwap, PopTake, PopReturn, swapVars, popVars, pushVars, vars, Uncrossed

LEMMA InitIInv == Init => IInv
BY MQAssumption DEF Init, IInv, TypeOK, LockInv, InPush, InPop, PtrInv, OutInv,
   TokenInv, Posting, Woken, LimitInv, Queued, Queues, QueIn, QueOut

\* A step that is no exchange inside a Push keeps the invariant.
LEMMA StepPreserves == IInv /\ TypeOK' /\ [Next]_vars /\ Uncrossed' => IInv'
<1> SUFFICES ASSUME IInv, TypeOK', [Next]_vars, Uncrossed' PROVE IInv'
  OBVIOUS
<1>1. CASE \E p \in Producers : Push(p) BY <1>1, PushPreserves
<1>2. CASE \E c \in Consumers : Pop(c) BY <1>2, PopPreserves DEF Uncrossed
<1>3. CASE UNCHANGED vars
  BY <1>3 DEF vars, IInv, TypeOK, LockInv, InPush, InPop, PtrInv, OutInv,
     TokenInv, Posting, Woken, LimitInv, Queued, Queues, QueIn, QueOut
<1> QED BY <1>1, <1>2, <1>3 DEF Next

\* IInv holds on every schedule until an exchange falls inside a Push.
THEOREM InvUnlessCrossed == Spec => [](Uncrossed => IInv)
<1>1. Init => (Uncrossed => IInv) BY InitIInv
<1>2. (Uncrossed => IInv) /\ TypeOK /\ TypeOK' /\ [Next]_vars => (Uncrossed' => IInv')
  BY CrossedStays, StepPreserves
<1> QED BY <1>1, <1>2, TypeCorrect, PTL DEF Spec

\* Until then a nonempty que_in has its wakeup, and front() and pop() are not
\* called on an empty std::queue.
THEOREM WakeupKept == Spec => []WakeupUnlessCrossed
<1>1. IInv => NoLostWakeup
  <2> SUFFICES ASSUME IInv, QueIn # <<>>, spin_in = Free
               PROVE  sem > 0 \/ Woken
    BY DEF NoLostWakeup, Woken
  <2>1. ~Posting
    BY MQAssumption DEF IInv, LockInv, InPush, Posting
  <2> QED BY <2>1 DEF IInv, TokenInv
<1>2. IInv => NoPopEmpty
  BY DEF IInv, OutInv, NoPopEmpty
<1>3. (Uncrossed => IInv) => WakeupUnlessCrossed
  BY <1>1, <1>2 DEF WakeupUnlessCrossed
<1> QED BY <1>3, InvUnlessCrossed, PTL

\* With one message in flight a consumer that may exchange has a full queue
\* before it, so that no Push is at work: it has posted, and none may begin.
LEMMA OneNotCrossed ==
    ASSUME MaxInFlight = 1, IInv, TypeOK', [Next]_vars, Uncrossed
    PROVE  Uncrossed'
<1> USE DEF Uncrossed
<1>1. ASSUME NEW c \in Consumers, PopSwap(c) PROVE Uncrossed'
  <2>1. Woken /\ QueOut = <<>> /\ QueIn # <<>> /\ ~Posting
    BY <1>1 DEF PopSwap, Woken, IInv, OutInv, TokenInv
  <2>2. Queued = Len(QueIn) /\ Len(QueIn) \in Nat \ {0}
    BY <2>1, QueueTypes DEF Queued, IInv
  <2>3. Queued <= 1 BY DEF IInv, LimitInv
  <2>4. Len(QueIn) = 1 BY <2>2, <2>3
  <2>5. \A p \in Producers : pcP[p] # "pushed" BY <2>1, <2>4 DEF Posting
  <2>6. \A p \in Producers : pcP[p] # "loaded"
    <3>1. ~(Queued < MaxInFlight) BY <2>2, <2>4
    <3> QED BY <3>1 DEF IInv, LimitInv
  <2> QED BY <1>1, <2>5, <2>6 DEF PopSwap
<1> QED
  BY <1>1 DEF Next, Push, Pop, PushBegin, PushEnq, PushSize, PushPost, PopBegin, PopWaitOk,
              PopTimeout, PopTake, PopReturn, swapVars, popVars, pushVars, vars

\* In a request/answer use, with one message in flight, no two threads are in
\* one std::queue, although nothing in Pop waits for a Push to end.
THEOREM DataRaceFree == MaxInFlight = 1 => (Spec => []NoDataRace)
<1> SUFFICES ASSUME MaxInFlight = 1 PROVE Spec => []NoDataRace
  OBVIOUS
<1>1. Init => IInv /\ Uncrossed BY InitIInv DEF Init, Uncrossed
<1>2. IInv /\ Uncrossed /\ TypeOK' /\ [Next]_vars => IInv' /\ Uncrossed'
  BY OneNotCrossed, StepPreserves
<1>3. IInv => NoDataRace
  BY DEF IInv, NoDataRace, PtrInv, TypeOK, Queues
<1> QED BY <1>1, <1>2, <1>3, TypeCorrect, PTL DEF Spec

\* Concatenation against Append, Head and Tail.
LEMMA ConcatAppend ==
    ASSUME NEW S, NEW s \in Seq(S), NEW t \in Seq(S), NEW m \in S
    PROVE  s \o Append(t, m) = Append(s \o t, m)
OBVIOUS

LEMMA ConcatHeadTail ==
    ASSUME NEW S, NEW s \in Seq(S), NEW t \in Seq(S), s # <<>>
    PROVE  /\ s \o t # <<>>
           /\ Head(s \o t) = Head(s)
           /\ Tail(s \o t) = Tail(s) \o t
OBVIOUS

\* Until an exchange falls inside a Push the two queues and their exchange
\* implement one FIFO channel.
THEOREM FifoRefinement == Spec => FifoUnlessCrossed
<1>1. Init => Channel!Init
  BY DEF Init, Channel!Init, QueIn, QueOut, Queues
<1>2. (Uncrossed => IInv) /\ TypeOK /\ [Next]_vars => [Uncrossed' => Channel!Next]_(Channel!vars)
  <2> SUFFICES ASSUME Uncrossed => IInv, TypeOK, [Next]_vars, Uncrossed'
               PROVE  [Channel!Next]_(Channel!vars)
    OBVIOUS
  <2> IInv BY CrossedStays
  <2>0. TypeOK BY DEF IInv
  <2>1. CASE UNCHANGED <<que, in, out>>
    BY <2>1, QueuesKept DEF Channel!vars
  <2>2. ASSUME NEW p \in Producers, PushEnq(p) PROVE Channel!Next
    <3>1. ptr[p] = in /\ arg[p] \in Msgs /\ out' = out
      BY <2>2 DEF IInv, PtrInv, TypeOK, PushEnq, popVars
    <3>2. QueIn' = Append(QueIn, arg[p]) /\ QueOut' = QueOut
      BY <2>0, <2>2, <3>1 DEF PushEnq, swapVars, TypeOK, Queues, QueIn, QueOut
    <3>3. Channel!Put(arg[p])
      BY <2>0, <3>1, <3>2, QueueTypes, ConcatAppend DEF Channel!Put
    <3> QED BY <3>1, <3>3 DEF Channel!Next
  <2>3. ASSUME NEW c \in Consumers, PopSwap(c) PROVE UNCHANGED Channel!vars
    <3>1. QueOut = <<>> BY <2>3 DEF IInv, OutInv, PopSwap
    <3>2. QueIn' = QueOut /\ QueOut' = QueIn /\ out' = out
      BY <2>0, <2>3, QueueTypes DEF QueIn, QueOut, PopSwap
    <3>3. /\ QueOut \o QueIn = QueIn /\ QueOut' \o QueIn' = QueIn
          /\ out' = out
      BY <2>0, <3>1, <3>2, QueueTypes, ConcatEmptySeq
    <3> QED BY <3>3 DEF Channel!vars
  <2>4. ASSUME NEW c \in Consumers, PopTake(c) PROVE Channel!Next
    <3>1. QueOut # <<>> BY <2>4 DEF IInv, OutInv, PopTake
    <3>2. QueOut' = Tail(QueOut) /\ QueIn' = QueIn
      BY <2>0, <2>4, <3>1, QueueTypes DEF PopTake, swapVars, QueIn, QueOut, TypeOK, Queues
    <3>3. out' = [out EXCEPT ![c] = Head(QueOut)]
      BY <2>4, <3>1 DEF PopTake
    <3>4. Channel!Get(c)
      BY <2>0, <3>1, <3>2, <3>3, QueueTypes, ConcatHeadTail DEF Channel!Get
    <3> QED BY <3>4 DEF Channel!Next
  <2>5. CASE Next
    BY <2>1, <2>2, <2>3, <2>4, <2>5
       DEF Next, Push, Pop, PushBegin, PushSize, PushPost, PopBegin, PopWaitOk,
           PopTimeout, PopReturn, popVars, swapVars
  <2>6. CASE UNCHANGED vars
    BY <2>1, <2>6 DEF vars
  <2> QED BY <2>5, <2>6
<1> QED BY <1>1, <1>2, InvUnlessCrossed, TypeCorrect, PTL DEF Spec, FifoUnlessCrossed
=============================================================================
