---------------------------- MODULE FifoChannel ----------------------------
(***************************************************************************)
(* What zpp/base/msg_queue.hpp promises to its callers: an unbounded,      *)
(* loss-free, first-in first-out channel between any number of threads.    *)
(* Put is the effect of MsgQueue::Push, Get the effect of a MsgQueue::Pop  *)
(* that returns ZEOK.  A Pop that times out has no effect.                 *)
(***************************************************************************)
EXTENDS Sequences

CONSTANTS Consumers, Msgs, NoMsg

VARIABLES chan,   \* messages put and not yet got, oldest first
          got     \* got[c]: the message c's latest successful Get returned

vars == <<chan, got>>

Init == chan = <<>> /\ got = [c \in Consumers |-> NoMsg]

Put(m) == chan' = Append(chan, m) /\ UNCHANGED got

Get(c) == /\ chan # <<>>
          /\ got' = [got EXCEPT ![c] = Head(chan)]
          /\ chan' = Tail(chan)

Next == (\E m \in Msgs : Put(m)) \/ (\E c \in Consumers : Get(c))

Spec == Init /\ [][Next]_vars
=============================================================================
