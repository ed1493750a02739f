---------------------------- MODULE MCMsgQueue ----------------------------
(* Small instances of MsgQueue: producers, consumers and messages are      *)
(* model values and interchangeable; the runs without a liveness property  *)
(* use their symmetry.                                                     *)
EXTENDS MsgQueue, TLC

Symmetry == Permutations(Producers) \cup Permutations(Consumers)
                \cup Permutations(Msgs)
=============================================================================
