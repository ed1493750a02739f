----------------------------- MODULE RotateLoop -----------------------------
(***************************************************************************)
(* The loops of RoutePath::RotateRoute and MsgStack::Rotate of zpp/zmq.hpp *)
(* step by step: frames are exchanged in place from both ends while both   *)
(* the index and the bound move.  Loop bounds that move towards each other *)
(* are where such code is wrong for one parity or for the shortest lists.  *)
(*                                                                         *)
(* A call has a list of Lists and, for RotateRoute, the parameter hops:    *)
(* CalcRoute's counter, at most the number of frames.  Rotate starts from  *)
(* size - 1 and exchanges with msgs[hops], so the part it turns is         *)
(* hops + 1 long; RotateRoute's is hops long.                              *)
(***************************************************************************)
EXTENDS RoutePath

CONSTANTS Frames, Lists

ASSUME RLAssumption == Lists \subseteq Seq(Frames)

VARIABLES fn,       \* the function that runs
          input,    \* the list it is called on
          hops0,    \* where its hops starts
          list,     \* msgs[2], or msgs of the MsgStack
          i,        \* the loop's index
          hops,     \* the parameter, which the loop counts down
          pc        \* "drop", "swap", "done"

vars == <<fn, input, hops0, list, i, hops, pc>>

Init ==
    /\ input \in Lists
    /\ \/ fn = "RotateRoute" /\ hops0 \in 0..Len(input)
       \/ fn = "Rotate" /\ hops0 = Len(input) - 1
    /\ list = input
    /\ i = 0
    /\ hops = hops0
    /\ pc = IF fn = "Rotate" THEN "swap" ELSE IF hops0 > 0 THEN "drop" ELSE "done"

\* The list positions, from 1, of msgs[i] and of its partner msgs[hops - 1]
\* in RotateRoute, msgs[hops] in Rotate.
Low == i + 1
High == IF fn = "RotateRoute" THEN hops ELSE hops + 1

\* How much of the list the call turns round.
Turned == IF fn = "RotateRoute" THEN hops0 ELSE hops0 + 1

-----------------------------------------------------------------------------
(* Mutants *)

MutSwap ==                      \* leaves the bound where it is
    /\ pc = "swap"
    /\ i < hops
    /\ list' = [list EXCEPT ![Low] = list[High], ![High] = list[Low]]
    /\ i' = i + 1
    /\ UNCHANGED <<fn, input, hops0, hops, pc>>

-----------------------------------------------------------------------------
\* while(size > hops + 1) close and pop_back.
Drop ==
    /\ pc = "drop"
    /\ list' = SubSeq(list, 1, IF Len(list) > hops + 1 THEN hops + 1 ELSE Len(list))
    /\ pc' = "swap"
    /\ UNCHANGED <<fn, input, hops0, i, hops>>

\* One turn: exchange, ++i, --hops.
Swap ==
    /\ pc = "swap"
    /\ i < hops
    /\ list' = [list EXCEPT ![Low] = list[High], ![High] = list[Low]]
    /\ i' = i + 1
    /\ hops' = hops - 1
    /\ UNCHANGED <<fn, input, hops0, pc>>

Return ==
    /\ pc = "swap"
    /\ i >= hops
    /\ pc' = "done"
    /\ UNCHANGED <<fn, input, hops0, list, i, hops>>

Next == Drop \/ Swap \/ Return

Spec == Init /\ [][Next]_vars

-----------------------------------------------------------------------------
(* Properties *)

\* The list as it is when the exchanges start.
Kept == IF fn = "RotateRoute" /\ hops0 > 0 /\ Len(input) > hops0 + 1
        THEN SubSeq(input, 1, hops0 + 1) ELSE input

TypeOK ==
    /\ fn \in {"RotateRoute", "Rotate"}
    /\ input \in Lists
    /\ hops0 \in -1..Len(input)
    /\ list \in Seq(Frames)
    /\ i \in Nat /\ hops \in Int
    /\ pc \in {"drop", "swap", "done"}

\* What the call returns: its first frames turned round, the others as they
\* were, for both functions, both parities and the empty list.
Rotated == pc = "done" =>
    list = [k \in 1..Len(Kept) |-> IF k <= Turned THEN input[Turned + 1 - k]
                                                  ELSE input[k]]

\* RotateRoute is the operator of RoutePath that the routing model uses.
AgreesWithRoutePath == pc = "done" /\ fn = "RotateRoute" =>
    list = RotateRoute(input, hops0)

\* Between the exchanges: the ends up to i are turned round, the middle is
\* untouched, and index and bound have moved by the same amount.
SwapInv ==
    /\ fn = "RotateRoute" => hops0 > 0
    /\ Len(list) = Len(Kept)
    /\ hops = hops0 - i
    /\ 2 * i <= Turned + 1
    /\ \A k \in 1..Len(list) :
          list[k] = IF k <= Turned /\ (k <= i \/ k > Turned - i)
                    THEN input[Turned + 1 - k] ELSE input[k]

IInv ==
    /\ TypeOK
    /\ pc = "drop" => /\ fn = "RotateRoute" /\ hops0 > 0
                      /\ list = input /\ i = 0 /\ hops = hops0
    /\ fn = "Rotate" => hops0 = Len(input) - 1
    /\ fn = "RotateRoute" => hops0 >= 0
    /\ pc = "swap" => SwapInv
    /\ Rotated
=============================================================================
