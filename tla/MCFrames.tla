------------------------------- MODULE MCFrames -------------------------------
(* The frame lists of zpp/zmq.hpp, FrameOwner and the loops of RotateLoop, *)
(* the loop of RestResource, the one of RingCapacity and the wrappers of   *)
(* Sqlite, in one run.  turn says which of them moves; the others stay     *)
(* where they are.                                                         *)
EXTENDS RotateLoop, RestResource, RingCapacity, FrameOwner, Sqlite

CONSTANT MaxLen     \* of the lists and the strings of the loops

VARIABLE turn

MCLists == UNION {[1..n -> Frames] : n \in 0..MaxLen}
MCUris == UNION {[1..n -> Chars \cup {Slash}] : n \in 0..MaxLen - 2}

RotateAtRest == /\ fn = "Rotate" /\ pc = "done"
                /\ input = <<>> /\ list = <<>> /\ hops0 = -1 /\ i = 0 /\ hops = -1
ResAtRest == stage = "done" /\ uri = <<>> /\ path = <<>> /\ idx = 0 /\ ret = 0
RingAtRest == stepR = "done" /\ asked = 1 /\ rest = 0 /\ capacity = 2

MCInit ==
    /\ turn \in {"rotate", "resource", "capacity", "frames", "sqlite"}
    /\ IF turn = "rotate" THEN Init ELSE RotateAtRest
    /\ IF turn = "resource" THEN ResInit ELSE ResAtRest
    /\ IF turn = "capacity" THEN RingInit ELSE RingAtRest
    /\ FramesInit
    /\ SqliteInit

MCNext ==
    /\ UNCHANGED turn
    /\ \/ turn = "rotate" /\ Next /\ UNCHANGED <<resVars, ringVars, frameVars, sqliteVars>>
       \/ turn = "resource" /\ ResNext /\ UNCHANGED <<vars, ringVars, frameVars, sqliteVars>>
       \/ turn = "capacity" /\ RingNext /\ UNCHANGED <<vars, resVars, frameVars, sqliteVars>>
       \/ turn = "frames" /\ FramesNext /\ UNCHANGED <<vars, resVars, ringVars, sqliteVars>>
       \/ turn = "sqlite" /\ SqliteNext /\ UNCHANGED <<vars, resVars, ringVars, frameVars>>

MCSpec == MCInit /\ [][MCNext]_<<vars, resVars, ringVars, frameVars, sqliteVars, turn>>

\* References and Messages of FrameOwner are interchangeable.
Symmetry == Permutations(Refs) \cup Permutations(Messages)
=============================================================================
