---------------------------- MODULE RingCapacity ----------------------------
(***************************************************************************)
(* The capacity that the constructor of z::MsgPoolRing<T> of               *)
(* zpp/base/msg_queue.hpp computes from the size it is asked for: twice    *)
(* the size, from which a loop clears the lowest bit until one is left.    *)
(* The ints have Width bits, and x << 1 and x - 1 wrap as they do in the   *)
(* machine.  asked, rest and capacity are bit patterns, below Bit[Width].  *)
(***************************************************************************)
EXTENDS Integers

CONSTANT Width

ASSUME WidthAssumption == Width \in Nat /\ Width >= 3

VARIABLES
    asked,      \* the argument _size
    rest,       \* _size in the constructor
    capacity,   \* the member, which a size of 0 leaves uninitialised
    stepR       \* "shift", "loop", "done"

ringVars == <<asked, rest, capacity, stepR>>

\* The bit n of an int.
Bit[n \in 0..Width] == IF n = 0 THEN 1 ELSE 2 * Bit[n - 1]

\* The sizes whose double is still a positive int.
Representable == 1..Bit[Width - 2] - 1
LowestBit(x) == CHOOSE b \in {Bit[n] : n \in 0..Width - 1} : x % b = 0 /\ (x \div b) % 2 = 1

RingInit ==
    /\ asked \in 0..Bit[Width - 1] - 1
    /\ rest = asked
    /\ capacity \in {0, 3}
    /\ stepR = "shift"

-----------------------------------------------------------------------------
(* Mutant *)

MutClearBit ==                  \* _size >>= 1
    /\ stepR = "loop" /\ rest # 0
    /\ capacity' = rest
    /\ rest' = rest \div 2
    /\ UNCHANGED <<asked, stepR>>

-----------------------------------------------------------------------------
Shift ==                        \* _size <<= 1
    /\ stepR = "shift"
    /\ rest' = (2 * rest) % Bit[Width]
    /\ stepR' = "loop"
    /\ UNCHANGED <<asked, capacity>>

ClearBit ==                     \* capacity = _size; _size &= _size - 1
    /\ stepR = "loop" /\ rest # 0
    /\ capacity' = rest
    /\ rest' = rest - LowestBit(rest)
    /\ UNCHANGED <<asked, stepR>>

LoopEnd ==
    /\ stepR = "loop" /\ rest = 0
    /\ stepR' = "done"
    /\ UNCHANGED <<asked, rest, capacity>>

RingNext == Shift \/ ClearBit \/ LoopEnd

-----------------------------------------------------------------------------
(* Property *)

\* The mask capacity - 1 takes any pos to a slot, and there is room for what
\* was asked for at a cost of less than twice that, for every size that can be
\* doubled.
CapacityFits == stepR = "done" /\ asked \in Representable =>
    /\ \E n \in 0..Width - 2 : capacity = Bit[n]
    /\ asked < capacity /\ capacity <= 2 * asked
=============================================================================
