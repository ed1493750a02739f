\* The exchange at any time; up to three messages queued.
SPECIFICATION Spec
CONSTANTS
    Consumers = {c1, c2}
    Msgs = {m1, m2}
    NoMsg = NoMsg
    Free = Free
    Producers = {p1, p2}
    MaxInFlight = 3
    MaxSem = 2
SYMMETRY Symmetry
\* A consumer may end in front() of an empty queue, with the lock held.
CHECK_DEADLOCK FALSE
INVARIANT WakeupUnlessCrossed
PROPERTY FifoUnlessCrossed
