\* Two messages in flight: NoDataRace fails.
SPECIFICATION Spec
CONSTANTS
    Consumers = {c1, c2}
    Msgs = {m1, m2}
    NoMsg = NoMsg
    Free = Free
    Producers = {p1, p2}
    MaxInFlight = 2
    MaxSem = 2
SYMMETRY Symmetry
INVARIANT NoDataRace
