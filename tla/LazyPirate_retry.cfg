SPECIFICATION LPSpec
CONSTANTS
    Endpoints = {e1, e2}
    SockTypes = {"req"}
    MayFail = TRUE
    MaxTrys = 2
    MaxCalls = 3
\* After MaxCalls requests on a socket without connections nothing is left.
CHECK_DEADLOCK FALSE
SYMMETRY Symmetry
INVARIANT TrySendsRequest
