\* MaxInFlight = 1, request and answer: a Push starts when nothing is queued.
SPECIFICATION MCSpec
CONSTANTS
    Producers = {p1, p2}
    Consumers = {q1, q2}
    Msgs = {m1, m2}
    NoMsg = NoMsg
    Free = Free
    MaxInFlight = 1
    MaxSem = 2
    Endpoints = {e1, e2}
    SockTypes = {"req", "dealer", "mute", "invalid"}
    MayFail = TRUE
    MaxTrys = 3
    MaxCalls = 2
    n1 = n1  n2 = n2  n3 = n3  d1 = d1
    Clients = {c1, c2}
    Routers = {n1, n2, n3}
    Paths <- MCPaths
    Payloads <- MCPayloads
    Empty <- MCEmpty
    MaxReq = 2
\* The calls and requests are bounded, and a Send without a connection never
\* returns.
CHECK_DEADLOCK FALSE
INVARIANTS NoDataRace ReplyFresh ConnsLinked ReadyAfterCall BackTrace AnswerFits
PROPERTIES EventuallyDelivered CallReturns EventuallyAnswered
