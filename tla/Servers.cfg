SPECIFICATION MCSpec
CONSTANTS
    Clients = {c1}
    Outcomes <- MCOutcomes
    MayFail = TRUE
    MaxReq = 3
    MaxRun = 2
    Tasks = {t1, t2}
    Requests = {r1, r2, r3}
    NoMsg = NoMsg
\* The requests and runs are bounded: the model ends when all are done.
CHECK_DEADLOCK FALSE
INVARIANTS ResponseOwn ThreadKept RequestOnce
PROPERTIES DispatchReturns TaskReturns
