SPECIFICATION Spec
CONSTANTS
    Clients = {c1}
    Outcomes = {"reply"}
    MayFail = FALSE
    MaxReq = 2
    MaxRun = 2
\* The requests and runs are bounded: the model ends when all are done.
CHECK_DEADLOCK FALSE
INVARIANT RequestFilled
