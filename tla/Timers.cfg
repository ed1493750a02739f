SPECIFICATION MCSpec
CONSTANTS
    r1 = r1  r2 = r2  r3 = r3
    k1 = k1  k2 = k2
    x1 = x1  x2 = x2  x3 = x3  x4 = x4
    Requests = {r1, r2, r3}
    Replies = {x1, x2, x3, x4}
    Workers = {w1, w2}
    Keys = {k1, k2}
    NoReply = NoReply  None = None  Free = Free
    KeyOf <- MCKeyOf
    ReplyTo <- MCReplyTo
    TimerKeys = {t1, t2}
    Timeouts <- MCTimeouts
    Reenter = TRUE
    MaxTime = 2
    MaxPush = 2
    MaxBack = 1
\* Requests and replies are one-shot: the model ends when all are used.  A
\* callback that calls its timer never returns: the model stops there.
CHECK_DEADLOCK FALSE
INVARIANTS NoDanglingPost OkHasReply OneOwner IInv ResolvedExactly FiringRegistered
PROPERTIES WaitReturns EventuallyResolved
