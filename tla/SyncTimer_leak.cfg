SPECIFICATION Spec
CONSTANTS
    r1 = r1  r2 = r2  r3 = r3
    k1 = k1  k2 = k2
    x1 = x1  x2 = x2  x3 = x3  x4 = x4
    Requests = {r1, r2, r3}
    Replies = {x1, x2, x3, x4}
    Workers = {w1, w2}
    Keys = {k1, k2}
    NoReply = NoReply  None = None  Free = Free
    KeyOf <- MCKeyOf
    ReplyTo <- MCReplyTo
\* Requests and replies are one-shot: the model ends when all are used.
CHECK_DEADLOCK FALSE
INVARIANT NoReplyLeak
