\* Capacity 2 and five objects: the ring fills up, overflows, runs empty and wraps.
SPECIFICATION MCSpec
CONSTANTS
    Null = Null
    Clients = {c1, c2}
    Objs = {o1, o2, o3, o4, o5}
    Capacity = 2
    PosRange = 8
    PreShared = FALSE
    Threads = {t1, t2, t3}
    Objects = {b1, b2}
    Wraps = {w1, w2}
    Keys = {k1, k2}
    Nil = Nil
    Guarded = TRUE
    MemberKeys = {"a", "b", "c"}
    JsKinds = {"int", "uint", "string", "bool"}
    Documents <- MCDocuments
    MaxMembers = 3
    Field <- MCField
    AnyType = "Any"
    NoType = "no type"
    NoName = "none"
    Garbage = Garbage
    AtNames = {"@type", "@id"}
    WithNul = "ab0c"
    BeforeNul = "ab"
    Message <- MCMessage
    Height <- MCHeight
    JsonValue <- MCJsonValue
    Samples <- MCSamples
    Docs <- MCDocs
\* The conversions return, and threads that hold no lock may wait for ever.
CHECK_DEADLOCK FALSE
INVARIANTS NoAlias LossBound CountExact FoundAlive RoundTrip TypedSafe
PROPERTIES ImplementsPool ImplementsMap
