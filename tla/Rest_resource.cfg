SPECIFICATION MCSpec
CONSTANTS
    Empty = Empty
    MaxLen = 5
    Frames = {1, 2, 3}
    Lists <- MCLists
    Chars = {"a", "b"}
    Slash = "/"
    Uris <- MCUris
    Paths = {p1}
    Stacks = {s1}
    Messages = {m1, m2}
    Refs = {r1, r2, r3}
    None = None
    ListMax = 2
    Dbs = {d1, d2}
    Stmts = {q1, q2}
    Conns = {c1, c2, c3}
    Handles = {h1, h2, h3}
    NoHandle = NoHandle
    Careful = TRUE
    Width = 8
SYMMETRY Symmetry
\* The loops return.
CHECK_DEADLOCK FALSE
INVARIANT ZeroIsEqual
