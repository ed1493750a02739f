----------------------------- MODULE MCContainers -----------------------------
(* What keeps objects and values for others, in one run: the pool ring of  *)
(* MsgPoolRing, the counted objects of ObjRef, the members of RJson and    *)
(* the conversions of JsonPb.  turn says which of them moves; the others   *)
(* stay where they are.                                                    *)
EXTENDS MsgPoolRing, ObjRef, RJson, JsonPb

VARIABLE turn

MCDocuments == {<<>>, <<[name |-> "a", val |-> "pos"], [name |-> "b", val |-> "text"],
                        [name |-> "c", val |-> "object"]>>}

-----------------------------------------------------------------------------
(* Two message types, with a field of every kind that the conversions      *)
(* treat on its own.                                                       *)

One(n, c) == [name |-> n, cpp |-> c, repeated |-> FALSE, type |-> c]
Sub(n, T) == [name |-> n, cpp |-> "message", repeated |-> FALSE, type |-> T]
Repeated(fd) == [fd EXCEPT !.repeated = TRUE]

MCField ==
    [Leaf |-> <<One("n", "int32"), One("s", "string"), Repeated(One("us", "uint64"))>>,
     Node |-> <<Sub("leaf", "Leaf"), Repeated(Sub("leaves", "Leaf")), Sub("any", "Any"),
                One("e", "enum"), One("y", "bytes"), One("d", "double"), One("b", "bool")>>]

MessageWith(T, n, x) == With(EmptyMsg(T), FieldOf(T, n), x)
AnyOf(x) == [type |-> "Any", of |-> x]
LeafUs == [type |-> "Leaf", f |-> [n \in {"us"} |-> <<"over63", "pos">>]]
NodeOf(xs) == [type |-> "Node", f |-> [n \in {"leaves", "b"} |-> IF n = "b" THEN TRUE ELSE xs]]

MCSamples ==
    LET leaves == {EmptyMsg("Leaf"), LeafUs, MessageWith("Leaf", "n", "neg"),
                   MessageWith("Leaf", "s", "ab"), MessageWith("Leaf", "s", WithNul)} IN
    leaves \cup {AnyOf(LeafUs), MessageWith("Node", "e", "neg"),
                 MessageWith("Node", "y", "ab"), MessageWith("Node", "d", "real")}
    \cup {MessageWith("Node", "leaf", x) : x \in leaves}
    \cup {NodeOf(<<x, y>>) : x, y \in leaves}
    \cup {MessageWith("Node", "any", AnyOf(x)) :
             x \in leaves \cup {NoMessage, MessageWith("Node", "leaf", LeafUs)}}

\* The samples with the messages in them, and how deeply those nest.
PartsTo[k \in 0..4] ==
    IF k = 0 THEN MCSamples
    ELSE LET S == PartsTo[k - 1] IN S \cup UNION {SubMessages(m) : m \in S}
AllMessages == PartsTo[4]
Heights[m \in AllMessages] == Max({-1} \cup {Heights[s] : s \in SubMessages(m)}) + 1
MCMessage == AllMessages
MCHeight == Heights

Text(x) == [t |-> "string", v |-> x]
Number(x) == [t |-> "number", v |-> x]
Array(xs) == [t |-> "array", v |-> xs]
Typed(T) == Member("@type", Text(T))

\* Objects with one member, and well typed ones with two: of every name and
\* value, or of a few.  "zz" is no field, "Tree" no type.
MCDocs ==
    LET scalars == {Text("ab"), Text("Leaf"), Text("Tree"), Number("neg"), Number("over63"),
                    [t |-> "true", v |-> 0], [t |-> "null", v |-> 0]}
        leaves == {Object(<<>>), Object(<<Typed("Leaf")>>),
                   Object(<<Typed("Leaf"), Member("n", Number("real"))>>),
                   Object(<<Member("n", Number("pos")), Typed("Leaf")>>)}
        vals == scalars \cup leaves
                \cup {Array(<<x, y>>) : x, y \in leaves \cup {Number("pos"), Text("ab")}}
        fields == {Member(n, x) : n \in {"n", "us", "leaf", "any", "b", "zz", "@type", "@id"}, x \in vals}
        few == {Member("leaf", Object(<<Typed("Leaf"), Member("n", Number("real"))>>)),
                Member("n", Text("ab")), Member("us", Array(<<Number("pos"), Number("neg")>>))} IN
    {Object(<<x>>) : x \in fields}
    \cup {Object(<<Typed(T), x, y>>) : T \in {"Leaf", "Node"}, x \in fields, y \in few}

\* The documents with the values in them.
ValuesTo[k \in 0..5] ==
    IF k = 0 THEN MCDocs \cup {Pb2json[m] : m \in AllMessages}
    ELSE LET S == ValuesTo[k - 1] IN S \cup UNION {Components(x) : x \in S}
AllValues == ValuesTo[5]
MCJsonValue == AllValues

-----------------------------------------------------------------------------
PbAtRest == /\ source = NoMessage /\ doc = Object(<<>>) /\ walk = <<>> /\ fails = FALSE
            /\ pbMsgs = <<>> /\ leaked = 0 /\ crashed = FALSE /\ pbRet = "none"

MCInit ==
    /\ turn \in {"pool", "objects", "members", "convert"}
    /\ IF turn = "convert" THEN PbInit ELSE PbAtRest
    /\ Init /\ ObjRefInit /\ RJsonInit

MCNext ==
    /\ UNCHANGED turn
    /\ \/ turn = "pool" /\ Next /\ UNCHANGED <<objRefVars, rjsonVars, pbVars>>
       \/ turn = "objects" /\ ObjRefNext /\ UNCHANGED <<vars, rjsonVars, pbVars>>
       \/ turn = "members" /\ RJsonNext /\ UNCHANGED <<vars, objRefVars, pbVars>>
       \/ turn = "convert" /\ PbNext /\ UNCHANGED <<vars, objRefVars, rjsonVars>>

MCSpec == MCInit /\ [][MCNext]_<<vars, objRefVars, rjsonVars, pbVars, turn>>
=============================================================================
