------------------------------- MODULE JsonPb -------------------------------
(***************************************************************************)
(* Protobuf messages to JSON and back, zpp/src/pb2json.cpp, with the       *)
(* traversal RJson::ForEach of zpp/json_rapid.hpp that drives the way back.*)
(*                                                                         *)
(* Pb2json writes "@type" first, then the fields that are set.  Json2pb    *)
(* runs Json2field as callback of ForEach over the JSON value: walk has    *)
(* the containers ForEach is in, the stack pbMsgs an entry for each, and   *)
(* an object that ends is merged into the message below it.  Callbacks at  *)
(* the beginning and end of a container do not ask what went wrong before; *)
(* the first scalar that fails ends the loops.                             *)
(*                                                                         *)
(* A message is [type, f], f a function from the fields that are set; an   *)
(* Any is [type, of].  JSON values are [t, v]; a number is the range it    *)
(* lies in, which the tests IsInt ... IsDouble of rapidjson tell apart.    *)
(***************************************************************************)
EXTENDS Integers, Sequences, FiniteSets, SequencesExt

CONSTANTS
    Field,      \* Field[T]: the fields of type T in order, each a record
                \* [name, cpp, repeated, type]
    AnyType, NoType, NoName, Garbage,
    AtNames,    \* the names of members that begin with '@'
    WithNul, BeforeNul,     \* a string with a NUL, and its part before it
    Message,    \* messages, with those they contain
    Height,     \* how deeply the messages of Message nest
    JsonValue,  \* JSON values, with those they contain
    Samples,    \* messages to convert to JSON and back
    Docs        \* JSON objects from elsewhere, no arrays directly in arrays

VARIABLES
    source,     \* the message converted to JSON, NoMessage for a doc of Docs
    doc,        \* the JSON value
    walk,       \* the containers ForEach is in, at the member or element at
    fails,      \* a scalar failed: the loops break
    pbMsgs,     \* the stack: flag 1 for an array, msg, key
    leaked,     \* messages no pointer leads to any more
    crashed,    \* MergeMessage or SetMessage used a NULL or unfit message
    pbRet       \* the result, "none" before the end

pbVars == <<source, doc, walk, fails, pbMsgs, leaked, crashed, pbRet>>

TypeName == "@type"
NoMessage == [type |-> NoType]      \* NULL
EmptyMsg(T) == [type |-> T, f |-> [n \in {} |-> n]]
FieldNames(T) == {Field[T][j].name : j \in DOMAIN Field[T]}
FieldOf(T, n) == CHOOSE fd \in {Field[T][j] : j \in DOMAIN Field[T]} : fd.name = n

\* The ranges of numbers each test and each integer field type admits.
Admits == [int32  |-> {"neg", "pos"},                   \* IsInt
           uint32 |-> {"pos", "over31"},                \* IsUint
           int64  |-> {"neg", "pos", "over31", "neg64", "pos64"},
           uint64 |-> {"pos", "over31", "pos64", "over63"},
           double |-> {"real"}, float |-> {"real"}]     \* IsDouble

-----------------------------------------------------------------------------
(* What the data is, in the code by its types *)

IsSequence(s) == s \in Seq({s[j] : j \in DOMAIN s})

\* The types besides the numbers.
OtherTypes == {"string", "bytes", "bool", "enum", "message"}

\* A field has one name, which does not begin with '@', and one type.
FieldAssumption ==
    /\ TypeName \in AtNames /\ NoName \notin AtNames
    /\ NoType \notin DOMAIN Field /\ AnyType \notin DOMAIN Field /\ AnyType # NoType
    /\ \A T \in DOMAIN Field :
          /\ IsSequence(Field[T])
          /\ \A j \in DOMAIN Field[T] :
                /\ Field[T][j].name \notin AtNames \cup {NoName}
                /\ Field[T][j].cpp \in DOMAIN Admits \cup OtherTypes
                /\ Field[T][j].repeated \in BOOLEAN
                /\ \A k \in DOMAIN Field[T] : Field[T][j].name = Field[T][k].name => j = k

\* The values of a field: one, or the elements of a repeated one.
Elements(fd, x) == IF fd.repeated THEN {x[j] : j \in DOMAIN x} ELSE {x}
SubMessages(m) ==
    IF m.type = AnyType THEN {m.of} \ {NoMessage}
    ELSE UNION {Elements(FieldOf(m.type, n), m.f[n]) :
                   n \in {k \in DOMAIN m.f : FieldOf(m.type, k).cpp = "message"}}

IsValue(fd, x) ==
    /\ fd.cpp = "message" => x \in Message /\ x.type = fd.type
    /\ fd.cpp = "bool" => x \in BOOLEAN
    /\ fd.cpp \in DOMAIN Admits => x \in Admits[fd.cpp]

IsMessage(m) ==
    IF m.type = AnyType
    THEN m = [type |-> AnyType, of |-> m.of] /\ m.of \in Message \cup {NoMessage}
    ELSE /\ m.type \in DOMAIN Field
         /\ m = [type |-> m.type, f |-> [n \in DOMAIN m.f |-> m.f[n]]]
         /\ DOMAIN m.f \subseteq FieldNames(m.type)
         /\ \A n \in DOMAIN m.f :
               LET fd == FieldOf(m.type, n) IN
               /\ \A x \in Elements(fd, m.f[n]) : IsValue(fd, x)
               /\ fd.repeated => IsSequence(m.f[n]) /\ m.f[n] # <<>>

MessageAssumption ==
    /\ Samples \subseteq Message /\ Height \in [Message -> Nat]
    /\ \A m \in Message :
          /\ IsMessage(m)
          /\ \A s \in SubMessages(m) : Height[s] < Height[m]

ASSUME DataAssumption == FieldAssumption /\ MessageAssumption

-----------------------------------------------------------------------------
(* Message to JSON *)

Object(ms) == [t |-> "object", v |-> ms]
Member(n, x) == [name |-> n, val |-> x]

\* Field2json of one value, json giving that of the messages below: an enum by
\* its number as an unsigned; a C string, which ends at its first NUL.
Field2json(fd, x, json) ==
    CASE fd.cpp = "string"  -> [t |-> "string", v |-> IF x = WithNul THEN BeforeNul ELSE x]
      [] fd.cpp = "bool"    -> [t |-> IF x THEN "true" ELSE "false", v |-> 0]
      [] fd.cpp = "enum"    -> [t |-> "number", v |-> IF x = "neg" THEN "over31" ELSE x]
      [] fd.cpp = "message" -> json[x]
      [] OTHER              -> [t |-> "number", v |-> x]

\* There is no value for bytes.
FieldValue(fd, x, json) ==
    IF fd.repeated
    THEN [t |-> "array", v |-> IF fd.cpp = "bytes" THEN <<>>
                               ELSE [j \in DOMAIN x |-> Field2json(fd, x[j], json)]]
    ELSE Field2json(fd, x, json)
Writes(m, fd) == fd.name \in DOMAIN m.f /\ (fd.repeated \/ fd.cpp # "bytes")

\* The loop over the fields: the first member, and what each field adds.
Loop(first, adds) ==
    LET upto[k \in 0..Len(adds)] == IF k = 0 THEN <<first>> ELSE upto[k - 1] \o adds[k] IN
    upto[Len(adds)]

Added(m, fd, json) ==
    IF Writes(m, fd) THEN <<Member(fd.name, FieldValue(fd, m.f[fd.name], json))>> ELSE <<>>
Members(m, json) ==
    Loop(Member(TypeName, [t |-> "string", v |-> m.type]),
         [k \in 1..Len(Field[m.type]) |-> Added(m, Field[m.type][k], json)])

\* An Any is its content; one without a known content leaves the object as
\* the caller made it, empty, and the caller does not look at the result.
Pb2json[m \in Message] ==
    IF m.type # AnyType THEN Object(Members(m, Pb2json))
    ELSE IF m.of = NoMessage THEN Object(<<>>) ELSE Pb2json[m.of]

-----------------------------------------------------------------------------
(* JSON values *)

Components(x) ==
    CASE x.t = "object" -> {x.v[j].val : j \in DOMAIN x.v}
      [] x.t = "array"  -> {x.v[j] : j \in DOMAIN x.v}
      [] OTHER          -> {}

ASSUME JsonAssumption ==
    /\ Docs \cup {Pb2json[m] : m \in Message} \subseteq JsonValue
    /\ \A x \in Docs : x.t = "object"
    /\ \A x \in JsonValue :
          /\ Components(x) \subseteq JsonValue
          /\ x.t \in {"object", "array"} => IsSequence(x.v)
          /\ x.t = "object" => \A j \in DOMAIN x.v : x.v[j].name # NoName
          /\ x.t = "string" => x.v # AnyType
          /\ x.t = "array" => \A z \in Components(x) : z.t # "array"

-----------------------------------------------------------------------------
(* JSON to message *)

PbInit ==
    /\ \/ \E m \in Samples : source = m /\ doc = Pb2json[m]
       \/ source = NoMessage /\ doc \in Docs
    /\ walk = <<>>
    /\ fails = FALSE
    /\ pbMsgs = <<>>
    /\ leaked = 0
    /\ crashed = FALSE
    /\ pbRet = "none"

Running == pbRet = "none" /\ ~crashed
Inner == Last(walk)
Item(c) == IF c.x.t = "object" THEN c.x.v[c.at] ELSE Member(NoName, c.x.v[c.at])
\* What ForEach comes to next: the document, then what is in the container.
Cur == IF walk = <<>> THEN Member(NoName, doc) ELSE Item(Inner)
Comes(kinds) ==
    /\ Running
    /\ IF walk = <<>> THEN pbMsgs = <<>> ELSE ~fails /\ Inner.at <= Len(Inner.x.v)
    /\ Cur.val.t \in kinds
\* The loop over the container is over, or has broken.
Ends(kind) ==
    /\ Running /\ walk # <<>> /\ Inner.x.t = kind
    /\ fails \/ Inner.at > Len(Inner.x.v)

Advance(w) == IF w = <<>> THEN w ELSE [w EXCEPT ![Len(w)].at = @ + 1]
Enter == walk' = Append(walk, [x |-> Cur.val, at |-> 1])
Leave == walk' = Advance(Front(walk))

Top == Last(pbMsgs)
Below == pbMsgs[Len(pbMsgs) - 1]
Same == UNCHANGED <<source, doc, pbRet>>
Crash == crashed' = TRUE /\ UNCHANGED <<source, doc, walk, fails, pbMsgs, leaked, pbRet>>

\* What SetMessage works on: a member of the open object, or, for an element
\* without a name, the field of the object that the open array belongs to.
Key == IF Cur.name = NoName THEN Top.key ELSE Cur.name
Target == IF Cur.name = NoName THEN Below.msg ELSE Top.msg
TargetAt == IF Cur.name = NoName THEN Len(pbMsgs) - 1 ELSE Len(pbMsgs)

\* The value a field takes: SetX, or AddX for a repeated one.
With(m, fd, x) ==
    LET old == IF fd.name \in DOMAIN m.f THEN m.f[fd.name] ELSE <<>>
        new == IF fd.repeated THEN Append(old, x) ELSE x IN
    [m EXCEPT !.f = [n \in DOMAIN m.f \cup {fd.name} |-> IF n = fd.name THEN new ELSE m.f[n]]]

\* CreateMessage succeeds: a string under a name of which only the first
\* character is looked at, '@', and the string names a type.
NamesType == Comes({"string"}) /\ Key \in AtNames /\ Cur.val.v \in DOMAIN Field
Lost(m) == IF m \in {NoMessage, Garbage} THEN 0 ELSE 1

-----------------------------------------------------------------------------
(* Mutants *)

MutCreateMessage ==             \* an element of an array does not take its key
    /\ NamesType
    /\ pbMsgs' = [pbMsgs EXCEPT ![Len(pbMsgs)].msg = EmptyMsg(Cur.val.v)]
    /\ leaked' = leaked + Lost(Top.msg)
    /\ walk' = Advance(walk) /\ Same /\ UNCHANGED <<fails, crashed>>

MutArrayEnd ==                  \* does not pop
    /\ Ends("array")
    /\ Leave /\ Same /\ UNCHANGED <<pbMsgs, fails, leaked, crashed>>

-----------------------------------------------------------------------------
\* CreateMessage in the entry on top, whose key, for an element of an array,
\* is the array's.  The message that was open there is replaced, and lost.
CreateMessage ==
    /\ NamesType
    /\ pbMsgs' = [pbMsgs EXCEPT ![Len(pbMsgs)] =
                    [flag |-> 0, msg |-> EmptyMsg(Cur.val.v),
                     key |-> IF @.key # NoName THEN @.key
                             ELSE IF Len(pbMsgs) >= 2 THEN Below.key ELSE Cur.val.v]]
    /\ leaked' = leaked + Lost(Top.msg)
    /\ walk' = Advance(walk) /\ Same /\ UNCHANGED <<fails, crashed>>

\* What SetMessage does with a scalar: "ok", silently "ignored" (a number that
\* does not fit, a null), or "fails".
Takers(t) == CASE t = "string" -> {"string", "bytes"}
               [] t = "number" -> DOMAIN Admits
               [] OTHER        -> {"bool"}
Outcome ==
    LET fd == FieldOf(Target.type, Key) IN
    IF Cur.val.t = "null" THEN "ignored"
    ELSE IF \/ Key \in AtNames /\ Cur.val.t = "string"            \* unknown type
            \/ Target = NoMessage
            \/ Key \notin FieldNames(Target.type)
            \/ fd.cpp \notin Takers(Cur.val.t)
    THEN "fails"
    ELSE IF Cur.val.t = "number" => Cur.val.v \in Admits[fd.cpp] THEN "ok" ELSE "ignored"

\* The NULL message is not tested for under a name with '@', whatever its value.
NullUsed == Key \in AtNames /\ Target = NoMessage /\ Cur.val.t \in {"number", "true", "false"}

Scalar == Comes({"string", "number", "true", "false", "null"})

SetMessageCrash == Scalar /\ NullUsed /\ Crash

SetMessage ==
    /\ Scalar /\ ~NullUsed /\ ~NamesType
    /\ LET x == IF Cur.val.t \in {"true", "false"} THEN Cur.val.t = "true" ELSE Cur.val.v IN
       pbMsgs' = IF Outcome = "ok"
                 THEN [pbMsgs EXCEPT ![TargetAt].msg = With(@, FieldOf(@.type, Key), x)]
                 ELSE pbMsgs
    /\ fails' = (Outcome = "fails")
    /\ walk' = Advance(walk) /\ Same /\ UNCHANGED <<leaked, crashed>>

ArrayBegin ==
    /\ Comes({"array"})
    /\ pbMsgs' = Append(pbMsgs, [flag |-> 1, msg |-> Garbage, key |-> Cur.name])
    /\ Enter /\ Same /\ UNCHANGED <<fails, leaked, crashed>>

ArrayEnd ==
    /\ Ends("array")
    /\ pbMsgs' = Front(pbMsgs)
    /\ leaked' = leaked + Lost(Top.msg)
    /\ Leave /\ Same /\ UNCHANGED <<fails, crashed>>

ObjectBegin ==
    /\ Comes({"object"})
    /\ pbMsgs' = Append(pbMsgs, [flag |-> 0, msg |-> NoMessage, key |-> Cur.name])
    /\ Enter /\ Same /\ UNCHANGED <<fails, leaked, crashed>>

\* The root object stays on the stack.
ObjectEndRoot ==
    /\ Ends("object") /\ Len(pbMsgs) = 1
    /\ Leave /\ Same /\ UNCHANGED <<fails, pbMsgs, leaked, crashed>>

\* The message an object that ends belongs to: below it, or below its array.
ParentAt == IF Below.flag = 0 THEN Len(pbMsgs) - 1 ELSE Len(pbMsgs) - 2
Parent == pbMsgs[ParentAt].msg
\* MergeMessage reads both messages; it fails for good on a field that is not
\* of this message's type.
MergeCrashes ==
    IF Parent = NoMessage \/ Top.msg = NoMessage THEN TRUE
    ELSE /\ Top.key \in FieldNames(Parent.type)
         /\ LET fd == FieldOf(Parent.type, Top.key) IN
            fd.cpp # "message" \/ fd.type \notin {AnyType, Top.msg.type}

\* MergeMessage: the field takes the message, packed if it is an Any; an
\* unknown field drops it.
ObjectEnd ==
    /\ Ends("object") /\ Len(pbMsgs) > 1 /\ ~MergeCrashes
    /\ LET fd == FieldOf(Parent.type, Top.key)
           x == IF fd.type = AnyType THEN [type |-> AnyType, of |-> Top.msg] ELSE Top.msg IN
       pbMsgs' = IF Top.key \in FieldNames(Parent.type)
                 THEN [Front(pbMsgs) EXCEPT ![ParentAt].msg = With(@, fd, x)]
                 ELSE Front(pbMsgs)
    /\ Leave /\ Same /\ UNCHANGED <<fails, leaked, crashed>>

ObjectEndCrash == Ends("object") /\ Len(pbMsgs) > 1 /\ MergeCrashes /\ Crash

\* Json2pb(Message**): with an error the root message is left behind.
Json2pb ==
    /\ Running /\ walk = <<>> /\ pbMsgs # <<>>
    /\ IF ~fails /\ Len(pbMsgs) = 1
       THEN pbRet' = "ZOK" /\ UNCHANGED leaked
       ELSE /\ pbRet' = "error"
            /\ leaked' = leaked + Cardinality({j \in DOMAIN pbMsgs : pbMsgs[j].msg # NoMessage})
    /\ UNCHANGED <<source, doc, walk, fails, pbMsgs, crashed>>

-----------------------------------------------------------------------------
PbNext == \/ CreateMessage \/ SetMessage \/ SetMessageCrash
          \/ ArrayBegin \/ ArrayEnd \/ ObjectBegin
          \/ ObjectEndRoot \/ ObjectEnd \/ ObjectEndCrash \/ Json2pb

PbSpec == PbInit /\ [][PbNext]_pbVars

-----------------------------------------------------------------------------
(* Properties *)

\* What the pair of conversions keeps: no enum and no bytes, strings without
\* a NUL, and an Any only as a field and with a content that is not one.
Convertible[m \in Message] ==
    /\ IF m.type = AnyType THEN m.of # NoMessage /\ m.of.type # AnyType
       ELSE \A n \in DOMAIN m.f :
               LET fd == FieldOf(m.type, n) IN
               /\ fd.cpp \notin {"enum", "bytes"}
               /\ fd.cpp = "string" => WithNul \notin Elements(fd, m.f[n])
    /\ \A s \in SubMessages(m) : Convertible[s]

Kept(m) == m # NoMessage /\ m.type # AnyType /\ Convertible[m]

\* Json2pb of what Pb2json wrote is the message again, with nothing lost.
RoundTrip == Kept(source) =>
    /\ ~crashed
    /\ pbRet # "none" => pbRet = "ZOK" /\ pbMsgs[1].msg = source /\ leaked = 0

\* A JSON object as Json2pb expects it: it begins with a '@' member that names
\* a type, no other '@' member does, and the objects in a field have its type.
RootType(x) == x.v[1].val.v
\* A member's value, and what it has elements of: what SetMessage is called with.
Values(y) == {y} \cup (IF y.t = "array" THEN Components(y) ELSE {})
NamesNone(y) == \A z \in Values(y) : z.t = "string" => z.v \notin DOMAIN Field
TypedObject(x) ==
    /\ x.v # <<>> /\ x.v[1].name \in AtNames
    /\ x.v[1].val.t = "string" /\ RootType(x) \in DOMAIN Field
    /\ \A j \in 2..Len(x.v) :
          LET fd == FieldOf(RootType(x), x.v[j].name)
              y == x.v[j].val IN
          /\ x.v[j].name \in AtNames => NamesNone(y)
          /\ x.v[j].name \in FieldNames(RootType(x)) =>
                \A z \in Values(y) : z.t = "object" => fd.cpp = "message" /\ fd.type \in {AnyType, RootType(z)}

\* And so are all in it.
WellTyped[x \in JsonValue] ==
    /\ \A z \in Components(x) : WellTyped[z]
    /\ x.t = "object" => TypedObject(x)

\* Whatever else is wrong in such a document, numbers of another kind, fields
\* of another type or unknown ones, the conversion does not crash, returns a
\* message of the type named, and leaves at most the root behind.
TypedSafe == WellTyped[doc] =>
    /\ ~crashed
    /\ pbRet = "ZOK" => leaked = 0 /\ pbMsgs[1].msg.type = RootType(doc)
    /\ pbRet = "error" => leaked = 1
=============================================================================
