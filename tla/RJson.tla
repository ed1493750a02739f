-------------------------------- MODULE RJson --------------------------------
(***************************************************************************)
(* The members of a JSON object behind z::json::RJson, zpp/json_rapid.hpp. *)
(* rapidjson keeps them in an array, in which FindMember takes the first   *)
(* of a name, AddMember appends, EraseMember moves up what follows and     *)
(* RemoveMember moves the last member into the gap.                        *)
(*                                                                         *)
(* A number is the range it lies in: its kinds are the tests IsInt ...     *)
(* IsUint64 that it passes, whatever function set it; an array is replaced *)
(* and erased like an object.  The calls with a key are modelled; those    *)
(* without concern one value.                                              *)
(***************************************************************************)
EXTENDS Integers, Sequences, SequencesExt

CONSTANTS
    MemberKeys,     \* the keys
    JsKinds,        \* the kinds of Set and Get that are called
    Documents,      \* the member arrays of objects that Load reads
    MaxMembers      \* bound on the members

RangeOf == [int |-> {"neg", "pos"}, uint |-> {"pos", "over31"},
            int64 |-> {"neg64", "neg", "pos", "over31", "pos64"},
            uint64 |-> {"pos", "over31", "pos64", "over63"}]
ValuesOf == [string |-> {"text"}, double |-> {"real"}, bool |-> {"truth"}]
Integer == DOMAIN RangeOf
Containers == {"object"}

Is(kind, x) == x \in IF kind \in Integer THEN RangeOf[kind] ELSE ValuesOf[kind]
KindsOf(x) == {kind \in JsKinds : Is(kind, x)}
JsValues == Containers \cup
    UNION {IF kind \in Integer THEN RangeOf[kind] ELSE ValuesOf[kind] : kind \in JsKinds}

ASSUME RJsonAssumption ==
    /\ "string" \in JsKinds
    /\ Documents \subseteq Seq([name : MemberKeys, val : JsValues])

VARIABLES
    isObject,   \* the value is an object; FindMember asserts that it is
    members,    \* its array of members, [name, val]
    jsCall      \* the latest call, its arguments and its result

rjsonVars == <<isObject, members, jsCall>>

\* The place of the first member called k, 0 for MemberEnd().
FindMember(k) == SelectInSeq(members, LAMBDA mb : mb.name = k)
JsReturns(op, k, kind, x, r) ==
    jsCall' = [op |-> op, key |-> k, kind |-> kind, val |-> x, ret |-> r]
Append1(k, x) == /\ Len(members) < MaxMembers
                 /\ members' = Append(members, [name |-> k, val |-> x])

RJsonInit == isObject = FALSE /\ members = <<>> /\ jsCall = [op |-> "none"]

-----------------------------------------------------------------------------
(* Mutants *)

MutAddMember(k, x) ==           \* an object is not erased before it is added again
    /\ isObject
    /\ IF FindMember(k) = 0 \/ members[FindMember(k)].val \in Containers
       THEN Append1(k, x) /\ JsReturns("Add", k, "any", x, "ok")
       ELSE UNCHANGED members /\ JsReturns("Add", k, "any", x, "cast")
    /\ UNCHANGED isObject

-----------------------------------------------------------------------------
\* A Set function: no member is added twice, none changes its kind.
Set(kind, k, x) ==
    /\ isObject
    /\ LET at == FindMember(k) IN
       IF at = 0 THEN Append1(k, x) /\ JsReturns("Set", k, kind, x, "ok")
       ELSE IF Is(kind, members[at].val)
       THEN members' = [members EXCEPT ![at].val = x] /\ JsReturns("Set", k, kind, x, "ok")
       ELSE UNCHANGED members /\ JsReturns("Set", k, kind, x, "cast")
    /\ UNCHANGED isObject

\* A Get function: the argument stays as it was if there is none of the kind.
Get(kind, k) ==
    /\ isObject
    /\ LET at == FindMember(k) IN
       IF at # 0 /\ Is(kind, members[at].val)
       THEN JsReturns("Get", k, kind, members[at].val, "ok")
       ELSE JsReturns("Get", k, kind, "object", "notexist")
    /\ UNCHANGED <<isObject, members>>

\* SetInt, SetUint, SetInt64 and SetUint64 differ in the test only.
SetInteger(kind, k, x) == kind \in Integer /\ Is(kind, x) /\ Set(kind, k, x)
GetInteger(kind, k) == kind \in Integer /\ Get(kind, k)
SetString(k, x) == Is("string", x) /\ Set("string", k, x)
GetString(k) == Get("string", k)
SetOther(kind, k, x) == kind \in {"double", "bool"} /\ Is(kind, x) /\ Set(kind, k, x)
GetOther(kind, k) == kind \in {"double", "bool"} /\ Get(kind, k)

\* The value of another RJson, which is null afterwards.
AddMember(k, x) ==
    /\ isObject
    /\ LET at == FindMember(k) IN
       IF at = 0 THEN Append1(k, x) /\ JsReturns("Add", k, "any", x, "ok")
       ELSE IF members[at].val \in Containers
       THEN /\ members' = Append(RemoveAt(members, at), [name |-> k, val |-> x])
            /\ JsReturns("Add", k, "any", x, "ok")
       ELSE UNCHANGED members /\ JsReturns("Add", k, "any", x, "cast")
    /\ UNCHANGED isObject

DelMember(k) ==                 \* RemoveMember
    /\ isObject
    /\ LET at == FindMember(k) IN
       IF at = 0 THEN UNCHANGED members /\ JsReturns("Del", k, "any", "object", "notexist")
       ELSE /\ members' = Front([members EXCEPT ![at] = Last(members)])
            /\ JsReturns("Del", k, "any", "object", "ok")
    /\ UNCHANGED isObject

\* SetObject and DelAllMembers.
SetObject ==
    /\ isObject' = TRUE /\ members' = <<>>
    /\ JsReturns("Load", "none", "any", "object", "ok")

\* LoadString and LoadFile: what was there is gone even if what is parsed is
\* no object, but stays if there is no file.
Load ==
    /\ \/ isObject' = TRUE /\ members' \in Documents /\ JsReturns("Load", "none", "any", "object", "ok")
       \/ isObject' = FALSE /\ members' = <<>> /\ JsReturns("Load", "none", "any", "object", "invalid")
       \/ UNCHANGED <<isObject, members>> /\ JsReturns("Load", "none", "any", "object", "invalid")

-----------------------------------------------------------------------------
RJsonNext ==
    \/ SetObject \/ Load
    \/ \E k \in MemberKeys :
          \/ DelMember(k)
          \/ GetString(k)
          \/ \E kind \in JsKinds : GetInteger(kind, k) \/ GetOther(kind, k)
          \/ \E x \in JsValues :
                \/ AddMember(k, x) \/ SetString(k, x)
                \/ \E kind \in JsKinds : SetInteger(kind, k, x) \/ SetOther(kind, k, x)

-----------------------------------------------------------------------------
(* Properties *)

\* The array is a map: with no name twice, each call reads or changes the
\* member of its key alone, wherever erasing and removing have moved it.
MembersMap == INSTANCE MemberMap WITH
    Keys <- MemberKeys, Values <- JsValues, Kinds <- KindsOf, Replaceable <- Containers,
    call <- jsCall,
    map <- [k \in {members[j].name : j \in DOMAIN members} |-> members[FindMember(k)].val]
ImplementsMap == MembersMap!Spec
=============================================================================
