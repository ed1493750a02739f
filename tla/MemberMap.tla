------------------------------ MODULE MemberMap ------------------------------
(***************************************************************************)
(* What RJson promises of a JSON object: a function from keys to values    *)
(* that each call reads or changes at its own key only.  Specification     *)
(* that RJson implements.                                                  *)
(*                                                                         *)
(* call is the latest call and what it returned, kind "any" for AddMember. *)
(***************************************************************************)
CONSTANTS Keys, Values, Kinds(_), Replaceable

VARIABLES map, call

vars == <<map, call>>

Without(k) == [n \in DOMAIN map \ {k} |-> map[n]]
Updated(k, x) == [n \in DOMAIN map \cup {k} |-> IF n = k THEN x ELSE map[n]]

Init == map = <<>> /\ call = [op |-> "none"]

\* A value is replaced by one of the kind it is read as.
Set == /\ call'.op = "Set"
       /\ LET k == call'.key  x == call'.val IN
          IF k \notin DOMAIN map \/ call'.kind \in Kinds(map[k])
          THEN call'.ret = "ok" /\ map' = Updated(k, x)
          ELSE call'.ret = "cast" /\ UNCHANGED map

Get == /\ call'.op = "Get"
       /\ LET k == call'.key IN
          IF k \in DOMAIN map /\ call'.kind \in Kinds(map[k])
          THEN call'.ret = "ok" /\ call'.val = map[k]
          ELSE call'.ret = "notexist"
       /\ UNCHANGED map

Add == /\ call'.op = "Add"
       /\ LET k == call'.key IN
          IF k \notin DOMAIN map \/ map[k] \in Replaceable
          THEN call'.ret = "ok" /\ map' = Updated(k, call'.val)
          ELSE call'.ret = "cast" /\ UNCHANGED map

Del == /\ call'.op = "Del"
       /\ call'.ret = IF call'.key \in DOMAIN map THEN "ok" ELSE "notexist"
       /\ map' = Without(call'.key)

Load == call'.op = "Load" /\ map' \in UNION {[S -> Values] : S \in SUBSET Keys}

Next == Set \/ Get \/ Add \/ Del \/ Load

Spec == Init /\ [][Next]_vars
=============================================================================
