---------------------------- MODULE RestResource ----------------------------
(***************************************************************************)
(* z::ev2::Request::IsResource of zpp/event2/rest.h, by which OnApiGeneral *)
(* finds the handler of a request: compares the uri with a path, character *)
(* by character.  A character is "/" or a member of Chars.                 *)
(***************************************************************************)
EXTENDS Integers, Sequences

CONSTANTS
    Chars,      \* the characters other than the separator
    Uris,       \* the strings compared
    Slash       \* '/'

ASSUME RRAssumption == /\ Slash \notin Chars
                       /\ Uris \subseteq Seq(Chars \cup {Slash})

VARIABLES uri, path,    \* the member Request::uri, the argument
          idx,            \* the loop counter (from 0)
          stage,           \* "loop" or "done"
          ret           \* the result

resVars == <<uri, path, idx, stage, ret>>

ResInit == /\ uri \in Uris /\ path \in Uris
        /\ idx = 0
        /\ stage = "loop"
        /\ ret = -1

-----------------------------------------------------------------------------
(* Mutants *)

MutMatched ==                   \* does not look at the next character
    /\ stage = "loop" /\ Len(uri) >= Len(path) /\ idx >= Len(path)
    /\ stage' = "done"
    /\ ret' = IF Len(uri) = Len(path) THEN 0 ELSE 1
    /\ UNCHANGED <<uri, path, idx>>

-----------------------------------------------------------------------------
TooShort ==
    /\ stage = "loop" /\ Len(uri) < Len(path)
    /\ ret' = -1 /\ stage' = "done"
    /\ UNCHANGED <<uri, path, idx>>

\* The body of either loop.
Compare ==
    /\ stage = "loop" /\ Len(uri) >= Len(path) /\ idx < Len(path)
    /\ IF uri[idx + 1] # path[idx + 1]
       THEN ret' = -1 /\ stage' = "done" /\ idx' = idx
       ELSE idx' = idx + 1 /\ UNCHANGED <<stage, ret>>
    /\ UNCHANGED <<uri, path>>

\* After the loop.
Matched ==
    /\ stage = "loop" /\ Len(uri) >= Len(path) /\ idx >= Len(path)
    /\ stage' = "done"
    /\ ret' = IF Len(uri) > Len(path) /\ uri[Len(path) + 1] = Slash THEN 1 ELSE 0
    /\ UNCHANGED <<uri, path, idx>>

ResNext == TooShort \/ Compare \/ Matched

ResSpec == ResInit /\ [][ResNext]_resVars

-----------------------------------------------------------------------------
(* Properties *)

\* path is the beginning of uri.
Prefixed == /\ Len(uri) >= Len(path)
            /\ \A k \in 1..Len(path) : uri[k] = path[k]

HasSubpath == Prefixed /\ Len(uri) > Len(path) /\ uri[Len(path) + 1] = Slash

\* Where IsResource does what its comment says: 1 for a resource below path
\* and for nothing else, 0 for path itself, and -1 for a uri that does not
\* begin with path.  A uri that goes on within a name is left open.
Compares ==
    stage = "done" => /\ ret = 1 <=> HasSubpath
                      /\ uri = path => ret = 0
                      /\ ~Prefixed => ret = -1

\* What the comment says of the result of IsResource: 0 is "equal".
\* It is also 0 for /api/v1/testing against /api/v1/test.
ZeroIsEqual == stage = "done" /\ ret = 0 => uri = path

\* The inductive invariant: the characters before idx are equal.
ResInv ==
    /\ uri \in Uris /\ path \in Uris
    /\ idx \in 0..Len(path)
    /\ stage \in {"loop", "done"} /\ ret \in {-1, 0, 1}
    /\ Len(uri) >= Len(path) => \A k \in 1..idx : uri[k] = path[k]
    /\ Compares
=============================================================================
