------------------------------- MODULE MCRest -------------------------------
(* Instances of Rest.  The handlers do one of the two, reply or fail, as   *)
(* the OnApiGeneral of rest.h and of the tests do.                         *)
EXTENDS Rest

MCOutcomes == {"reply", "parts", "empty", "fail"}
=============================================================================
