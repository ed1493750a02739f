---------------------------- MODULE MCAsyncTimer ----------------------------
(* Instances of AsyncTimer: entries due at once, in the next pass, and     *)
(* past what is due when a pass begins.                                    *)
EXTENDS AsyncTimer

MCTimeouts == 0..2
=============================================================================
