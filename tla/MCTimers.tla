------------------------------- MODULE MCTimers -------------------------------
(* The two timers of zpp/base/timer.hpp in one run.  turn says which of    *)
(* them moves; the other stays where it is, and can do nothing that        *)
(* fairness asks for.                                                      *)
EXTENDS MCSyncTimer, MCAsyncTimer

VARIABLE turn

\* A timer whose callback has called it waits for itself.
TimerAtRest ==
    LET k == CHOOSE k \in TimerKeys : TRUE
        one == [j \in TimerKeys |-> IF j = k THEN 1 ELSE 0] IN
    /\ pcT = "stuck" /\ cur = <<0, k>> /\ ts_set = {cur}
    /\ now = MaxTime /\ back = 0 /\ snap = 0
    /\ pushes = one /\ fires = one /\ acks = [j \in TimerKeys |-> 0]

MCInit ==
    /\ turn \in {"sync", "async"}
    /\ IF turn = "async" THEN TimerInit ELSE TimerAtRest
    /\ Init

MCNext ==
    /\ UNCHANGED turn
    /\ \/ turn = "sync" /\ Next /\ UNCHANGED timerVars
       \/ turn = "async" /\ TimerNext /\ UNCHANGED vars

MCSpec == MCInit /\ [][MCNext]_<<vars, timerVars, turn>> /\ Fairness /\ TimerFairness
=============================================================================
