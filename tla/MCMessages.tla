------------------------------ MODULE MCMessages ------------------------------
(* Messages on their way, in one run: a MsgQueue with one message in       *)
(* flight, the tries of LazyPirate, and the packets of RouteNet.  turn     *)
(* says which of them moves; the others stay where they are.               *)
EXTENDS MsgQueue, LazyPirate, MCRouteNet

VARIABLE turn

MCInit ==
    /\ turn \in {"queue", "tries", "routes"}
    /\ Init /\ LPInit /\ RouteInit

MCNext ==
    /\ UNCHANGED turn
    /\ \/ turn = "queue" /\ Next /\ UNCHANGED <<lpVars, routeVars>>
       \/ turn = "tries" /\ LPNext /\ UNCHANGED <<vars, routeVars>>
       \/ turn = "routes" /\ RouteNext /\ UNCHANGED <<vars, lpVars>>

\* The fairness of each module.  Of the others only Pop can take a step from
\* the initial state, and only that of the queue whose turn it is must.
MCFairness ==
    /\ \A p \in Producers : WF_vars(PushEnq(p) \/ PushSize(p) \/ PushPost(p))
    /\ WF_vars(turn = "queue" /\ \E c \in Consumers : Pop(c))
    /\ WF_lpVars(LazyPiratReq)
    /\ RouteFairness

MCSpec == MCInit /\ [][MCNext]_<<vars, lpVars, routeVars, turn>> /\ MCFairness
=============================================================================
