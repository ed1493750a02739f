------------------------------ MODULE MCServers ------------------------------
(* The two servers, RestServer and its clients of Rest and the tasks of    *)
(* Reply, in one run: every behaviour of either with the other at its end. *)
EXTENDS MCRest, Reply

RestAtRest ==
    /\ is_run = FALSE /\ thread = "none" /\ pcS = "idle" /\ runs = MaxRun
    /\ pcC = [c \in Clients |-> "idle"] /\ conn = [c \in Clients |-> "none"]
    /\ cid = [c \in Clients |-> 0] /\ req = [c \in Clients |-> MaxReq]
    /\ queued = [c \in Clients |-> FALSE] /\ wire = {} /\ replies = {}
    /\ sends = [x \in Clients \X (1..MaxReq) |-> 0]
    /\ errcode = [c \in Clients |-> 0] /\ response = [c \in Clients |-> <<>>]

\* Every task is destroyed and no request is left.
ReplyAtRest ==
    /\ task = [t \in Tasks |-> [Receiving(NewTask) EXCEPT !.aio = "stopped"]]
    /\ posted = <<>> /\ serving = {}
    /\ freed = [r \in Requests |-> 1] /\ answered = [r \in Requests |-> 1]
    /\ stopped = Tasks /\ broken = FALSE

MCInit == (Init /\ ReplyAtRest) \/ (RestAtRest /\ ReplyInit)

MCNext == (Next /\ UNCHANGED replyVars) \/ (ReplyNext /\ UNCHANGED vars)

MCSpec == MCInit /\ [][MCNext]_<<vars, replyVars>> /\ Fairness /\ ReplyFairness
=============================================================================
