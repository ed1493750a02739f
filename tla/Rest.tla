-------------------------------- MODULE Rest --------------------------------
(***************************************************************************)
(* z::ev2::RestServer and z::ev2::RestClient of zpp/event2/rest.h and      *)
(* zpp/src/rest.cpp: a server thread that runs an event loop for ever,     *)
(* started and stopped by a control thread (Run, Stop), and clients that   *)
(* each send one request at a time (DispatchJson) over a connection that   *)
(* is kept alive from one request to the next.                             *)
(*                                                                         *)
(* libevent is external.  What the code gets from it: evhttp_make_request  *)
(* writes the request at once if the connection is up, as far as it has    *)
(* been filled in, and else when the connection is established; chunked_cb *)
(* runs for every part of a body that is read, and drops it; done_cb runs  *)
(* once, at the end of the response, or after a failure or 5 seconds,      *)
(* when the connection is closed; a loop without a listening socket ends.  *)
(*                                                                         *)
(*   Outcomes  what the virtual OnApiGeneral may do: "reply" in one part,  *)
(*             "parts" (a body read in two), "empty" (no body), "fail"     *)
(*             (an error returned, no reply), "both" (reply, then error)   *)
(*   MayFail   zthread_create may fail, which Run only returns             *)
(*   MaxReq    bound on the requests of a client, MaxRun on those of Run   *)
(*                                                                         *)
(* A client reuses one Request, as tests/event2_rest/client.cpp does.      *)
(***************************************************************************)
EXTENDS Integers, Sequences, FiniteSets

CONSTANTS Clients, Outcomes, MayFail, MaxReq, MaxRun

ASSUME RestAssumption ==
    /\ Outcomes \subseteq {"reply", "parts", "empty", "fail", "both"}
    /\ MayFail \in BOOLEAN /\ MaxReq \in Nat /\ MaxRun \in Nat

VARIABLES
    is_run,     \* RestServer::is_run
    thread,     \* the server thread: "none", "starting", "serving", "exited"
    pcS,        \* the control thread: "idle", or in Stop: "ask", "join"
    runs,       \* calls of Run that went ahead
    pcC,        \* each client: "idle", in DispatchJson: "made", "loop"
    conn,       \* its connection: "none", "down", "up"
    cid,        \* the number of its connection, counted by connections
    req,        \* the number of its latest request
    queued,     \* the request waits for the connection
    wire,       \* requests at the server
    replies,    \* responses: the body, and the parts of it not yet read
    sends,      \* evhttp_send_reply and evhttp_send_error calls per request
    errcode,    \* the request whose response set req.errcode last, or 0
    response    \* req.response: the parts of a body it holds

serverVars == <<is_run, thread, pcS, runs>>
clientVars == <<pcC, conn, cid, req, queued, errcode, response>>
vars == <<serverVars, clientVars, wire, replies, sends>>

Init ==
    /\ is_run = FALSE /\ thread = "none" /\ pcS = "idle" /\ runs = 0
    /\ pcC = [c \in Clients |-> "idle"]
    /\ conn = [c \in Clients |-> "none"]
    /\ cid = [c \in Clients |-> 0]
    /\ req = [c \in Clients |-> 0]
    /\ queued = [c \in Clients |-> FALSE]
    /\ wire = {} /\ replies = {}
    /\ sends = [x \in Clients \X (1..MaxReq) |-> 0]
    /\ errcode = [c \in Clients |-> 0]
    /\ response = [c \in Clients |-> <<>>]

\* The parts of the body of the response to request n.
Body(n, o) == CASE o = "empty" -> <<>>
                [] o = "parts" -> <<<<n, 1>>, <<n, 2>>>>
                [] OTHER       -> <<<<n, 1>>>>

OnWire(c, n, i, filled) == [client |-> c, req |-> n, cid |-> i, filled |-> filled]

\* The response to the request x, when OnApiGeneral does o.
Response(x, o) == [client |-> x.client, req |-> x.req, cid |-> x.cid,
                   body |-> Body(x.req, o), parts |-> Body(x.req, o)]

\* The client c, in its event loop, reads the response y.
Reads(c, y) == /\ pcC[c] = "loop" /\ conn[c] = "up"
               /\ y.client = c /\ y.cid = cid[c]

-----------------------------------------------------------------------------
(* Mutants *)

MutFail(c) ==                   \* keeps the connection of a request given up
    /\ pcC[c] = "loop"
    /\ pcC' = [pcC EXCEPT ![c] = "idle"]
    /\ queued' = [queued EXCEPT ![c] = FALSE]
    /\ UNCHANGED <<conn, cid, req, wire, replies, sends, errcode, response>>
    /\ UNCHANGED serverVars

MutFailGoesOn(c) ==             \* does not break the loop
    /\ pcC[c] = "loop"
    /\ conn' = [conn EXCEPT ![c] = "down"]
    /\ queued' = [queued EXCEPT ![c] = FALSE]
    /\ UNCHANGED <<pcC, cid, req, wire, replies, sends, errcode, response>>
    /\ UNCHANGED serverVars

MutStopBegin ==                 \* Stop returns without waiting
    /\ pcS = "idle" /\ is_run
    /\ is_run' = FALSE
    /\ UNCHANGED <<pcS, thread, runs, wire, replies, sends>> /\ UNCHANGED clientVars

-----------------------------------------------------------------------------
(* The server *)

\* Run: starts the thread unless is_run (then ZE_EXIST, nothing changes).
\* is_run stays set if there is no thread.
Run ==
    /\ pcS = "idle" /\ runs < MaxRun
    /\ ~is_run
    /\ is_run' = TRUE
    /\ thread' \in {"starting"} \cup (IF MayFail THEN {"none"} ELSE {})
    /\ runs' = runs + 1
    /\ UNCHANGED <<pcS, wire, replies, sends>> /\ UNCHANGED clientVars

\* Proc: binds and enters the loop.  If the bind fails, and nothing has been
\* bound before, the loop has no event and Proc returns.
Proc ==
    /\ thread = "starting"
    /\ thread' \in {"serving", "exited"}
    /\ UNCHANGED <<is_run, pcS, runs, wire, replies, sends>> /\ UNCHANGED clientVars

\* Stop (ZENOT_EXIST if not running, nothing changes) clears is_run, ...
StopBegin ==
    /\ pcS = "idle" /\ is_run
    /\ is_run' = FALSE
    /\ pcS' = "ask"
    /\ UNCHANGED <<thread, runs, wire, replies, sends>> /\ UNCHANGED clientVars

\* ... sends DELETE /api to port 8989 of the host with a client of its own.
\* Whoever listens there answers it like any request, or nobody does ...
StopAsk ==
    /\ pcS = "ask"
    /\ pcS' = "join"
    /\ UNCHANGED <<is_run, thread, runs, wire, replies, sends>> /\ UNCHANGED clientVars

\* ... and joins the thread (an error at best, if there is none).
StopJoin ==
    /\ pcS = "join"
    /\ thread \in {"exited", "none"}
    /\ thread' = "none"
    /\ pcS' = "idle"
    /\ UNCHANGED <<is_run, runs, wire, replies, sends>> /\ UNCHANGED clientVars

\* rest_gencb: OnApiGeneral, and SendError if it did not return ZEOK.
Handle(x) ==
    /\ thread = "serving" /\ x \in wire
    /\ wire' = wire \ {x}
    /\ \E o \in Outcomes :
          /\ sends' = [sends EXCEPT ![<<x.client, x.req>>] =
                          @ + (IF o = "both" THEN 2 ELSE 1)]
          /\ replies' = replies \cup {Response(x, o)}
    /\ UNCHANGED serverVars /\ UNCHANGED clientVars

-----------------------------------------------------------------------------
(* The clients *)

\* Connect: the connection object; ZE_EXIST if there is one.
Connect(c) ==
    /\ pcC[c] = "idle" /\ conn[c] = "none"
    /\ conn' = [conn EXCEPT ![c] = "down"]
    /\ UNCHANGED <<pcC, cid, req, queued, wire, replies, sends, errcode, response>>
    /\ UNCHANGED serverVars

Disconnect(c) ==
    /\ pcC[c] = "idle" /\ conn[c] # "none"
    /\ conn' = [conn EXCEPT ![c] = "none"]
    /\ UNCHANGED <<pcC, cid, req, queued, wire, replies, sends, errcode, response>>
    /\ UNCHANGED serverVars

\* DispatchJson: MakeRequest.
MakeRequest(c) ==
    /\ pcC[c] = "idle" /\ conn[c] # "none"
    /\ req[c] < MaxReq
    /\ req' = [req EXCEPT ![c] = @ + 1]
    /\ IF conn[c] = "up"
       THEN /\ wire' = wire \cup {OnWire(c, req[c] + 1, cid[c], FALSE)}
            /\ UNCHANGED queued
       ELSE /\ queued' = [queued EXCEPT ![c] = TRUE]
            /\ UNCHANGED wire
    /\ pcC' = [pcC EXCEPT ![c] = "made"]
    /\ UNCHANGED <<conn, cid, replies, sends, errcode, response>>
    /\ UNCHANGED serverVars

\* DispatchJson: AddHeader and AddOutBuffer, then event_base_dispatch.
FillIn(c) ==
    /\ pcC[c] = "made"
    /\ pcC' = [pcC EXCEPT ![c] = "loop"]
    /\ UNCHANGED <<conn, cid, req, queued, wire, replies, sends, errcode, response>>
    /\ UNCHANGED serverVars

\* The loop: the connection is established, the request goes out.
Established(c) ==
    /\ pcC[c] = "loop" /\ queued[c]
    /\ thread = "serving"
    /\ conn' = [conn EXCEPT ![c] = "up"]
    /\ cid' = [cid EXCEPT ![c] = @ + 1]
    /\ queued' = [queued EXCEPT ![c] = FALSE]
    /\ wire' = wire \cup {OnWire(c, req[c], cid[c] + 1, TRUE)}
    /\ UNCHANGED <<pcC, req, replies, sends, errcode, response>>
    /\ UNCHANGED serverVars

\* The loop: chunked_cb for the next part of the body of a response.
Chunk(c, y) ==
    /\ Reads(c, y) /\ y.parts # <<>>
    /\ response' = [response EXCEPT ![c] = <<Head(y.parts)>>]
    /\ errcode' = [errcode EXCEPT ![c] = y.req]
    /\ replies' = (replies \ {y}) \cup {[y EXCEPT !.parts = Tail(@)]}
    /\ UNCHANGED <<pcC, conn, cid, req, queued, wire, sends>>
    /\ UNCHANGED serverVars

\* The loop: done_cb at the end of a response breaks it; ZEOK.
Done(c, y) ==
    /\ Reads(c, y) /\ y.parts = <<>>
    /\ replies' = replies \ {y}
    /\ pcC' = [pcC EXCEPT ![c] = "idle"]
    /\ UNCHANGED <<conn, cid, req, queued, wire, sends, errcode, response>>
    /\ UNCHANGED serverVars

\* The loop: done_cb after a failure or the timeout breaks it; ZEOK too.
Fail(c) ==
    /\ pcC[c] = "loop"
    /\ pcC' = [pcC EXCEPT ![c] = "idle"]
    /\ conn' = [conn EXCEPT ![c] = "down"]
    /\ queued' = [queued EXCEPT ![c] = FALSE]
    /\ UNCHANGED <<cid, req, wire, replies, sends, errcode, response>>
    /\ UNCHANGED serverVars

-----------------------------------------------------------------------------
Server == Run \/ Proc \/ StopBegin \/ StopAsk \/ StopJoin
Client(c) == \/ Connect(c) \/ Disconnect(c) \/ MakeRequest(c) \/ FillIn(c)
             \/ Established(c) \/ Fail(c)
             \/ \E y \in replies : Chunk(c, y) \/ Done(c, y)

Next == \/ Server
        \/ \E x \in wire : Handle(x)
        \/ \E c \in Clients : Client(c)

Spec == Init /\ [][Next]_vars

\* The server thread runs, Stop goes on, a request once made is completed
\* and its loop ends: with the response, or with libevent's timeout.
Fairness ==
    /\ WF_vars(Proc) /\ WF_vars(StopAsk) /\ WF_vars(StopJoin)
    /\ WF_vars(\E x \in wire : Handle(x))
    /\ \A c \in Clients :
          /\ WF_vars(FillIn(c))
          /\ WF_vars(Established(c) \/ Fail(c)
                      \/ \E y \in replies : Chunk(c, y) \/ Done(c, y))

FairSpec == Spec /\ Fairness

-----------------------------------------------------------------------------
(* Properties *)

TypeOK ==
    /\ is_run \in BOOLEAN
    /\ thread \in {"none", "starting", "serving", "exited"}
    /\ pcS \in {"idle", "ask", "join"}
    /\ runs \in 0..MaxRun
    /\ pcC \in [Clients -> {"idle", "made", "loop"}]
    /\ conn \in [Clients -> {"none", "down", "up"}]
    /\ req \in [Clients -> 0..MaxReq]
    /\ \A c \in Clients : cid[c] \in 0..req[c]
    /\ queued \in [Clients -> BOOLEAN]
    /\ errcode \in [Clients -> 0..MaxReq]

\* A request is answered once: after the second evhttp_send_* libevent has
\* freed the evhttp_request.
AnsweredOnce == \A x \in DOMAIN sends : sends[x] <= 1

\* A client in its event loop reads only the response to its own latest
\* request: the response to one it has given up comes on a connection that
\* is closed by then.  Once it has read a body, errcode and response are of
\* that request, and nothing of an earlier one is left in them.
ResponseOwn == TypeOK /\ AnsweredOnce /\ \A c \in Clients, y \in replies : Reads(c, y) =>
    /\ y.req = req[c]
    /\ y.parts = <<>> /\ y.body # <<>> =>
          errcode[c] = req[c] /\ \A i \in DOMAIN response[c] : response[c][i][1] = req[c]

\* No thread is forgotten: a thread that runs or has ended is one that Stop
\* would join, or is joining, and Stop has then cleared is_run.
ThreadKept ==
    /\ thread # "none" => is_run \/ pcS # "idle"
    /\ pcS # "idle" => ~is_run

\* DispatchJson returns whatever the server does.
DispatchReturns == \A c \in Clients : pcC[c] # "idle" ~> pcC[c] = "idle"

\* Every request goes out with the body and headers of its Request.
RequestFilled == \A x \in wire : x.filled
=============================================================================
