-------------------------------- MODULE Reply --------------------------------
(***************************************************************************)
(* The asynchronous reply server z::nng::Reply of zpp/src/reply.cpp: each  *)
(* Task owns one nng_aio, whose completion calls ReplyOnEvent, and serves  *)
(* one request after another: receive, onRequest (in the thread pool, or   *)
(* in the callback when there is none or it refuses), Response, send.      *)
(* ReplyOnEvent tells a completed receive from a completed send by state   *)
(* alone, which Response sets in the thread of onRequest.                  *)
(*                                                                         *)
(* A receive may fail at any time, and does when ~Task stops the aio: then *)
(* ReplyOnEvent goes on with the message that the aio still has, none or a *)
(* reply that was freed, and Response uses it.  What follows is undefined: *)
(* broken, and the model ends there, as when onRequest uses its task after *)
(* ~Task.                                                                  *)
(*                                                                         *)
(* The aio and its message are nng's: an aio that has sent holds none, one *)
(* that has failed keeps what it was given, one that was stopped completes *)
(* its operation with an error and begins no other.  onRequest calls       *)
(* Response once and does not use its task afterwards.                     *)
(***************************************************************************)
EXTENDS Integers, Sequences, FiniteSets, SequencesExt

CONSTANTS Tasks, Requests, NoMsg

ASSUME ReplyAssumption == NoMsg \notin Requests

VARIABLES
    task,       \* task[t].state, .req, .aio: the operation of the aio, .msg:
                \* its message, .failed: its nng_aio_result
    posted,     \* the tasks in the thread pool's queue
    serving,    \* the tasks whose onRequest has not called Response yet
    freed,      \* freed[r]: how often nng_msg_free was called for request r
    answered,   \* answered[r]: how many replies nng took for request r
    stopped,    \* the tasks whose destructor has stopped their aio
    broken      \* a message or a task was used that is not there any more

replyVars == <<task, posted, serving, freed, answered, stopped, broken>>

NewTask == [state |-> "INIT", req |-> NoMsg, aio |-> "idle", msg |-> NoMsg, failed |-> FALSE]
Completed(t) == task[t].aio = "done"
\* The requests a task has or had: nng delivers a request once.
Arrived == {r \in Requests : freed[r] > 0}
           \cup {task[t].msg : t \in Tasks} \cup {task[t].req : t \in Tasks}

ReplyInit ==
    /\ task = [t \in Tasks |-> NewTask]
    /\ posted = <<>>
    /\ serving = {}
    /\ freed = [r \in Requests |-> 0]
    /\ answered = [r \in Requests |-> 0]
    /\ stopped = {} /\ broken = FALSE

\* nng_recv_aio of the task with state RECV; a stopped aio does not begin.
Receiving(x) == [x EXCEPT !.state = "RECV", !.aio = "recv", !.failed = FALSE]
ReceivesAgain(t) == IF t \in stopped THEN [Receiving(task[t]) EXCEPT !.aio = "stopped"]
                    ELSE Receiving(task[t])
\* The message and the task that onRequest works with are there.
Sound(t) == ~task[t].failed /\ t \notin stopped

-----------------------------------------------------------------------------
(* Mutants *)

MutSetSend(t) ==                \* nng_send_aio before state = SEND
    /\ t \in serving /\ task[t].state = "RECV" /\ Sound(t)
    /\ task' = [task EXCEPT ![t].aio = "send", ![t].msg = task[t].req]
    /\ serving' = serving \ {t}
    /\ UNCHANGED <<posted, freed, answered, stopped, broken>>

MutEventSent(t) ==              \* the error branch does not receive again
    /\ Completed(t) /\ task[t].state = "SEND"
    /\ freed' = [freed EXCEPT ![task[t].req] = @ + 1]
    /\ task' = [task EXCEPT ![t] = IF @.failed THEN [@ EXCEPT !.aio = "idle"] ELSE ReceivesAgain(t)]
    /\ UNCHANGED <<posted, serving, answered, stopped, broken>>

-----------------------------------------------------------------------------
\* Listen calls ReplyOnEvent of each task once: state INIT.
Start(t) ==
    /\ task[t].state = "INIT"
    /\ task' = [task EXCEPT ![t] = Receiving(@)]
    /\ UNCHANGED <<posted, serving, freed, answered, stopped, broken>>

\* nng completes a receive with the request r; NoMsg for one that fails.
Receive(t, r) ==
    /\ task[t].aio = "recv" /\ r \notin Arrived \ {NoMsg}
    /\ task' = [task EXCEPT ![t].aio = "done", ![t].failed = (r = NoMsg),
                            ![t].msg = IF r = NoMsg THEN @ ELSE r]
    /\ UNCHANGED <<posted, serving, freed, answered, stopped, broken>>

\* ReplyOnEvent, RECV: onError if it failed, then the same in both cases:
\* take the message, post do_request, or run onRequest if that fails.
EventReceived(t) ==
    /\ Completed(t) /\ task[t].state = "RECV"
    /\ task' = [task EXCEPT ![t].req = task[t].msg, ![t].aio = "idle"]
    /\ \/ posted' = Append(posted, t) /\ UNCHANGED serving
       \/ serving' = serving \cup {t} /\ UNCHANGED posted
    /\ UNCHANGED <<freed, answered, stopped, broken>>

DoRequest ==                    \* do_request, in a thread of the pool
    /\ ~broken /\ posted # <<>>
    /\ serving' = serving \cup {Head(posted)}
    /\ posted' = Tail(posted)
    /\ UNCHANGED <<task, freed, answered, stopped, broken>>

\* Response: the header of the request, the message into the aio, the state.
SetSend(t) ==
    /\ t \in serving /\ task[t].state = "RECV" /\ Sound(t)
    /\ task' = [task EXCEPT ![t].state = "SEND", ![t].msg = task[t].req]
    /\ UNCHANGED <<posted, serving, freed, answered, stopped, broken>>

SendAio(t) ==                   \* Response: nng_send_aio
    /\ t \in serving /\ task[t].state = "SEND" /\ Sound(t)
    /\ task' = [task EXCEPT ![t].aio = "send"]
    /\ serving' = serving \ {t}
    /\ UNCHANGED <<posted, freed, answered, stopped, broken>>

\* onRequest or Response uses a request or a task that is not there.
Breaks(t) ==
    /\ t \in serving /\ ~Sound(t)
    /\ broken' = TRUE
    /\ UNCHANGED <<task, posted, serving, freed, answered, stopped>>

\* nng completes a send: the reply, named by its request, is gone, or kept.
Sent(t) ==
    /\ task[t].aio = "send"
    /\ \/ /\ answered' = [answered EXCEPT ![task[t].msg] = @ + 1]
          /\ task' = [task EXCEPT ![t].aio = "done", ![t].msg = NoMsg]
       \/ /\ task' = [task EXCEPT ![t].aio = "done", ![t].failed = TRUE]
          /\ UNCHANGED answered
    /\ UNCHANGED <<posted, serving, freed, stopped, broken>>

\* ReplyOnEvent, SEND: on an error onError and the reply is freed too; the
\* request is freed and the task receives again.
EventSent(t) ==
    /\ Completed(t) /\ task[t].state = "SEND"
    /\ freed' = [freed EXCEPT ![task[t].req] = @ + 1]
    /\ task' = [task EXCEPT ![t] = ReceivesAgain(t)]
    /\ UNCHANGED <<posted, serving, answered, stopped, broken>>

\* ~Reply, after Listen: ~Task of one of tasks; nng_aio_free stops its aio.
Stop(t) ==
    /\ t \notin stopped /\ \A u \in Tasks : task[u].state # "INIT"
    /\ stopped' = stopped \cup {t}
    /\ task' = [task EXCEPT ![t] = IF @.aio \in {"recv", "send"}
                                  THEN [@ EXCEPT !.aio = "done", !.failed = TRUE] ELSE @]
    /\ UNCHANGED <<posted, serving, freed, answered, broken>>

-----------------------------------------------------------------------------
TaskStep(t) ==
    /\ ~broken
    /\ \/ Start(t) \/ EventReceived(t) \/ SetSend(t) \/ SendAio(t) \/ Breaks(t)
       \/ Sent(t) \/ EventSent(t)

ReplyNext ==
    \/ DoRequest
    \/ \E t \in Tasks : TaskStep(t)
    \/ \E t \in Tasks : ~broken /\ (Stop(t) \/ \E r \in Requests \cup {NoMsg} : Receive(t, r))

\* nng completes what it has begun, the pool runs what was posted, and every
\* onRequest answers.  Nothing is assumed of the requests' arrival.
ReplyFairness ==
    /\ WF_replyVars(DoRequest)
    /\ \A t \in Tasks : WF_replyVars(TaskStep(t))

-----------------------------------------------------------------------------
(* Properties *)

\* Whatever receives fail and tasks are destroyed: the request that an
\* onRequest got from a receive, and works on or will, is there and nobody
\* else's, no task is served twice, and no request is answered or freed twice.
RequestOnce ==
    LET working == {t \in serving \cup ToSet(posted) : ~task[t].failed} IN
    /\ \A t \in working : task[t].req \in Requests /\ freed[task[t].req] = 0
    /\ \A t, u \in working : task[t].req = task[u].req => t = u
    /\ Cardinality(serving \cup ToSet(posted)) = Cardinality(serving) + Len(posted)
    /\ \A r \in Requests : freed[r] <= 1 /\ answered[r] <= 1

\* A task that was started receives again, whatever became of its reply,
\* until it is destroyed or a failed receive breaks the server.
TaskReturns == \A t \in Tasks :
    task[t].aio # "recv" ~> task[t].aio = "recv" \/ t \in stopped \/ broken

\* An onRequest is given a request message that is there.
ServesRequest == \A t \in serving : task[t].req \in Requests /\ freed[task[t].req] = 0
=============================================================================
