----------------------------- MODULE LazyPirate -----------------------------
(***************************************************************************)
(* z::zmq::Socket of zpp/zmq.hpp and zpp/src/zmq.cpp as a request client:  *)
(* LazyPiratReq sends a request, waits for the reply, and where it does    *)
(* not come closes the socket, connects a new one (Reconnect) and tries    *)
(* again.  conns is the socket's list of connections, which Connect and    *)
(* Disconnect keep for Reconnect.                                          *)
(*                                                                         *)
(* ZeroMQ and the services are external: a REQ socket sends only while no  *)
(* reply is owed to it, blocks without a connection, and sends to one of   *)
(* its connections; closing it drops what has not been received.  A        *)
(* successful zmq_msg_send takes the content of the message.  Requests may *)
(* be lost, and answered late.                                             *)
(*                                                                         *)
(*   SockTypes  what Reconnect may read from sock_type, which nothing      *)
(*              sets: "req", "dealer" for a type that sends and receives   *)
(*              in any order, "mute" for one that cannot send, and         *)
(*              "invalid", which makes zmq_socket fail                     *)
(*   MayFail    TRUE: zmq_connect may fail for an endpoint in Reconnect    *)
(*   MaxTrys, MaxCalls  bounds on the parameter trys and on the requests   *)
(***************************************************************************)
EXTENDS Integers, Sequences, SequencesExt

CONSTANTS Endpoints, SockTypes, MayFail, MaxTrys, MaxCalls

ASSUME LPAssumption ==
    /\ SockTypes \subseteq {"req", "dealer", "mute", "invalid"}
    /\ MayFail \in BOOLEAN
    /\ MaxTrys \in Nat \ {0} /\ MaxCalls \in Nat

VARIABLES
    type,       \* the socket's type; "invalid": no socket (NULL)
    gen,        \* the number of sockets closed so far: names the socket
    owed,       \* a REQ socket has sent and not received
    linked,     \* endpoints the socket is connected to
    conns,      \* the list conns, by endpoint
    net,        \* requests on their way to a service
    inbox,      \* replies the socket has not given to its user
    pc,         \* "idle", and inside LazyPiratReq
    call,       \* number of the latest request
    msg,        \* the content of the Message req: the request, or 0 once sent
    trys,       \* tries left
    ret,        \* ret of the call, "none" before the first and after a Send
    rep,        \* the reply stored in rep by the latest call, or NoPacket
    last        \* the packet the latest try sent

lpVars == <<type, gen, owed, linked, conns, net, inbox, pc, call, msg, trys, ret, rep, last>>
sockVars == <<type, gen, linked, conns>>

Packets == [gen : Nat, endp : Endpoints, call : Nat, body : Nat, try : Nat]
NoPacket == [gen |-> 0, endp |-> "none", call |-> 0, body |-> 0, try |-> 0]

LPInit ==
    /\ type = "req"
    /\ gen = 0
    /\ owed = FALSE
    /\ linked = {}
    /\ conns = <<>>
    /\ net = {} /\ inbox = {}
    /\ pc = "idle"
    /\ call = 0 /\ msg = 0 /\ trys = 0
    /\ ret = "none"
    /\ rep = NoPacket /\ last = NoPacket

\* zmq_msg_send would give EFSM, ENOTSUP or ENOTSOCK.
SendFails == type \in {"mute", "invalid"} \/ (type = "req" /\ owed)

\* zmq_msg_send of content b in call k to one of the connections.
Transmit(k, b) ==
    \E e \in linked :
        LET p == [gen |-> gen, endp |-> e, call |-> k, body |-> b, try |-> trys]
        IN  net' = net \cup {p} /\ last' = p

\* The list with an endpoint that is listed once.
Conn(cs, e) == IF e \in ToSet(cs) THEN cs ELSE Append(cs, e)

\* What Reconnect lists of cs, last first, if its connects to up succeed.
Relisted(cs, up) ==
    LET list[n \in 0..Len(cs)] ==
            IF n = 0 THEN <<>>
            ELSE LET e == cs[Len(cs) + 1 - n] IN
                 IF e \in up THEN Conn(list[n - 1], e) ELSE list[n - 1]
    IN  list[Len(cs)]

-----------------------------------------------------------------------------
(* Mutants *)

MutReconnectOpen ==             \* keeps the socket that is owed a reply
    /\ pc = "reconnect"
    /\ pc' = "loop"
    /\ UNCHANGED <<type, gen, owed, linked, conns, net, inbox, call, msg, trys, ret, rep, last>>

MutReconnectConns ==            \* leaves conns as it was
    /\ pc = "reconnect"
    /\ pc' = "loop"
    /\ gen' = gen + 1
    /\ owed' = FALSE /\ inbox' = {}
    /\ type' \in SockTypes
    /\ linked' \in SUBSET ToSet(conns)
    /\ UNCHANGED <<conns, net, call, msg, trys, ret, rep, last>>

MutReconnectReset ==            \* lets the same socket send again
    /\ pc = "reconnect"
    /\ pc' = "loop"
    /\ owed' = FALSE
    /\ UNCHANGED <<type, gen, linked, conns, net, inbox, call, msg, trys, ret, rep, last>>

MutTimeout ==                   \* polls on instead of giving up the try
    /\ pc = "wait"
    /\ inbox = {}
    /\ UNCHANGED lpVars

-----------------------------------------------------------------------------
(* Connect, Disconnect, Send *)

\* Connect(endpoint).
Connect(e) ==
    /\ pc = "idle" /\ type # "invalid"
    /\ linked' = linked \cup {e}
    /\ conns' = Conn(conns, e)
    /\ UNCHANGED <<type, gen, owed, net, inbox, pc, call, msg, trys, ret, rep, last>>

\* Disconnect(endpoint), with Disconn; zmq_disconnect fails if not connected.
Disconnect(e) ==
    /\ pc = "idle" /\ type # "invalid"
    /\ e \in linked
    /\ linked' = linked \ {e}
    /\ conns' = RemoveFirst(conns, e)
    /\ UNCHANGED <<type, gen, owed, net, inbox, pc, call, msg, trys, ret, rep, last>>

\* A plain Send by the user, who does not wait for the reply.
Send ==
    /\ pc = "idle" /\ call < MaxCalls
    /\ ~SendFails
    /\ Transmit(call + 1, call + 1)
    /\ call' = call + 1
    /\ owed' = TRUE
    /\ ret' = "none" /\ rep' = NoPacket
    /\ UNCHANGED <<inbox, pc, msg, trys>> /\ UNCHANGED sockVars

\* A plain Recv.
Recv ==
    /\ pc = "idle"
    /\ \E p \in inbox : inbox' = inbox \ {p}
    /\ owed' = FALSE
    /\ UNCHANGED <<net, pc, call, msg, trys, ret, rep, last>> /\ UNCHANGED sockVars

-----------------------------------------------------------------------------
(* LazyPiratReq *)

Begin ==
    /\ pc = "idle" /\ call < MaxCalls
    /\ call' = call + 1
    /\ msg' = call + 1
    /\ trys' \in 1..MaxTrys
    /\ ret' = "timeout"
    /\ rep' = NoPacket /\ last' = NoPacket
    /\ pc' = "drain"
    /\ UNCHANGED <<owed, net, inbox>> /\ UNCHANGED sockVars

\* Read old data first: zmq_poll without waiting, and Recv into a Message
\* that is thrown away.
Drain ==
    /\ pc = "drain"
    /\ pc' = "send"
    /\ IF inbox # {}
       THEN /\ \E p \in inbox : inbox' = inbox \ {p}
            /\ owed' = FALSE
            /\ ret' = "ok"
       ELSE UNCHANGED <<inbox, owed, ret>>
    /\ UNCHANGED <<net, call, msg, trys, rep, last>> /\ UNCHANGED sockVars

\* Send(req): blocks while there is no connection; takes the content.
SendReq ==
    /\ pc = "send"
    /\ ~SendFails
    /\ Transmit(call, msg)
    /\ msg' = 0
    /\ owed' = TRUE
    /\ ret' = "ok"
    /\ pc' = "wait"
    /\ UNCHANGED <<inbox, call, trys, rep>> /\ UNCHANGED sockVars

\* Send(req) fails: break.
SendBreak ==
    /\ pc = "send"
    /\ SendFails
    /\ ret' = "fail"
    /\ pc' = "idle"
    /\ UNCHANGED <<owed, net, inbox, call, msg, trys, rep, last>> /\ UNCHANGED sockVars

\* zmq_poll sees a reply: Recv(rep), break.
Reply ==
    /\ pc = "wait"
    /\ \E p \in inbox : inbox' = inbox \ {p} /\ rep' = p
    /\ owed' = FALSE
    /\ ret' = "ok"
    /\ pc' = "idle"
    /\ UNCHANGED <<net, call, msg, trys, last>> /\ UNCHANGED sockVars

\* zmq_poll returns 0, or an error: ret stays as Send left it.
Timeout ==
    /\ pc = "wait"
    /\ inbox = {}
    /\ pc' = "reconnect"
    /\ UNCHANGED <<owed, net, inbox, call, msg, trys, ret, rep, last>> /\ UNCHANGED sockVars

\* Reconnect: a new socket, connected to the endpoints of conns, last first.
\* Its result is not looked at.
Reconnect ==
    /\ pc = "reconnect"
    /\ pc' = "loop"
    /\ IF conns = <<>>
       THEN UNCHANGED <<type, gen, owed, linked, conns, inbox>>
       ELSE /\ gen' = gen + 1
            /\ owed' = FALSE /\ inbox' = {}
            /\ type' \in SockTypes
            /\ IF type' = "invalid"
               THEN linked' = {} /\ UNCHANGED conns
               ELSE \E up \in SUBSET ToSet(conns) :
                       /\ ~MayFail => up = ToSet(conns)
                       /\ linked' = up
                       /\ conns' = Relisted(conns, up)
    /\ UNCHANGED <<net, call, msg, trys, ret, rep, last>>

\* while(--trys).
TryAgain ==
    /\ pc = "loop"
    /\ trys' = trys - 1
    /\ IF trys' # 0 THEN pc' = "drain" ELSE pc' = "idle"
    /\ UNCHANGED <<owed, net, inbox, call, msg, ret, rep, last>> /\ UNCHANGED sockVars

-----------------------------------------------------------------------------
(* The services and the network *)

\* A service answers; ZeroMQ drops the answer when its socket is closed.
Serve(p) ==
    /\ net' = net \ {p}
    /\ inbox' = IF p.gen = gen THEN inbox \cup {p} ELSE inbox
    /\ UNCHANGED <<owed, pc, call, msg, trys, ret, rep, last>> /\ UNCHANGED sockVars

\* The request or its answer is lost, or the service is down.
Lose(p) ==
    /\ net' = net \ {p}
    /\ UNCHANGED <<owed, inbox, pc, call, msg, trys, ret, rep, last>> /\ UNCHANGED sockVars

-----------------------------------------------------------------------------
LazyPiratReq == Drain \/ SendReq \/ SendBreak \/ Reply \/ Timeout \/ Reconnect \/ TryAgain

LPNext ==
    \/ \E e \in Endpoints : Connect(e) \/ Disconnect(e)
    \/ Send \/ Recv \/ Begin \/ LazyPiratReq
    \/ \E p \in net : Serve(p) \/ Lose(p)

LPSpec == LPInit /\ [][LPNext]_lpVars

\* A call that has started runs on: zmq_poll has a timeout.  Nothing is
\* assumed of the services.
FairLPSpec == LPSpec /\ WF_lpVars(LazyPiratReq)

-----------------------------------------------------------------------------
(* Properties *)

LPTypeOK ==
    /\ type \in {"req"} \cup SockTypes
    /\ gen \in Nat
    /\ owed \in BOOLEAN
    /\ linked \subseteq Endpoints
    /\ conns \in Seq(Endpoints)
    /\ net \subseteq Packets /\ inbox \subseteq Packets
    /\ pc \in {"idle", "drain", "send", "wait", "reconnect", "loop"}
    /\ call \in 0..MaxCalls
    /\ msg \in 0..MaxCalls
    /\ trys \in 0..MaxTrys
    /\ ret \in {"none", "ok", "timeout", "fail"}

\* The reply a call returns from a REQ socket answers the packet that its
\* latest try sent: no late reply to an earlier try, an earlier call or a plain
\* Send is taken for it, wherever in the call it arrives and whatever sockets
\* were open before.  (A DEALER socket may give a late reply.)
ReplyFresh == rep # NoPacket /\ type = "req" => rep = last /\ rep.call = call

\* conns lists the endpoints the socket is connected to, each once, so that
\* Reconnect restores them all, whichever of its connects fail.
ConnsLinked == LPTypeOK /\ (type # "invalid" =>
    /\ ToSet(conns) = linked
    /\ \A i, j \in 1..Len(conns) : conns[i] = conns[j] => i = j)

\* A call that did not fail leaves the socket ready for the next one: the
\* reply that a try has given up waiting for is not owed any more.
ReadyAfterCall == pc = "idle" /\ ret = "ok" => ~owed

\* A call returns within its tries, unless the socket has no connection
\* left, where Send blocks for ever.
CallReturns == (pc # "idle") ~> (pc = "idle" \/ linked = {})

\* Every try sends the caller's request.
TrySendsRequest == \A p \in net : p.body = p.call
=============================================================================
