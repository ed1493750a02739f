------------------------------ MODULE RouteNet ------------------------------
(***************************************************************************)
(* Source routing with z::zmq::RoutePath through a chain of ROUTER         *)
(* sockets.  Each router exchanges the source with the destination of its  *)
(* hop (CalcRoute) and sends on; the last one turns the recorded hops      *)
(* round (RotateRoute) and the answer retraces them.                       *)
(*                                                                         *)
(* The loops that call these methods are the applications': a router does  *)
(* Recv, CalcRoute and Send, and where CalcRoute says ZE_EOF, "the target  *)
(* router", it answers.  CalcRoute's is_out only tells the caller which of *)
(* its sockets to use.                                                     *)
(*                                                                         *)
(*   Paths      the routers a request may be sent through, last the target *)
(*   Payloads   the second body frame; may contain Empty                   *)
(*   MaxReq     bound on the requests                                      *)
(*                                                                         *)
(* Packets may be lost: a ROUTER drops what it cannot send on.             *)
(***************************************************************************)
EXTENDS RoutePath, SequencesExt

CONSTANTS Clients, Routers, Paths, Payloads, MaxReq

Nodes == Clients \cup Routers

\* The control frame: number of the request, "req" or "rep", hop counter.
Ctl(k, kind, h) == <<"ctl", k, kind, h>>
Id(n) == <<"id", n>>

ASSUME RPAssumption ==
    /\ Clients \cap Routers = {}
    /\ Paths \subseteq Seq(Routers) \ {<<>>}
    /\ MaxReq \in Nat
    /\ "none" \notin Routers
    \* No identity and no control frame is without bytes.
    /\ \A n \in Nodes : Id(n) # Empty
    /\ \A k \in 1..MaxReq, kind \in {"req", "rep"}, h \in 0..255 : Ctl(k, kind, h) # Empty

VARIABLES
    packets,    \* packets in flight: sender, receiver, frames
    sent,       \* the requests: client, path, payload
    served,     \* the router that answered each request, or none yet
    answer,     \* per request: NoAnswer, or what its client made of the answer
    refused,    \* requests dropped because Recv did not return ZEOK
    lost        \* requests of which a packet was lost

routeVars == <<packets, sent, served, answer, refused, lost>>

NoAnswer == [kind |-> "none"]

RouteInit ==
    /\ packets = {}
    /\ sent = <<>>
    /\ served = <<>>
    /\ answer = <<>>
    /\ refused = {} /\ lost = {}

-----------------------------------------------------------------------------
\* The frames node n receives of packet p: a ROUTER socket puts the sender
\* in front, a client's DEALER does not.
Arrived(p) == IF p.to \in Routers THEN <<Id(p.from)>> \o p.frames ELSE p.frames

\* The packet of a router's Send: ROUTER takes the first frame as receiver.
Packet(n, r) == [from |-> n, to |-> r.src[1][2], frames |-> Tail(Wire(r))]

\* The request that a packet in flight belongs to.
Number(p) == p.frames[2][2]

-----------------------------------------------------------------------------
(* A client builds a RoutePath and sends it through its first router. *)
SendRequest(c, path, d) ==
    LET k == Len(sent) + 1
        r == [src |-> <<>>, msg |-> <<Ctl(k, "req", 0), d>>,
              dest |-> [i \in 1..Len(path) - 1 |-> Id(path[i + 1])]]
    IN  /\ k <= MaxReq
        /\ Sendable(r)
        /\ sent' = Append(sent, [client |-> c, path |-> path, payload |-> d])
        /\ served' = Append(served, "none")
        /\ answer' = Append(answer, NoAnswer)
        /\ packets' = packets \cup {[from |-> c, to |-> path[1], frames |-> Wire(r)]}
        /\ UNCHANGED <<refused, lost>>

\* Router n: Recv, CalcRoute gives ZEOK, Send.
Forward(n, p) ==
    /\ p.to = n
    /\ \E frames \in {Arrived(p)} : RecvOk(frames) /\ \E r \in {RecvPath(frames)} :
          /\ Hops(r) < Len(r.dest)
          /\ packets' = (packets \ {p}) \cup {Packet(n, CalcRoute(r))}
    /\ UNCHANGED <<sent, served, answer, refused, lost>>

\* Router n: Recv, CalcRoute gives ZE_EOF; the answer goes out in the same
\* RoutePath, its route turned round.
Answer(n, p) ==
    /\ p.to = n
    /\ \E frames \in {Arrived(p)} : RecvOk(frames) /\ \E r \in {RecvPath(frames)} :
          /\ Hops(r) = Len(r.dest)
          /\ packets' = (packets \ {p}) \cup {Packet(n,
                [r EXCEPT !.msg[1] = Ctl(Number(p), "rep", 0),
                          !.dest = RotateRoute(r.dest, Hops(r))])}
    /\ served' = [served EXCEPT ![Number(p)] = n]
    /\ UNCHANGED <<sent, answer, refused, lost>>

\* Recv gives ZENOT_SUPPORT: the packet is dropped.
Refuse(n, p) ==
    /\ p.to = n
    /\ \E frames \in {Arrived(p)} : ~RecvOk(frames)
    /\ packets' = packets \ {p}
    /\ refused' = refused \cup {Number(p)}
    /\ UNCHANGED <<sent, served, answer, lost>>

\* The client gets its answer and turns the route round for the next request.
Deliver(c, p) ==
    /\ p.to = c
    /\ \E frames \in {Arrived(p)} : RecvOk(frames) /\ \E r \in {RecvPath(frames)} :
          answer' = [answer EXCEPT ![Number(p)] =
                 [client |-> c, kind |-> r.msg[1][3], payload |-> r.msg[2],
                  route |-> RotateRoute(r.dest, Hops(r))]]
    /\ packets' = packets \ {p}
    /\ UNCHANGED <<sent, served, refused, lost>>

\* ZeroMQ drops a packet.
LosePacket(p) ==
    /\ packets' = packets \ {p}
    /\ lost' = lost \cup {Number(p)}
    /\ UNCHANGED <<sent, served, answer, refused>>

-----------------------------------------------------------------------------
Router(n) == \E p \in packets : Forward(n, p) \/ Answer(n, p) \/ Refuse(n, p)

RouteNext ==
    \/ \E c \in Clients :
          \/ \E path \in Paths, d \in Payloads : SendRequest(c, path, d)
          \/ \E p \in packets : Deliver(c, p)
    \/ \E n \in Routers : Router(n)
    \/ \E p \in packets : LosePacket(p)

RouteSpec == RouteInit /\ [][RouteNext]_routeVars

\* Every router and client keeps receiving; nothing is assumed of LosePacket.
RouteFairness ==
    /\ \A n \in Routers : WF_routeVars(Router(n))
    /\ \A c \in Clients : WF_routeVars(\E p \in packets : Deliver(c, p))

FairRouteSpec == RouteSpec /\ RouteFairness

-----------------------------------------------------------------------------
(* Properties *)

Numbers == 1..Len(sent)

RouteTypeOK ==
    /\ \A p \in packets : p.from \in Nodes /\ p.to \in Nodes /\ Len(p.frames) >= 4
    /\ \A k \in Numbers : sent[k] \in
          [client : Clients, path : Paths, payload : Payloads]
    /\ Len(served) = Len(sent) /\ Len(answer) = Len(sent)
    /\ \A k \in Numbers : served[k] \in Routers \cup {"none"}
    /\ refused \subseteq Numbers /\ lost \subseteq Numbers

\* The nodes request k visits, and its answer in the other direction.
Trail(k, kind) ==
    LET there == <<sent[k].client>> \o sent[k].path
    IN  IF kind = "req" THEN there ELSE Reverse(there)

\* Back trace: after h hops the packet is between the nodes h + 1 and h + 2
\* of its trail, the first h destinations are the nodes before, in order,
\* and the others are those still to come.  So no exchange of CalcRoute
\* loses or reorders a node, in either direction.
BackTrace == RouteTypeOK /\ \A p \in packets : RecvOk(Arrived(p)) =>
    LET r == RecvPath(Arrived(p))
        h == Hops(r)
        trail == Trail(r.msg[1][2], r.msg[1][3])
        ids == [i \in 1..Len(trail) |-> Id(trail[i])]
    IN  /\ h + 2 <= Len(trail)
        /\ p.from = trail[h + 1] /\ p.to = trail[h + 2]
        /\ r.dest = SubSeq(ids, 1, h) \o SubSeq(ids, h + 3, Len(ids))

\* A request is served by the last router of its path and by no other.
ServedByTarget == \A k \in Numbers :
    served[k] # "none" => served[k] = Last(sent[k].path)

\* An empty body frame looks like a separator: such a request is refused by
\* its first receiver, never taken apart wrongly; no other one is refused.
EmptyRefused == \A k \in Numbers :
    /\ k \in refused => sent[k].payload = Empty
    /\ sent[k].payload = Empty => served[k] = "none"

\* An answer reaches the client that asked, from the router it asked, with
\* the payload it carried, and holds the route of the request: it can be sent
\* along again as it is.
AnswerFits == ServedByTarget /\ EmptyRefused /\ \A k \in Numbers : answer[k] # NoAnswer =>
    /\ answer[k].client = sent[k].client
    /\ answer[k].kind = "rep"
    /\ answer[k].payload = sent[k].payload
    /\ served[k] # "none"
    /\ answer[k].route = [i \in 1..Len(sent[k].path) - 1 |-> Id(sent[k].path[i + 1])]

\* A request is answered in the end, or refused for an empty frame, unless
\* one of its packets is lost.
EventuallyAnswered ==
    \A k \in 1..MaxReq :
        (k \in Numbers) ~> (k \in refused \cup lost \/ (k \in Numbers /\ answer[k] # NoAnswer))
=============================================================================
