----------------------------- MODULE RoutePath -----------------------------
(***************************************************************************)
(* z::zmq::RoutePath of zpp/zmq.hpp as data: three lists of frames, the    *)
(* source, the body and the destinations, which Socket::Send and           *)
(* Socket::Recv put on the wire separated by empty frames.  The hop        *)
(* counter that CalcRoute takes by reference travels in the control frame  *)
(* (InitRoute, GetRouteCtl), the first of the body: <<tag, request, kind,  *)
(* hops>>.                                                                 *)
(***************************************************************************)
EXTENDS Integers, Sequences, FiniteSets, FiniteSetsExt

CONSTANT Empty      \* the frame without bytes

(* The wire format *)

\* Socket::Send(RoutePath): the first source frame if there is one, the
\* body and the destinations, each behind an empty frame.
Wire(r) == (IF r.src = <<>> THEN <<>> ELSE <<r.src[1]>>)
               \o <<Empty>> \o r.msg \o <<Empty>> \o r.dest

\* Send refuses a body of fewer than two frames.
Sendable(r) == Len(r.msg) >= 2

\* Socket::RecvPath(RoutePath): stat counts the empty frames, a nonempty frame
\* goes to list stat.
Stat(frames, i) == Cardinality({j \in 1..i : frames[j] = Empty})
Section(frames, stat) ==
    LET own == {i \in 1..Len(frames) : frames[i] # Empty /\ Stat(frames, i) = stat}
    IN  IF own = {} THEN <<>> ELSE SubSeq(frames, Min(own), Max(own))

RecvPath(frames) == [src  |-> Section(frames, 0),
                 msg  |-> Section(frames, 1),
                 dest |-> Section(frames, 2)]

MutRecvOk(frames) == Stat(frames, Len(frames)) >= 2   \* takes a third separator

\* stat != 2 is ZENOT_SUPPORT.  (Past the third list every frame moves stat
\* on: it never comes back to 2.)
RecvOk(frames) == Stat(frames, Len(frames)) = 2

-----------------------------------------------------------------------------
(* Routing *)

Hops(r) == r.msg[1][4]
SetHops(r, h) == [r EXCEPT !.msg[1][4] = h]

MutCalcRoute(r) ==              \* overwrites instead of exchanging
    SetHops([r EXCEPT !.src[1] = r.dest[Hops(r) + 1]], Hops(r) + 1)

\* CalcRoute with hops < size: exchange source and destination, next hop.
CalcRoute(r) ==
    LET h == Hops(r)
    IN  SetHops([r EXCEPT !.src[1] = r.dest[h + 1],
                          !.dest[h + 1] = r.src[1]], (h + 1) % 256)

MutRotateRoute(dest, hops) == dest   \* does not turn the route round

\* RotateRoute(hops): drops what lies behind hops + 1 destinations and
\* turns the first hops round.
RotateRoute(dest, hops) ==
    IF hops = 0 THEN dest
    ELSE [i \in 1..(IF Len(dest) > hops + 1 THEN hops + 1 ELSE Len(dest)) |->
            IF i <= hops THEN dest[hops + 1 - i] ELSE dest[i]]
=============================================================================
