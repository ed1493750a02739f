--------------------------- MODULE Servers_proofs ----------------------------
(***************************************************************************)
(* What is served: RestServer and its clients of Rest, the tasks of Reply, *)
(* and the conversion of JsonPb, for any types of messages, messages and   *)
(* documents.                                                              *)
(***************************************************************************)
EXTENDS Rest, Reply, JsonPb, NatSets, FiniteSetTheorems, SequenceTheorems, TLAPS

-----------------------------------------------------------------------------
(* Rest.                                                                   *)

\* OnApiGeneral does one of the two: it replies, or it returns an error.
AnswersOnce == "both" \notin Outcomes

WireSet == [client : Clients, req : 1..MaxReq, cid : Int, filled : BOOLEAN]
ReplySet == [client : Clients, req : 1..MaxReq, cid : Int,
             body : Seq(Nat \X Nat), parts : Seq(Nat \X Nat)]

\* What is on its way belongs to a request that was made on a connection that
\* was established.
RestTypeOK ==
    /\ TypeOK
    /\ cid \in [Clients -> Int]
    /\ sends \in [Clients \X (1..MaxReq) -> Nat]
    /\ response \in [Clients -> Seq(Nat \X Nat)]
    /\ wire \in SUBSET WireSet
    /\ replies \in SUBSET ReplySet
    /\ \A x \in wire \cup replies : x.req <= req[x.client] /\ x.cid <= cid[x.client]
    /\ \A y \in replies : \A k \in 1..Len(y.parts) : y.parts[k][1] = y.req

\* A request is answered once: while it is at the server or waits for its
\* connection it has not been, and it is in one of the two places.
Asked ==
    /\ \A x \in wire : sends[<<x.client, x.req>>] = 0
    /\ \A x, z \in wire : x.client = z.client /\ x.req = z.req => x = z
    /\ \A c \in Clients : queued[c] =>
          /\ conn[c] = "down" /\ pcC[c] # "idle" /\ cid[c] < req[c]
          /\ sends[<<c, req[c]>>] = 0
          /\ \A x \in wire : x.client = c => x.req # req[c]
    /\ \A c \in Clients : \A n \in 1..MaxReq : n > req[c] => sends[<<c, n>>] = 0
    /\ \A x \in Clients \X (1..MaxReq) : sends[x] <= 1

\* What the client c has read of a body is of its latest request.
OwnBody(c) == errcode[c] = req[c] /\ \A k \in 1..Len(response[c]) : response[c][k][1] = req[c]

\* On a connection that is up there is the client's latest request or the
\* response to it, or nothing.  A response read in part is the last thing that
\* was stored.
CurrentOf(c) ==
    /\ \A x \in wire : x.client = c /\ x.cid = cid[c] =>
          /\ x.req = req[c] /\ pcC[c] # "idle"
          /\ \A y \in replies : ~(y.client = c /\ y.cid = cid[c])
    /\ \A y \in replies : y.client = c /\ y.cid = cid[c] =>
          /\ y.req = req[c] /\ pcC[c] # "idle"
          /\ \A z \in replies : z.client = c /\ z.cid = cid[c] => y = z
          /\ y.parts = y.body \/ OwnBody(c)

Current == \A c \in Clients : conn[c] = "up" => CurrentOf(c)

LEMMA RestInitial == Init => RestTypeOK /\ Asked /\ Current
<1> SUFFICES ASSUME Init PROVE RestTypeOK /\ Asked /\ Current
  OBVIOUS
<1> USE DEF Init
<1>1. RestTypeOK
  <2>1. TypeOK
    <3>1. 0 \in 0..MaxReq /\ 0 \in 0..MaxRun /\ 0 \in 0..0 BY RestAssumption
    <3>2. \A c \in Clients : cid[c] \in 0..req[c] BY <3>1
    <3> QED BY <3>1, <3>2 DEF TypeOK
  <2>2. <<>> \in Seq(Nat \X Nat) BY EmptySeq
  <2>3. response \in [Clients -> Seq(Nat \X Nat)] BY <2>2
  <2>4. sends \in [Clients \X (1..MaxReq) -> Nat] /\ cid \in [Clients -> Int] OBVIOUS
  <2> QED BY <2>1, <2>3, <2>4 DEF RestTypeOK
<1>2. Asked /\ Current BY DEF Asked, Current
<1> QED BY <1>1, <1>2

\* No thread is forgotten, whatever Outcomes and the bounds are.
THEOREM RestThreadKept == Spec => []ThreadKept
<1>1. Init => ThreadKept BY DEF Init, ThreadKept
<1>2. ThreadKept /\ [Next]_vars => ThreadKept'
  <2> SUFFICES ASSUME ThreadKept, [Next]_vars PROVE ThreadKept'
    OBVIOUS
  <2>1. CASE Server
    BY <2>1 DEF Server, ThreadKept, Run, Proc, StopBegin, StopAsk, StopJoin
  <2>2. CASE UNCHANGED serverVars BY <2>2 DEF serverVars, ThreadKept
  <2>3. (\E x \in wire : Handle(x)) \/ (\E c \in Clients : Client(c)) => UNCHANGED serverVars
    BY DEF Handle, Client, Connect, Disconnect, MakeRequest, FillIn, Established, Fail, Chunk, Done
  <2>4. CASE UNCHANGED vars BY <2>2, <2>4 DEF vars
  <2> QED BY <2>1, <2>2, <2>3, <2>4 DEF Next
<1> QED BY <1>1, <1>2, PTL DEF Spec

-----------------------------------------------------------------------------
(* The steps of a client.                                                  *)

Idle(c) == \/ Connect(c) \/ Disconnect(c) \/ FillIn(c) \/ Fail(c)

\* A client that closes its connection, or does nothing with it.
LEMMA IdleKeeps ==
    ASSUME RestTypeOK, Asked, Current, NEW c \in Clients, Idle(c)
    PROVE  RestTypeOK' /\ Asked' /\ Current'
<1>1. /\ UNCHANGED <<cid, req, wire, replies, sends, errcode, response>>
      /\ UNCHANGED serverVars
  BY DEF Idle, Connect, Disconnect, FillIn, Fail
<1>2. /\ conn' \in [Clients -> {"none", "down", "up"}]
      /\ pcC' \in [Clients -> {"idle", "made", "loop"}]
      /\ queued' \in [Clients -> BOOLEAN]
      /\ \A d \in Clients : d # c => conn'[d] = conn[d] /\ pcC'[d] = pcC[d] /\ queued'[d] = queued[d]
  BY DEF Idle, Connect, Disconnect, FillIn, Fail, RestTypeOK, TypeOK
<1>3. conn'[c] = "up" => conn[c] = "up" /\ (pcC[c] # "idle" => pcC'[c] # "idle")
  BY DEF Idle, Connect, Disconnect, FillIn, Fail, RestTypeOK, TypeOK
<1>4. queued'[c] => queued[c] /\ conn'[c] = conn[c] /\ pcC'[c] # "idle"
  BY ZenonT(40) DEF Idle, Connect, Disconnect, FillIn, Fail, RestTypeOK, TypeOK, Asked
<1>5. RestTypeOK' BY <1>1, <1>2 DEF RestTypeOK, TypeOK, serverVars
<1>6. Asked' BY <1>1, <1>2, <1>4 DEF Asked
<1>7. Current' BY <1>1, <1>2, <1>3 DEF Current, CurrentOf, OwnBody
<1> QED BY <1>5, <1>6, <1>7

LEMMA MakeRequestKeeps ==
    ASSUME RestTypeOK, Asked, Current, NEW c \in Clients, MakeRequest(c)
    PROVE  RestTypeOK' /\ Asked' /\ Current'
<1> DEFINE n == req[c] + 1
           x == OnWire(c, n, cid[c], FALSE)
<1>1. /\ pcC[c] = "idle" /\ conn[c] \in {"down", "up"} /\ pcC' = [pcC EXCEPT ![c] = "made"]
      /\ req' = [req EXCEPT ![c] = n]
      /\ n \in 1..MaxReq /\ req[c] \in Nat
      /\ UNCHANGED <<conn, cid, replies, sends, errcode, response>>
      /\ UNCHANGED serverVars
  BY RestAssumption DEF MakeRequest, RestTypeOK, TypeOK
<1>2. CASE conn[c] = "up" /\ wire' = wire \cup {x} /\ UNCHANGED queued
  <2>1. x \in WireSet /\ x.client = c /\ x.req = n /\ x.cid = cid[c]
    BY <1>1 DEF OnWire, WireSet, RestTypeOK
  <2> HIDE DEF x
  <2>2. /\ req' \in [Clients -> 0..MaxReq] /\ req'[c] = n
        /\ \A d \in Clients : d # c => req'[d] = req[d]
        /\ \A d \in Clients : req[d] <= req'[d] /\ req[d] \in Int
    BY <1>1, RestAssumption DEF RestTypeOK, TypeOK
  <2>3. RestTypeOK'
    <3>1. \A z \in wire' \cup replies' : z.req <= req'[z.client] /\ z.cid <= cid'[z.client]
      BY <1>1, <1>2, <2>1, <2>2, RestAssumption DEF RestTypeOK, WireSet, ReplySet
    <3>2. TypeOK' BY <1>1, <1>2, <2>2, RestAssumption DEF RestTypeOK, TypeOK, serverVars
    <3> QED BY <1>1, <1>2, <2>1, <3>1, <3>2 DEF RestTypeOK
  <2>4. ~queued[c] BY <1>1 DEF Asked
  <2>5. Asked'
    <3>1. sends[<<c, n>>] = 0 BY <1>1 DEF Asked
    <3>2. \A z \in wire : z.client = c => z.req # n
      BY <1>1, RestAssumption DEF RestTypeOK, WireSet
    <3>3. \A z \in wire' : sends'[<<z.client, z.req>>] = 0 BY <1>1, <1>2, <2>1, <3>1 DEF Asked
    <3>4. \A y, z \in wire' : y.client = z.client /\ y.req = z.req => y = z
      BY <1>2, <2>1, <3>2 DEF Asked
    <3>5. \A d \in Clients : queued'[d] =>
             /\ conn'[d] = "down" /\ pcC'[d] # "idle" /\ cid'[d] < req'[d]
             /\ sends'[<<d, req'[d]>>] = 0
             /\ \A z \in wire' : z.client = d => z.req # req'[d]
      BY <1>1, <1>2, <2>1, <2>2, <2>4 DEF Asked, RestTypeOK, TypeOK
    <3>6. \A d \in Clients : \A m \in 1..MaxReq : m > req'[d] => sends'[<<d, m>>] = 0
      BY <1>1, <2>2 DEF Asked
    <3> QED BY <1>1, <3>3, <3>4, <3>5, <3>6 DEF Asked
  <2>6. Current'
    <3> SUFFICES ASSUME NEW d \in Clients, conn'[d] = "up" PROVE CurrentOf(d)'
      BY DEF Current, CurrentOf
    <3>1. CASE d = c
      <4>1. \A z \in wire \cup replies : ~(z.client = c /\ z.cid = cid[c])
        BY <1>1, <1>2 DEF Current, CurrentOf
      <4>2. pcC'[c] # "idle" /\ cid' = cid /\ replies' = replies
        BY <1>1 DEF RestTypeOK, TypeOK
      <4>3. \A z \in wire' : z.client = c /\ z.cid = cid[c] => z.req = req'[c]
        BY <1>2, <2>1, <2>2, <4>1
      <4> QED BY <3>1, <4>1, <4>2, <4>3 DEF CurrentOf
    <3>2. CASE d # c
      <4>1. CurrentOf(d) BY <1>1, <1>2 DEF Current, CurrentOf
      <4>2. \A z \in wire' : z.client = d => z \in wire BY <1>2, <2>1, <3>2
      <4> QED BY <1>1, <1>2, <2>2, <3>2, <4>1, <4>2 DEF CurrentOf, RestTypeOK, TypeOK, OwnBody
    <3> QED BY <3>1, <3>2
  <2> QED BY <2>3, <2>5, <2>6
<1>3. CASE conn[c] = "down" /\ queued' = [queued EXCEPT ![c] = TRUE] /\ UNCHANGED wire
  <2>2. /\ req' \in [Clients -> 0..MaxReq] /\ req'[c] = n
        /\ \A d \in Clients : d # c => req'[d] = req[d]
        /\ \A d \in Clients : req[d] <= req'[d] /\ req[d] \in Int
    BY <1>1, RestAssumption DEF RestTypeOK, TypeOK
  <2>3. RestTypeOK'
    <3>1. \A z \in wire' \cup replies' : z.req <= req'[z.client] /\ z.cid <= cid'[z.client]
      BY <1>1, <1>3, <2>2, RestAssumption DEF RestTypeOK, WireSet, ReplySet
    <3>2. TypeOK' BY <1>1, <1>3, <2>2, RestAssumption DEF RestTypeOK, TypeOK, serverVars
    <3> QED BY <1>1, <1>3, <3>1, <3>2 DEF RestTypeOK
  <2>4. Asked'
    <3>1. sends[<<c, n>>] = 0 BY <1>1 DEF Asked
    <3>2. \A z \in wire : z.client = c => z.req # n
      BY <1>1, RestAssumption DEF RestTypeOK, WireSet
    <3>3. cid[c] < n BY <1>1 DEF RestTypeOK, TypeOK
    <3>5. \A d \in Clients : queued'[d] =>
             /\ conn'[d] = "down" /\ pcC'[d] # "idle" /\ cid'[d] < req'[d]
             /\ sends'[<<d, req'[d]>>] = 0
             /\ \A z \in wire' : z.client = d => z.req # req'[d]
      <4> TAKE d \in Clients
      <4>1. CASE d = c BY <1>1, <1>3, <2>2, <3>1, <3>2, <3>3, <4>1 DEF RestTypeOK, TypeOK
      <4>2. CASE d # c BY <1>1, <1>3, <2>2, <4>2 DEF Asked, RestTypeOK, TypeOK
      <4> QED BY <4>1, <4>2
    <3>6. \A d \in Clients : \A m \in 1..MaxReq : m > req'[d] => sends'[<<d, m>>] = 0
      BY <1>1, <2>2 DEF Asked
    <3> QED BY <1>1, <1>3, <3>5, <3>6 DEF Asked
  <2>5. Current'
    <3> SUFFICES ASSUME NEW d \in Clients, conn'[d] = "up" PROVE CurrentOf(d)'
      BY DEF Current, CurrentOf
    <3>1. d # c /\ conn[d] = "up" BY <1>1, <1>3
    <3>2. CurrentOf(d) BY <3>1 DEF Current, CurrentOf
    <3> QED BY <1>1, <1>3, <2>2, <3>1, <3>2 DEF CurrentOf, RestTypeOK, TypeOK, OwnBody
  <2> QED BY <2>3, <2>4, <2>5
<1> QED BY <1>1, <1>2, <1>3 DEF MakeRequest

LEMMA EstablishedKeeps ==
    ASSUME RestTypeOK, Asked, Current, NEW c \in Clients, Established(c)
    PROVE  RestTypeOK' /\ Asked' /\ Current'
<1> DEFINE n == cid[c] + 1
           x == OnWire(c, req[c], n, TRUE)
<1>1. /\ queued[c] /\ pcC[c] = "loop"
      /\ conn' = [conn EXCEPT ![c] = "up"] /\ cid' = [cid EXCEPT ![c] = n]
      /\ queued' = [queued EXCEPT ![c] = FALSE] /\ wire' = wire \cup {x}
      /\ UNCHANGED <<pcC, req, replies, sends, errcode, response>>
      /\ UNCHANGED serverVars
  BY DEF Established
<1>2. /\ cid[c] \in Nat /\ n <= req[c] /\ req[c] \in 1..MaxReq /\ sends[<<c, req[c]>>] = 0
      /\ \A z \in wire : z.client = c => z.req # req[c]
  BY <1>1, RestAssumption DEF Asked, RestTypeOK, TypeOK
<1>3. x \in WireSet /\ x.client = c /\ x.req = req[c] /\ x.cid = n BY <1>2 DEF OnWire, WireSet
<1> HIDE DEF x
<1>4. /\ cid' \in [Clients -> Int] /\ cid'[c] = n
      /\ \A d \in Clients : d # c => cid'[d] = cid[d] /\ conn'[d] = conn[d] /\ queued'[d] = queued[d]
      /\ \A d \in Clients : cid[d] <= cid'[d] /\ cid[d] \in Int
      /\ ~queued'[c]
  BY <1>1, <1>2 DEF RestTypeOK, TypeOK
<1>5. RestTypeOK'
  <2>1. \A z \in wire' \cup replies' : z.req <= req'[z.client] /\ z.cid <= cid'[z.client]
    BY SMTT(20), <1>1, <1>2, <1>3, <1>4, RestAssumption DEF RestTypeOK, WireSet, ReplySet
  <2>2. TypeOK' BY <1>1, <1>2, <1>4 DEF RestTypeOK, TypeOK, serverVars
  <2> QED BY <1>1, <1>3, <1>4, <2>1, <2>2 DEF RestTypeOK
<1>6. Asked'
  <2>1. \A z \in wire' : sends'[<<z.client, z.req>>] = 0 BY <1>1, <1>2, <1>3 DEF Asked
  <2>2. \A y, z \in wire' : y.client = z.client /\ y.req = z.req => y = z
    BY <1>1, <1>2, <1>3 DEF Asked
  <2>3. \A d \in Clients : queued'[d] =>
           /\ conn'[d] = "down" /\ pcC'[d] # "idle" /\ cid'[d] < req'[d]
           /\ sends'[<<d, req'[d]>>] = 0
           /\ \A z \in wire' : z.client = d => z.req # req'[d]
    BY <1>1, <1>3, <1>4 DEF Asked
  <2> QED BY <1>1, <2>1, <2>2, <2>3 DEF Asked
<1>7. Current'
  <2>1. \A z \in wire \cup replies : z.client = c => z.cid # n
    BY <1>2 DEF RestTypeOK, WireSet, ReplySet
  <2>2. ASSUME NEW d \in Clients, d # c, conn'[d] = "up"
        PROVE  /\ \A z \in wire' : z.client = d /\ z.cid = cid'[d] =>
                     /\ z.req = req'[d] /\ pcC'[d] # "idle"
                     /\ \A y \in replies' : ~(y.client = d /\ y.cid = cid'[d])
               /\ \A y \in replies' : y.client = d /\ y.cid = cid'[d] =>
                     /\ y.req = req'[d] /\ pcC'[d] # "idle"
                     /\ \A z \in replies' : z.client = d /\ z.cid = cid'[d] => y = z
                     /\ y.parts = y.body \/ OwnBody(d)'
    BY <1>1, <1>3, <1>4, <2>2 DEF Current, CurrentOf, OwnBody
  <2>3. /\ \A z \in wire' : z.client = c /\ z.cid = n =>
              /\ z.req = req'[c] /\ pcC'[c] # "idle"
              /\ \A y \in replies' : ~(y.client = c /\ y.cid = n)
        /\ \A y \in replies' : ~(y.client = c /\ y.cid = n)
    BY <1>1, <1>3, <2>1
  <2> QED BY <1>4, <2>2, <2>3 DEF Current, CurrentOf
<1> QED BY <1>5, <1>6, <1>7

\* A part of a body is read.
LEMMA ChunkKeeps ==
    ASSUME RestTypeOK, Asked, Current, NEW c \in Clients, NEW y \in replies, Chunk(c, y)
    PROVE  RestTypeOK' /\ Asked' /\ Current'
<1> DEFINE p == Head(y.parts)
           z == [y EXCEPT !.parts = Tail(y.parts)]
<1>1. /\ pcC[c] = "loop" /\ conn[c] = "up" /\ y.client = c /\ y.cid = cid[c]
      /\ y \in ReplySet /\ y.parts \in Seq(Nat \X Nat) /\ y.parts # <<>>
      /\ \A k \in 1..Len(y.parts) : y.parts[k][1] = y.req
  BY DEF Chunk, Reads, RestTypeOK, ReplySet
<1>2. /\ response' = [response EXCEPT ![c] = <<p>>]
      /\ errcode' = [errcode EXCEPT ![c] = y.req]
      /\ replies' = (replies \ {y}) \cup {z}
      /\ UNCHANGED <<pcC, conn, cid, req, queued, wire, sends>>
      /\ UNCHANGED serverVars
  BY DEF Chunk
<1>3. /\ y.req = req[c] /\ \A x \in replies : x.client = c /\ x.cid = cid[c] => x = y
      /\ \A x \in wire : ~(x.client = c /\ x.cid = cid[c])
  BY <1>1 DEF Current, CurrentOf
<1>4. p \in Nat \X Nat /\ p[1] = y.req
  <2>1. y.parts[1] \in Nat \X Nat /\ 1 \in 1..Len(y.parts) BY <1>1, EmptySeq, LenProperties
  <2>2. p = y.parts[1] BY <1>1
  <2> QED BY <1>1, <2>1, <2>2
<1>5. /\ z \in ReplySet /\ z.client = c /\ z.cid = cid[c] /\ z.req = y.req
      /\ \A k \in 1..Len(z.parts) : z.parts[k][1] = z.req
  <2> DEFINE tl == Tail(y.parts)
  <2>1. tl \in Seq(Nat \X Nat) /\ \A k \in 1..Len(tl) : tl[k] = y.parts[k + 1] /\ k + 1 \in 1..Len(y.parts)
    BY <1>1, HeadTailProperties, LenProperties
  <2> HIDE DEF tl
  <2>2. \A k \in 1..Len(tl) : tl[k][1] = y.req BY <1>1, <2>1
  <2>3. z = [y EXCEPT !.parts = tl] BY DEF tl
  <2>4. z \in ReplySet /\ z.client = y.client /\ z.cid = y.cid /\ z.req = y.req /\ z.parts = tl
    BY <1>1, <2>1, <2>3 DEF ReplySet
  <2> QED BY <1>1, <2>2, <2>4
<1> HIDE DEF p, z
<1>6. /\ <<p>> \in Seq(Nat \X Nat) /\ Len(<<p>>) = 1 /\ <<p>>[1] = p
      /\ response' \in [Clients -> Seq(Nat \X Nat)] /\ response'[c] = <<p>>
      /\ errcode' \in [Clients -> 0..MaxReq] /\ errcode'[c] = req[c]
      /\ \A d \in Clients : d # c => response'[d] = response[d] /\ errcode'[d] = errcode[d]
  <2>1. <<p>> \in Seq(Nat \X Nat) /\ Len(<<p>>) = 1 /\ <<p>>[1] = p BY <1>4
  <2>2. y.req \in 0..MaxReq BY <1>1, RestAssumption DEF ReplySet
  <2> QED BY <1>2, <1>3, <2>1, <2>2 DEF RestTypeOK, TypeOK
<1>7. OwnBody(c)'
  <2>1. errcode'[c] = req'[c] BY <1>2, <1>6
  <2>2. \A k \in 1..Len(response'[c]) : response'[c][k][1] = req'[c]
    BY <1>2, <1>3, <1>4, <1>6
  <2> QED BY <2>1, <2>2 DEF OwnBody
<1>8. RestTypeOK'
  <2>1. TypeOK' BY <1>2, <1>6 DEF RestTypeOK, TypeOK, serverVars
  <2>2. \A x \in wire' \cup replies' : x.req <= req'[x.client] /\ x.cid <= cid'[x.client]
    BY <1>1, <1>2, <1>5 DEF RestTypeOK
  <2>3. \A x \in replies' : \A k \in 1..Len(x.parts) : x.parts[k][1] = x.req
    BY <1>2, <1>5 DEF RestTypeOK
  <2> QED BY <1>2, <1>5, <1>6, <2>1, <2>2, <2>3 DEF RestTypeOK
<1>9. Asked' BY <1>2 DEF Asked
<1>10. Current'
  <2>1. \A d \in Clients : d # c => (OwnBody(d)' <=> OwnBody(d)) BY <1>2, <1>6 DEF OwnBody
  <2> HIDE DEF OwnBody
  <2>2. \A x \in replies' : x = z \/ (x \in replies /\ ~(x.client = c /\ x.cid = cid[c]))
    BY <1>2, <1>3
  <2>3. ASSUME NEW d \in Clients, d # c, conn'[d] = "up"
        PROVE  /\ \A x \in wire' : x.client = d /\ x.cid = cid'[d] =>
                     /\ x.req = req'[d] /\ pcC'[d] # "idle"
                     /\ \A w \in replies' : ~(w.client = d /\ w.cid = cid'[d])
               /\ \A x \in replies' : x.client = d /\ x.cid = cid'[d] =>
                     /\ x.req = req'[d] /\ pcC'[d] # "idle"
                     /\ \A w \in replies' : w.client = d /\ w.cid = cid'[d] => x = w
                     /\ x.parts = x.body \/ OwnBody(d)'
    BY <1>2, <1>5, <2>1, <2>2, <2>3 DEF Current, CurrentOf
  <2>4. /\ \A x \in wire' : ~(x.client = c /\ x.cid = cid'[c])
        /\ \A x \in replies' : x.client = c /\ x.cid = cid'[c] => x = z
        /\ z.req = req'[c] /\ pcC'[c] # "idle"
    BY <1>1, <1>2, <1>3, <1>5, <2>2
  <2> QED BY <1>7, <2>3, <2>4 DEF Current, CurrentOf
<1> QED BY <1>8, <1>9, <1>10

\* A response has been read: nothing is left on the connection.
LEMMA DoneKeeps ==
    ASSUME RestTypeOK, Asked, Current, NEW c \in Clients, NEW y \in replies, Done(c, y)
    PROVE  RestTypeOK' /\ Asked' /\ Current'
<1>1. /\ pcC[c] = "loop" /\ conn[c] = "up" /\ y.client = c /\ y.cid = cid[c]
      /\ replies' = replies \ {y} /\ pcC' = [pcC EXCEPT ![c] = "idle"]
      /\ UNCHANGED <<conn, cid, req, queued, wire, sends, errcode, response>>
      /\ UNCHANGED serverVars
  BY DEF Done, Reads
<1>2. /\ \A x \in replies : x.client = c /\ x.cid = cid[c] => x = y
      /\ \A x \in wire : ~(x.client = c /\ x.cid = cid[c])
  BY <1>1 DEF Current, CurrentOf
<1>3. RestTypeOK' BY <1>1 DEF RestTypeOK, TypeOK, serverVars
<1>4. Asked' BY <1>1 DEF Asked, RestTypeOK, TypeOK
<1>5. \A d \in Clients : OwnBody(d)' <=> OwnBody(d) BY <1>1 DEF OwnBody
<1>6. \A d \in Clients : d # c => pcC'[d] = pcC[d] BY <1>1 DEF RestTypeOK, TypeOK
<1> HIDE DEF OwnBody
<1>7. Current' BY <1>1, <1>2, <1>5, <1>6 DEF Current, CurrentOf
<1> QED BY <1>3, <1>4, <1>7

LEMMA BodyOf ==
    ASSUME NEW n \in Nat, NEW o \in {"reply", "parts", "empty", "fail"}
    PROVE  /\ Body(n, o) \in Seq(Nat \X Nat)
           /\ \A k \in 1..Len(Body(n, o)) : Body(n, o)[k][1] = n
<1>1. CASE o = "empty"
  <2>1. Body(n, o) = <<>> BY <1>1 DEF Body
  <2> QED BY <2>1, EmptySeq
<1>2. CASE o = "parts"
  <2>1. Body(n, o) = <<<<n, 1>>, <<n, 2>>>> BY <1>2 DEF Body
  <2> QED BY <2>1
<1>3. CASE o = "reply" \/ o = "fail"
  <2>1. Body(n, o) = <<<<n, 1>>>> BY <1>3 DEF Body
  <2> QED BY <2>1
<1> QED BY <1>1, <1>2, <1>3

LEMMA HandleKeeps ==
    ASSUME AnswersOnce, RestTypeOK, Asked, Current, NEW x \in wire, Handle(x)
    PROVE  RestTypeOK' /\ Asked' /\ Current'
<1>1. PICK o \in Outcomes :
         /\ sends' = [sends EXCEPT ![<<x.client, x.req>>] = @ + (IF o = "both" THEN 2 ELSE 1)]
         /\ replies' = replies \cup {Response(x, o)}
  BY DEF Handle
<1>2. /\ wire' = wire \ {x} /\ UNCHANGED serverVars
      /\ UNCHANGED <<pcC, conn, cid, req, queued, errcode, response>>
  BY DEF Handle, clientVars
<1> DEFINE c == x.client
           n == x.req
           y == Response(x, o)
<1>3. o \in {"reply", "parts", "empty", "fail"} BY RestAssumption DEF AnswersOnce
<1>4. x \in WireSet /\ c \in Clients /\ n \in 1..MaxReq /\ n \in Nat /\ x.cid \in Int
      /\ n <= req[c] /\ x.cid <= cid[c] /\ MaxReq \in Nat
  BY RestAssumption DEF RestTypeOK, WireSet
<1>5. /\ y \in ReplySet /\ y.client = c /\ y.req = n /\ y.cid = x.cid /\ y.parts = y.body
      /\ \A k \in 1..Len(y.parts) : y.parts[k][1] = n
  BY ZenonT(40), <1>3, <1>4, BodyOf DEF Response, ReplySet
<1>6. /\ sends' \in [Clients \X (1..MaxReq) -> Nat] /\ sends'[<<c, n>>] = 1
      /\ \A p \in Clients \X (1..MaxReq) : p # <<c, n>> => sends'[p] = sends[p]
  <2>1. sends[<<c, n>>] = 0 /\ sends \in [Clients \X (1..MaxReq) -> Nat] /\ <<c, n>> \in Clients \X (1..MaxReq)
    BY <1>4 DEF Asked, RestTypeOK
  <2>2. (IF o = "both" THEN 2 ELSE 1) = 1 BY <1>3
  <2>3. sends' = [sends EXCEPT ![<<c, n>>] = sends[<<c, n>>] + 1] BY <1>1, <2>2
  <2> HIDE DEF c, n
  <2>4. sends' = [sends EXCEPT ![<<c, n>>] = 1] BY <2>1, <2>3
  <2> QED BY <2>1, <2>4
<1> HIDE DEF y
<1>7. RestTypeOK'
  <2>1. TypeOK' BY <1>2 DEF RestTypeOK, TypeOK, serverVars
  <2>2. \A z \in wire' \cup replies' : z.req <= req'[z.client] /\ z.cid <= cid'[z.client]
    BY <1>1, <1>2, <1>4, <1>5 DEF RestTypeOK, y
  <2>3. \A z \in replies' : \A k \in 1..Len(z.parts) : z.parts[k][1] = z.req
    BY <1>1, <1>5 DEF RestTypeOK, y
  <2>4. replies' \in SUBSET ReplySet BY <1>1, <1>5 DEF RestTypeOK, y
  <2> QED BY <1>2, <1>6, <2>1, <2>2, <2>3, <2>4 DEF RestTypeOK
<1>8. Asked'
  <2>1. \A z \in wire' : ~(z.client = c /\ z.req = n) BY <1>2 DEF Asked
  <2>2. \A z \in wire' : sends'[<<z.client, z.req>>] = 0
    BY <1>2, <1>6, <2>1 DEF Asked, RestTypeOK, WireSet
  <2>3. \A d \in Clients : queued[d] => req[d] \in 1..MaxReq /\ ~(d = c /\ req[d] = n)
    <3> TAKE d \in Clients
    <3> HAVE queued[d]
    <3>1. cid[d] < req[d] /\ (x.client = d => x.req # req[d]) BY DEF Asked
    <3>2. req[d] \in 0..MaxReq /\ cid[d] \in 0..req[d] BY DEF RestTypeOK, TypeOK
    <3> QED BY <1>4, <3>1, <3>2
  <2>4. \A d \in Clients : queued'[d] =>
           /\ conn'[d] = "down" /\ pcC'[d] # "idle" /\ cid'[d] < req'[d]
           /\ sends'[<<d, req'[d]>>] = 0
           /\ \A z \in wire' : z.client = d => z.req # req'[d]
    BY <1>2, <1>6, <2>3 DEF Asked
  <2>5. \A d \in Clients : \A m \in 1..MaxReq : m > req'[d] => sends'[<<d, m>>] = 0
    <3> TAKE d \in Clients
    <3> TAKE m \in 1..MaxReq
    <3> HAVE m > req'[d]
    <3>1. m > req[d] /\ req[d] \in Int BY <1>2 DEF RestTypeOK, TypeOK
    <3>2. sends[<<d, m>>] = 0 BY <3>1 DEF Asked
    <3>3. ~(d = c /\ m = n) BY <1>4, <3>1
    <3>4. <<d, m>> # <<c, n>> BY <3>3
    <3> QED BY <1>6, <3>2, <3>4
  <2>6. \A p \in Clients \X (1..MaxReq) : sends'[p] <= 1 BY <1>6 DEF Asked
  <2> QED BY <1>2, <2>2, <2>4, <2>5, <2>6 DEF Asked
<1>9. Current'
  <2>1. \A d \in Clients : OwnBody(d)' <=> OwnBody(d) BY <1>2 DEF OwnBody
  <2> HIDE DEF OwnBody
  <2>2. ASSUME NEW d \in Clients, conn[d] = "up", ~(d = c /\ x.cid = cid[d])
        PROVE  /\ \A z \in wire' : z.client = d /\ z.cid = cid[d] =>
                     /\ z.req = req[d] /\ pcC[d] # "idle"
                     /\ \A w \in replies' : ~(w.client = d /\ w.cid = cid[d])
               /\ \A z \in replies' : z.client = d /\ z.cid = cid[d] =>
                     /\ z.req = req[d] /\ pcC[d] # "idle"
                     /\ \A w \in replies' : w.client = d /\ w.cid = cid[d] => z = w
                     /\ z.parts = z.body \/ OwnBody(d)'
    BY <1>1, <1>2, <1>5, <2>1, <2>2 DEF Current, CurrentOf, y
  <2>3. ASSUME NEW d \in Clients, conn[d] = "up", d = c, x.cid = cid[d]
        PROVE  /\ \A z \in wire' : z.client = d /\ z.cid = cid[d] =>
                     /\ z.req = req[d] /\ pcC[d] # "idle"
                     /\ \A w \in replies' : ~(w.client = d /\ w.cid = cid[d])
               /\ \A z \in replies' : z.client = d /\ z.cid = cid[d] =>
                     /\ z.req = req[d] /\ pcC[d] # "idle"
                     /\ \A w \in replies' : w.client = d /\ w.cid = cid[d] => z = w
                     /\ z.parts = z.body \/ OwnBody(d)'
    <3>1. \A z \in replies : ~(z.client = d /\ z.cid = cid[d]) BY <2>3 DEF Current, CurrentOf
    <3>2. n = req[d] /\ pcC[d] # "idle" BY <2>3 DEF Current, CurrentOf
    <3>3. \A z \in wire : z.client = d /\ z.cid = cid[d] => z.req = n BY <2>3, <3>2 DEF Current, CurrentOf
    <3>4. \A z \in wire' : ~(z.client = d /\ z.cid = cid[d]) BY <1>2, <2>3, <3>3 DEF Asked
    <3>5. \A z \in replies' : z.client = d /\ z.cid = cid[d] => z = y BY <1>1, <3>1 DEF y
    <3> QED BY <1>5, <3>2, <3>4, <3>5
  <2> QED BY <1>2, <2>2, <2>3 DEF Current, CurrentOf
<1> QED BY <1>7, <1>8, <1>9

LEMMA RestInductive ==
    AnswersOnce /\ RestTypeOK /\ Asked /\ Current /\ [Next]_vars => RestTypeOK' /\ Asked' /\ Current'
<1> SUFFICES ASSUME AnswersOnce, RestTypeOK, Asked, Current, [Next]_vars
             PROVE  RestTypeOK' /\ Asked' /\ Current'
  OBVIOUS
<1>1. CASE UNCHANGED <<pcC, conn, cid, req, queued, errcode, response, wire, replies, sends>> /\ TypeOK'
  <2>1. RestTypeOK' BY <1>1 DEF RestTypeOK
  <2>2. Asked' BY <1>1 DEF Asked
  <2>3. Current' BY <1>1 DEF Current, CurrentOf, OwnBody
  <2> QED BY <2>1, <2>2, <2>3
<1>2. CASE Server
  <2>1. UNCHANGED <<pcC, conn, cid, req, queued, errcode, response, wire, replies, sends>>
    BY <1>2 DEF Server, Run, Proc, StopBegin, StopAsk, StopJoin, clientVars
  <2>2. /\ is_run' \in BOOLEAN /\ thread' \in {"none", "starting", "serving", "exited"}
        /\ pcS' \in {"idle", "ask", "join"} /\ runs' \in 0..MaxRun
    <3>1. TypeOK BY DEF RestTypeOK
    <3>2. CASE Run
      <4>1. runs' \in 0..MaxRun BY <3>1, <3>2, RestAssumption DEF TypeOK, Run
      <4> QED BY <3>1, <3>2, <4>1 DEF TypeOK, Run
    <3>3. CASE Proc BY <3>1, <3>3 DEF TypeOK, Proc
    <3>4. CASE StopBegin BY <3>1, <3>4 DEF TypeOK, StopBegin
    <3>5. CASE StopAsk BY <3>1, <3>5 DEF TypeOK, StopAsk
    <3>6. CASE StopJoin BY <3>1, <3>6 DEF TypeOK, StopJoin
    <3> QED BY <1>2, <3>2, <3>3, <3>4, <3>5, <3>6 DEF Server
  <2>3. TypeOK' BY <2>1, <2>2 DEF RestTypeOK, TypeOK
  <2> QED BY <1>1, <2>1, <2>3
<1>3. ASSUME NEW x \in wire, Handle(x) PROVE RestTypeOK' /\ Asked' /\ Current'
  BY <1>3, HandleKeeps
<1>4. ASSUME NEW c \in Clients, Client(c) PROVE RestTypeOK' /\ Asked' /\ Current'
  BY <1>4, IdleKeeps, MakeRequestKeeps, EstablishedKeeps, ChunkKeeps, DoneKeeps DEF Client, Idle
<1>5. CASE UNCHANGED vars
  <2>1. TypeOK' BY <1>5 DEF vars, serverVars, clientVars, RestTypeOK, TypeOK
  <2> QED BY <1>1, <1>5, <2>1 DEF vars, clientVars
<1> QED BY <1>2, <1>3, <1>4, <1>5 DEF Next

\* If OnApiGeneral answers once, so does the server, and a client reads the
\* response to its own latest request and no other.
THEOREM RestResponseOwn == AnswersOnce => (Spec => []ResponseOwn)
<1> SUFFICES ASSUME AnswersOnce PROVE Spec => []ResponseOwn
  OBVIOUS
<1>1. RestTypeOK /\ Asked /\ Current => ResponseOwn
  <2> SUFFICES ASSUME RestTypeOK, Asked, Current PROVE ResponseOwn
    OBVIOUS
  <2>1. TypeOK BY DEF RestTypeOK
  <2>2. AnsweredOnce BY DEF AnsweredOnce, Asked, RestTypeOK
  <2>3. ASSUME NEW c \in Clients, NEW y \in replies, Reads(c, y)
        PROVE  /\ y.req = req[c]
               /\ y.parts = <<>> /\ y.body # <<>> =>
                     errcode[c] = req[c] /\ \A k \in DOMAIN response[c] : response[c][k][1] = req[c]
    <3>1. conn[c] = "up" /\ y.client = c /\ y.cid = cid[c] BY <2>3 DEF Reads
    <3>2. y.req = req[c] /\ (y.parts = y.body \/ OwnBody(c)) BY <3>1 DEF Current, CurrentOf
    <3>3. DOMAIN response[c] = 1..Len(response[c]) BY LenProperties DEF RestTypeOK
    <3> QED BY <3>2, <3>3 DEF OwnBody
  <2> QED BY <2>1, <2>2, <2>3 DEF ResponseOwn
<1> QED BY <1>1, RestInitial, RestInductive, PTL DEF Spec

-----------------------------------------------------------------------------
(* Reply.                                                                  *)

ReplySpec == ReplyInit /\ [][ReplyNext]_replyVars

TaskSet == [state : {"INIT", "RECV", "SEND"}, req : Requests \cup {NoMsg},
            aio : {"idle", "recv", "send", "done", "stopped"}, msg : Requests \cup {NoMsg},
            failed : BOOLEAN]

ReplyTypeOK ==
    /\ task \in [Tasks -> TaskSet]
    /\ posted \in Seq(Tasks)
    /\ serving \in SUBSET Tasks
    /\ freed \in [Requests -> 0..1]
    /\ answered \in [Requests -> 0..1]

\* The request a task x is busy with: none after a receive that failed.
LiveOf(x) == IF x.state = "SEND" THEN x.req
             ELSE IF x.state # "RECV" \/ x.failed THEN NoMsg
             ELSE IF x.aio = "done" THEN x.msg
             ELSE IF x.aio = "idle" THEN x.req ELSE NoMsg
Live(t) == LiveOf(task[t])

\* The phases of a task.
PhaseOf(x) ==
    /\ x.state = "INIT" => x.aio = "idle"
    /\ x.state = "RECV" => x.aio \in {"recv", "done", "idle", "stopped"}
    /\ x.state = "SEND" => x.aio \in {"idle", "send", "done"}
    /\ x.state = "SEND" /\ x.aio # "done" => x.msg = x.req
    /\ x.state = "SEND" => LiveOf(x) \in Requests
    /\ x.state = "RECV" /\ x.aio \in {"done", "idle"} /\ ~x.failed => LiveOf(x) \in Requests

\* A task that works on a request has an idle aio and is in one place, the
\* queue or a thread, once.
Working ==
    /\ \A t \in serving : task[t].state \in {"RECV", "SEND"} /\ task[t].aio = "idle"
    /\ \A n \in 1..Len(posted) : /\ task[posted[n]].state = "RECV" /\ task[posted[n]].aio = "idle"
                                 /\ posted[n] \notin serving
    /\ \A m, n \in 1..Len(posted) : posted[m] = posted[n] => m = n

\* A request is with one task from its arrival until it is freed.
Owners ==
    /\ \A t, u \in Tasks : Live(t) # NoMsg /\ Live(t) = Live(u) => t = u
    /\ \A t \in Tasks : Live(t) # NoMsg => freed[Live(t)] = 0
    /\ \A t \in Tasks : Live(t) # NoMsg /\ answered[Live(t)] > 0
                        => task[t].state = "SEND" /\ task[t].aio = "done"
    /\ \A r \in Requests : answered[r] > 0 => freed[r] > 0 \/ \E t \in Tasks : Live(t) = r

ReplyIInv == /\ ReplyTypeOK
             /\ IsFiniteSet(serving)
             /\ \A t \in Tasks : PhaseOf(task[t])
             /\ Working
             /\ Owners

\* A step of one task.
LEMMA TaskStepped ==
    ASSUME ReplyTypeOK, NEW t \in Tasks, NEW y \in TaskSet, task' = [task EXCEPT ![t] = y]
    PROVE  /\ task' \in [Tasks -> TaskSet]
           /\ task'[t] = y
           /\ \A u \in Tasks : u # t => task'[u] = task[u]
BY DEF ReplyTypeOK

\* A step of one task after which it is busy with the same request.
LEMMA OwnersKept ==
    ASSUME ReplyIInv, NEW t \in Tasks, NEW y \in TaskSet, task' = [task EXCEPT ![t] = y],
           UNCHANGED <<freed, answered>>, LiveOf(y) = Live(t),
           task[t].state = "SEND" /\ task[t].aio = "done" => LiveOf(y) = NoMsg
    PROVE  Owners'
<1>1. task'[t] = y /\ \A u \in Tasks : u # t => task'[u] = task[u]
  BY TaskStepped DEF ReplyIInv
<1>2. \A u \in Tasks : Live(u)' = Live(u) BY <1>1 DEF Live
<1>3. Owners BY DEF ReplyIInv
<1> HIDE DEF Live
<1>4. \A u \in Tasks : Live(u)' # NoMsg /\ answered'[Live(u)'] > 0
                       => task'[u].state = "SEND" /\ task'[u].aio = "done"
  <2> TAKE u \in Tasks
  <2>1. CASE u = t BY <1>2, <1>3, <2>1 DEF Owners
  <2>2. CASE u # t BY <1>1, <1>2, <1>3, <2>2 DEF Owners
  <2> QED BY <2>1, <2>2
<1>5. \A u, v \in Tasks : Live(u)' # NoMsg /\ Live(u)' = Live(v)' => u = v BY <1>2, <1>3 DEF Owners
<1>6. \A u \in Tasks : Live(u)' # NoMsg => freed'[Live(u)'] = 0 BY <1>2, <1>3 DEF Owners
<1>7. \A r \in Requests : answered'[r] > 0 => freed'[r] > 0 \/ \E u \in Tasks : Live(u)' = r
  BY <1>2, <1>3 DEF Owners
<1> QED BY <1>4, <1>5, <1>6, <1>7 DEF Owners

LEMMA ReplyInitial == ReplyInit => ReplyIInv
<1> SUFFICES ASSUME ReplyInit PROVE ReplyIInv
  OBVIOUS
<1> USE DEF ReplyInit
<1>1. NewTask \in TaskSet BY DEF NewTask, TaskSet
<1>2. ReplyTypeOK BY <1>1, EmptySeq DEF ReplyTypeOK
<1>3. \A t \in Tasks : task[t] = NewTask /\ Live(t) = NoMsg BY DEF Live, LiveOf, NewTask
<1>4. \A t \in Tasks : PhaseOf(task[t]) BY <1>3 DEF PhaseOf, NewTask
<1>5. Working BY <1>3, EmptySeq DEF Working, NewTask
<1>6. Owners BY <1>3 DEF Owners
<1>7. IsFiniteSet(serving) BY FS_EmptySet
<1> QED BY <1>2, <1>4, <1>5, <1>6, <1>7 DEF ReplyIInv

LEMMA StartKeeps ==
    ASSUME ReplyIInv, NEW t \in Tasks, Start(t)
    PROVE  ReplyIInv'
<1> DEFINE y == Receiving(task[t])
<1>1. task[t] \in TaskSet /\ task[t].state = "INIT" /\ UNCHANGED <<posted, serving, freed, answered>>
      /\ task' = [task EXCEPT ![t] = y]
  BY DEF Start, ReplyIInv, ReplyTypeOK
<1>2. y \in TaskSet /\ y.state = "RECV" /\ y.aio = "recv" BY <1>1 DEF TaskSet, Receiving
<1> HIDE DEF y
<1>3. task' \in [Tasks -> TaskSet] /\ task'[t] = y /\ \A u \in Tasks : u # t => task'[u] = task[u]
  BY <1>1, <1>2, TaskStepped DEF ReplyIInv
<1>4. LiveOf(y) = Live(t) /\ LiveOf(y) = NoMsg BY <1>1, <1>2 DEF Live, LiveOf
<1>5. Owners' BY <1>1, <1>2, <1>4, OwnersKept
<1>6. PhaseOf(y) BY <1>2 DEF PhaseOf
<1>7. t \notin serving /\ \A n \in 1..Len(posted) : posted[n] # t
  BY <1>1 DEF ReplyIInv, Working
<1>8. \A n \in 1..Len(posted) : posted[n] \in Tasks BY DEF ReplyIInv, ReplyTypeOK
<1>9. Working' BY <1>1, <1>3, <1>7, <1>8 DEF ReplyIInv, ReplyTypeOK, Working
<1> QED BY <1>1, <1>3, <1>5, <1>6, <1>9 DEF ReplyIInv, ReplyTypeOK

\* A task whose operation ends with an error is busy with what it was.
LEMMA FailKeeps ==
    ASSUME ReplyIInv, NEW t \in Tasks, task[t].aio \in {"recv", "send"},
           task' = [task EXCEPT ![t].aio = "done", ![t].failed = TRUE],
           UNCHANGED <<posted, serving, freed, answered>>
    PROVE  ReplyIInv'
<1> DEFINE y == [task[t] EXCEPT !.aio = "done", !.failed = TRUE]
<1>1. /\ task[t] \in TaskSet /\ task' = [task EXCEPT ![t] = y]
      /\ \/ task[t].aio = "recv" /\ task[t].state = "RECV"
         \/ task[t].aio = "send" /\ task[t].state = "SEND"
  BY DEF ReplyIInv, ReplyTypeOK, PhaseOf, TaskSet
<1>2. /\ y \in TaskSet /\ y.aio = "done" /\ y.failed = TRUE
      /\ y.state = task[t].state /\ y.req = task[t].req
  BY <1>1 DEF TaskSet
<1> HIDE DEF y
<1>3. task' \in [Tasks -> TaskSet] /\ task'[t] = y /\ \A u \in Tasks : u # t => task'[u] = task[u]
  BY <1>1, <1>2, TaskStepped DEF ReplyIInv
<1>4. LiveOf(y) = Live(t) BY <1>1, <1>2 DEF Live, LiveOf
<1>5. Owners' BY <1>1, <1>2, <1>4, OwnersKept
<1>6. PhaseOf(y) BY <1>1, <1>2, <1>4 DEF ReplyIInv, PhaseOf, Live
<1>7. t \notin serving /\ \A n \in 1..Len(posted) : posted[n] # t /\ posted[n] \in Tasks
  BY <1>1 DEF ReplyIInv, ReplyTypeOK, Working
<1>8. Working' BY <1>3, <1>7 DEF ReplyIInv, ReplyTypeOK, Working
<1> QED BY <1>3, <1>5, <1>6, <1>8 DEF ReplyIInv, ReplyTypeOK

\* A step that leaves the tasks, the requests and their places alone.
LEMMA ReplyStutters ==
    ReplyIInv /\ UNCHANGED <<task, posted, serving, freed, answered>> => ReplyIInv'
<1> SUFFICES ASSUME ReplyIInv, UNCHANGED <<task, posted, serving, freed, answered>>
             PROVE  ReplyIInv'
  OBVIOUS
<1>1. \A t \in Tasks : Live(t)' = Live(t) BY DEF Live
<1> QED BY <1>1 DEF ReplyIInv, ReplyTypeOK, Working, Owners

LEMMA StopKeeps ==
    ASSUME ReplyIInv, NEW t \in Tasks, Stop(t)
    PROVE  ReplyIInv'
<1>1. task \in [Tasks -> TaskSet] /\ UNCHANGED <<posted, serving, freed, answered>>
  BY DEF Stop, ReplyIInv, ReplyTypeOK
<1>2. CASE task[t].aio \in {"recv", "send"}
  <2>1. task' = [task EXCEPT ![t].aio = "done", ![t].failed = TRUE] BY <1>1, <1>2 DEF Stop
  <2> QED BY <1>1, <1>2, <2>1, FailKeeps
<1>3. CASE task[t].aio \notin {"recv", "send"}
  <2>1. task' = task BY <1>1, <1>3 DEF Stop
  <2> QED BY <1>1, <2>1, ReplyStutters
<1> QED BY <1>2, <1>3

LEMMA ReceiveFails ==
    ASSUME ReplyIInv, NEW t \in Tasks, Receive(t, NoMsg)
    PROVE  ReplyIInv'
<1>1. task \in [Tasks -> TaskSet] /\ UNCHANGED <<posted, serving, freed, answered>>
      /\ task[t].aio = "recv"
  BY DEF Receive, ReplyIInv, ReplyTypeOK
<1>2. task' = [task EXCEPT ![t].aio = "done", ![t].failed = TRUE]
  BY <1>1 DEF Receive, TaskSet
<1> QED BY <1>1, <1>2, FailKeeps

LEMMA ReceiveKeeps ==
    ASSUME ReplyIInv, NEW t \in Tasks, NEW r \in Requests, Receive(t, r)
    PROVE  ReplyIInv'
<1> DEFINE y == [task[t] EXCEPT !.aio = "done", !.failed = FALSE, !.msg = r]
<1>0. r # NoMsg BY ReplyAssumption
<1>1. /\ task[t] \in TaskSet /\ task[t].aio = "recv" /\ task[t].state = "RECV"
      /\ UNCHANGED <<posted, serving, freed, answered>>
  BY DEF Receive, ReplyIInv, ReplyTypeOK, PhaseOf, TaskSet
<1>2. task' = [task EXCEPT ![t] = y]
  BY <1>0 DEF Receive, ReplyIInv, ReplyTypeOK
<1>3. y \in TaskSet /\ y.state = "RECV" /\ y.aio = "done" /\ y.msg = r /\ y.failed = FALSE
  BY <1>1 DEF TaskSet
<1> HIDE DEF y
<1>4. task' \in [Tasks -> TaskSet] /\ task'[t] = y /\ \A u \in Tasks : u # t => task'[u] = task[u]
  BY <1>2, <1>3, TaskStepped DEF ReplyIInv
<1>5. Live(t)' = r /\ LiveOf(y) = r BY <1>3, <1>4 DEF Live, LiveOf
<1>6. \A u \in Tasks : u # t => Live(u)' = Live(u) BY <1>4 DEF Live
<1>7. /\ \A u \in Tasks : Live(u) # r
      /\ freed[r] = 0 /\ answered[r] = 0
  <2>1. r \notin Arrived BY <1>0 DEF Receive
  <2>2. freed[r] = 0 BY <2>1 DEF Arrived, ReplyIInv, ReplyTypeOK
  <2>3. \A u \in Tasks : task[u].msg # r /\ task[u].req # r BY <2>1 DEF Arrived
  <2>4. \A u \in Tasks : Live(u) # r BY <1>0, <2>3 DEF Live, LiveOf
  <2> QED BY <2>2, <2>4 DEF ReplyIInv, Owners, ReplyTypeOK
<1>8. Live(t) = NoMsg BY <1>1 DEF Live, LiveOf
<1> HIDE DEF Live
<1>9. Owners'
  <2>1. Owners BY DEF ReplyIInv
  <2>2. \A u, v \in Tasks : Live(u)' # NoMsg /\ Live(u)' = Live(v)' => u = v
    BY <1>5, <1>6, <1>7, <2>1 DEF Owners
  <2>3. \A u \in Tasks : Live(u)' # NoMsg => freed'[Live(u)'] = 0
    BY <1>1, <1>5, <1>6, <1>7, <2>1 DEF Owners
  <2>4. \A u \in Tasks : Live(u)' # NoMsg /\ answered'[Live(u)'] > 0
                         => task'[u].state = "SEND" /\ task'[u].aio = "done"
    BY <1>1, <1>4, <1>5, <1>6, <1>7, <2>1 DEF Owners
  <2>5. \A q \in Requests : answered'[q] > 0 => freed'[q] > 0 \/ \E u \in Tasks : Live(u)' = q
    BY <1>1, <1>6, <1>8, <2>1, ReplyAssumption DEF Owners
  <2> QED BY <2>2, <2>3, <2>4, <2>5 DEF Owners
<1>10. PhaseOf(y) BY <1>3, <1>5 DEF PhaseOf
<1>11. t \notin serving /\ \A n \in 1..Len(posted) : posted[n] # t
  BY <1>1 DEF ReplyIInv, Working
<1>12. \A n \in 1..Len(posted) : posted[n] \in Tasks BY DEF ReplyIInv, ReplyTypeOK
<1>13. Working' BY <1>1, <1>4, <1>11, <1>12 DEF ReplyIInv, ReplyTypeOK, Working
<1> QED BY <1>1, <1>4, <1>9, <1>10, <1>13 DEF ReplyIInv, ReplyTypeOK

LEMMA ReceivedKeeps ==
    ASSUME ReplyIInv, NEW t \in Tasks, EventReceived(t)
    PROVE  ReplyIInv'
<1> DEFINE y == [task[t] EXCEPT !.req = task[t].msg, !.aio = "idle"]
<1>1. /\ task[t] \in TaskSet /\ task[t].aio = "done" /\ task[t].state = "RECV"
      /\ UNCHANGED <<freed, answered>>
  BY DEF EventReceived, Completed, ReplyIInv, ReplyTypeOK
<1>2. task' = [task EXCEPT ![t] = y] BY DEF EventReceived, ReplyIInv, ReplyTypeOK
<1>3. /\ y \in TaskSet /\ y.state = "RECV" /\ y.aio = "idle" /\ y.req = task[t].msg
      /\ y.failed = task[t].failed
  BY <1>1 DEF TaskSet
<1> HIDE DEF y
<1>4. task' \in [Tasks -> TaskSet] /\ task'[t] = y /\ \A u \in Tasks : u # t => task'[u] = task[u]
  BY <1>2, <1>3, TaskStepped DEF ReplyIInv
<1>5. LiveOf(y) = Live(t) BY <1>1, <1>3 DEF Live, LiveOf
<1>6. Owners' BY <1>1, <1>2, <1>3, <1>5, OwnersKept
<1>7. PhaseOf(y) BY <1>1, <1>3, <1>5 DEF ReplyIInv, PhaseOf, Live
<1>8. t \notin serving /\ \A n \in 1..Len(posted) : posted[n] # t
  BY <1>1 DEF ReplyIInv, Working
<1>9. posted \in Seq(Tasks) /\ \A n \in 1..Len(posted) : posted[n] \in Tasks
  BY DEF ReplyIInv, ReplyTypeOK
<1>10. CASE posted' = Append(posted, t) /\ UNCHANGED serving
  <2>1. /\ posted' \in Seq(Tasks) /\ Len(posted') = Len(posted) + 1 /\ Len(posted) \in Nat
        /\ \A n \in 1..Len(posted) : posted'[n] = posted[n]
        /\ posted'[Len(posted) + 1] = t
    BY <1>9, <1>10, AppendProperties, LenProperties
  <2>2. \A n \in 1..Len(posted') : n = Len(posted) + 1 \/ n \in 1..Len(posted) BY <2>1
  <2>3. Working'
    <3>1. \A u \in serving' : task'[u].state \in {"RECV", "SEND"} /\ task'[u].aio = "idle"
      BY <1>4, <1>8, <1>10 DEF ReplyIInv, ReplyTypeOK, Working
    <3>2. \A n \in 1..Len(posted') :
             /\ task'[posted'[n]].state = "RECV" /\ task'[posted'[n]].aio = "idle"
             /\ posted'[n] \notin serving'
      BY <1>3, <1>4, <1>8, <1>9, <1>10, <2>1, <2>2 DEF ReplyIInv, Working
    <3>3. \A m, n \in 1..Len(posted') : posted'[m] = posted'[n] => m = n
      BY <1>8, <2>1, <2>2 DEF ReplyIInv, Working
    <3> QED BY <3>1, <3>2, <3>3 DEF Working
  <2> QED BY <1>1, <1>4, <1>6, <1>7, <1>10, <2>1, <2>3 DEF ReplyIInv, ReplyTypeOK
<1>11. CASE serving' = serving \cup {t} /\ UNCHANGED posted
  <2>1. IsFiniteSet(serving') BY <1>11, FS_AddElement DEF ReplyIInv
  <2>2. Working' BY <1>3, <1>4, <1>8, <1>9, <1>11 DEF ReplyIInv, ReplyTypeOK, Working
  <2> QED BY <1>1, <1>4, <1>6, <1>7, <1>11, <2>1, <2>2 DEF ReplyIInv, ReplyTypeOK
<1> QED BY <1>10, <1>11 DEF EventReceived

LEMMA DoRequestKeeps == ReplyIInv /\ DoRequest => ReplyIInv'
<1> SUFFICES ASSUME ReplyIInv, DoRequest PROVE ReplyIInv'
  OBVIOUS
<1>1. /\ posted # <<>> /\ serving' = serving \cup {Head(posted)} /\ posted' = Tail(posted)
      /\ UNCHANGED <<task, freed, answered>>
  BY DEF DoRequest
<1>2. posted \in Seq(Tasks) BY DEF ReplyIInv, ReplyTypeOK
<1>3. /\ Head(posted) = posted[1] /\ Head(posted) \in Tasks
      /\ posted' \in Seq(Tasks) /\ Len(posted') = Len(posted) - 1 /\ Len(posted) \in Nat \ {0}
      /\ \A n \in 1..Len(posted') : posted'[n] = posted[n + 1]
  BY <1>1, <1>2, HeadTailProperties, EmptySeq
<1>4. 1 \in 1..Len(posted) /\ \A n \in 1..Len(posted') : n + 1 \in 1..Len(posted) /\ n + 1 # 1
  BY <1>3
<1>5. IsFiniteSet(serving') BY <1>1, FS_AddElement DEF ReplyIInv
<1>6. Working'
  <2>1. \A u \in serving' : task'[u].state \in {"RECV", "SEND"} /\ task'[u].aio = "idle"
    BY <1>1, <1>3, <1>4 DEF ReplyIInv, Working
  <2>2. \A n \in 1..Len(posted') :
           /\ task'[posted'[n]].state = "RECV" /\ task'[posted'[n]].aio = "idle"
           /\ posted'[n] \notin serving'
    BY <1>1, <1>3, <1>4 DEF ReplyIInv, Working
  <2>3. ASSUME NEW m \in 1..Len(posted'), NEW n \in 1..Len(posted'), posted'[m] = posted'[n]
        PROVE  m = n
    <3>1. m + 1 = n + 1 BY <1>3, <1>4, <2>3 DEF ReplyIInv, Working
    <3> QED BY <3>1
  <2> QED BY <2>1, <2>2, <2>3 DEF Working
<1>7. Owners'
  <2>1. \A u \in Tasks : Live(u)' = Live(u) BY <1>1 DEF Live
  <2> QED BY <1>1, <2>1 DEF ReplyIInv, Owners
<1> QED BY <1>1, <1>3, <1>5, <1>6, <1>7 DEF ReplyIInv, ReplyTypeOK

LEMMA SetSendKeeps ==
    ASSUME ReplyIInv, NEW t \in Tasks, SetSend(t)
    PROVE  ReplyIInv'
<1> DEFINE y == [task[t] EXCEPT !.state = "SEND", !.msg = task[t].req]
<1>1. /\ task[t] \in TaskSet /\ t \in serving /\ task[t].state = "RECV" /\ task[t].aio = "idle"
      /\ ~task[t].failed /\ UNCHANGED <<posted, serving, freed, answered>>
  BY DEF SetSend, Sound, ReplyIInv, ReplyTypeOK, Working
<1>2. task' = [task EXCEPT ![t] = y] BY DEF SetSend, ReplyIInv, ReplyTypeOK
<1>3. y \in TaskSet /\ y.state = "SEND" /\ y.aio = "idle" /\ y.req = task[t].req /\ y.msg = y.req
  BY <1>1 DEF TaskSet
<1> HIDE DEF y
<1>4. task' \in [Tasks -> TaskSet] /\ task'[t] = y /\ \A u \in Tasks : u # t => task'[u] = task[u]
  BY <1>2, <1>3, TaskStepped DEF ReplyIInv
<1>5. LiveOf(y) = Live(t) BY <1>1, <1>3 DEF Live, LiveOf
<1>6. Owners' BY <1>1, <1>2, <1>3, <1>5, OwnersKept
<1>7. PhaseOf(y) BY <1>1, <1>3, <1>5 DEF ReplyIInv, PhaseOf, Live
<1>8. \A n \in 1..Len(posted) : posted[n] # t /\ posted[n] \in Tasks
  BY <1>1 DEF ReplyIInv, ReplyTypeOK, Working
<1>9. Working' BY <1>1, <1>3, <1>4, <1>8 DEF ReplyIInv, ReplyTypeOK, Working
<1> QED BY <1>1, <1>4, <1>6, <1>7, <1>9 DEF ReplyIInv, ReplyTypeOK

LEMMA SendAioKeeps ==
    ASSUME ReplyIInv, NEW t \in Tasks, SendAio(t)
    PROVE  ReplyIInv'
<1> DEFINE y == [task[t] EXCEPT !.aio = "send"]
<1>1. /\ task[t] \in TaskSet /\ t \in serving /\ task[t].state = "SEND" /\ task[t].aio = "idle"
      /\ task[t].msg = task[t].req
      /\ serving' = serving \ {t} /\ UNCHANGED <<posted, freed, answered>>
  BY DEF SendAio, ReplyIInv, ReplyTypeOK, Working, PhaseOf
<1>2. task' = [task EXCEPT ![t] = y] BY DEF SendAio, ReplyIInv, ReplyTypeOK
<1>3. y \in TaskSet /\ y.state = "SEND" /\ y.aio = "send" /\ y.req = task[t].req /\ y.msg = y.req
  BY <1>1 DEF TaskSet
<1> HIDE DEF y
<1>4. task' \in [Tasks -> TaskSet] /\ task'[t] = y /\ \A u \in Tasks : u # t => task'[u] = task[u]
  BY <1>2, <1>3, TaskStepped DEF ReplyIInv
<1>5. LiveOf(y) = Live(t) BY <1>1, <1>3 DEF Live, LiveOf
<1>6. Owners' BY <1>1, <1>2, <1>3, <1>5, OwnersKept
<1>7. PhaseOf(y) BY <1>1, <1>3, <1>5 DEF ReplyIInv, PhaseOf, Live
<1>8. \A n \in 1..Len(posted) : posted[n] # t /\ posted[n] \in Tasks
  BY <1>1 DEF ReplyIInv, ReplyTypeOK, Working
<1>9. Working' BY <1>1, <1>4, <1>8 DEF ReplyIInv, ReplyTypeOK, Working
<1>10. IsFiniteSet(serving') BY <1>1, FS_RemoveElement DEF ReplyIInv
<1> QED BY <1>1, <1>4, <1>6, <1>7, <1>9, <1>10 DEF ReplyIInv, ReplyTypeOK

LEMMA SentKeeps ==
    ASSUME ReplyIInv, NEW t \in Tasks, Sent(t)
    PROVE  ReplyIInv'
<1> DEFINE r == task[t].req
<1>1. /\ task[t] \in TaskSet /\ task[t].state = "SEND" /\ task[t].aio = "send"
      /\ task[t].msg = r /\ Live(t) = r /\ r \in Requests
      /\ UNCHANGED <<posted, serving, freed>>
  BY DEF Sent, ReplyIInv, ReplyTypeOK, PhaseOf, TaskSet, Live, LiveOf
<1>2. t \notin serving /\ \A n \in 1..Len(posted) : posted[n] # t /\ posted[n] \in Tasks
  BY <1>1 DEF ReplyIInv, ReplyTypeOK, Working
<1>3. ASSUME NEW y \in TaskSet, task' = [task EXCEPT ![t] = y], y.state = "SEND", y.aio = "done",
             y.req = r
      PROVE  /\ task' \in [Tasks -> TaskSet] /\ PhaseOf(task'[t]) /\ task'[t] = y
             /\ \A u \in Tasks : u # t => task'[u] = task[u]
             /\ \A u \in Tasks : Live(u)' = Live(u)
             /\ Working'
  <2>1. task' \in [Tasks -> TaskSet] /\ task'[t] = y /\ \A u \in Tasks : u # t => task'[u] = task[u]
    BY <1>3, TaskStepped DEF ReplyIInv
  <2>2. LiveOf(y) = Live(t) BY <1>1, <1>3 DEF LiveOf
  <2>3. \A u \in Tasks : Live(u)' = Live(u) BY <2>1, <2>2 DEF Live
  <2>4. PhaseOf(y) BY <1>1, <1>3, <2>2 DEF PhaseOf
  <2>5. Working'
    <3>1. \A u \in serving' : task'[u] = task[u] /\ u \in serving
      BY <1>1, <1>2, <2>1 DEF ReplyIInv, ReplyTypeOK
    <3>2. \A n \in 1..Len(posted) : task'[posted[n]] = task[posted[n]] BY <1>2, <2>1
    <3> QED BY <1>1, <3>1, <3>2 DEF ReplyIInv, Working
  <2> QED BY <2>1, <2>3, <2>4, <2>5
<1> DEFINE ok == [task[t] EXCEPT !.aio = "done", !.msg = NoMsg]
           ko == [task[t] EXCEPT !.aio = "done", !.failed = TRUE]
<1>4. CASE answered' = [answered EXCEPT ![r] = @ + 1] /\ task' = [task EXCEPT ![t] = ok]
  <2>1. ok \in TaskSet /\ ok.state = "SEND" /\ ok.aio = "done" /\ ok.req = r BY <1>1 DEF TaskSet
  <2> HIDE DEF ok, r
  <2>2. /\ task' \in [Tasks -> TaskSet] /\ PhaseOf(task'[t]) /\ task'[t] = ok
        /\ \A u \in Tasks : u # t => task'[u] = task[u]
        /\ \A u \in Tasks : Live(u)' = Live(u)
        /\ Working'
    BY <1>3, <1>4, <2>1
  <2> HIDE DEF Live
  <2>3. answered \in [Requests -> 0..1] /\ answered[r] = 0
    BY <1>1, ReplyAssumption DEF ReplyIInv, ReplyTypeOK, Owners
  <2>4. answered' \in [Requests -> 0..1] /\ \A q \in Requests : q # r => answered'[q] = answered[q]
    BY <1>1, <1>4, <2>3
  <2>5. Owners'
    <3>1. Owners BY DEF ReplyIInv
    <3>2. \A u \in Tasks : Live(u)' # NoMsg /\ answered'[Live(u)'] > 0
                           => task'[u].state = "SEND" /\ task'[u].aio = "done"
      <4> TAKE u \in Tasks
      <4>1. CASE u = t BY <2>1, <2>2, <4>1
      <4>2. CASE u # t /\ Live(u) # NoMsg
        <5>1. Live(u) # r /\ Live(u) \in Requests
          BY <1>1, <3>1, <4>2, ReplyAssumption DEF Owners, Live, LiveOf, ReplyIInv, ReplyTypeOK, TaskSet
        <5>2. answered'[Live(u)] = answered[Live(u)] BY <2>4, <5>1
        <5> QED BY <2>2, <3>1, <4>2, <5>2 DEF Owners
      <4> QED BY <2>2, <4>1, <4>2
    <3>3. \A q \in Requests : answered'[q] > 0 => freed'[q] > 0 \/ \E u \in Tasks : Live(u)' = q
      <4> TAKE q \in Requests
      <4>1. CASE q = r BY <1>1, <2>2, <4>1
      <4>2. CASE q # r BY <1>1, <2>2, <2>4, <3>1, <4>2 DEF Owners
      <4> QED BY <4>1, <4>2
    <3> QED BY <1>1, <2>2, <3>1, <3>2, <3>3 DEF Owners
  <2>6. \A u \in Tasks : PhaseOf(task'[u]) BY <2>2 DEF ReplyIInv
  <2> QED BY <1>1, <2>2, <2>4, <2>5, <2>6 DEF ReplyIInv, ReplyTypeOK
<1>5. CASE UNCHANGED answered /\ task' = [task EXCEPT ![t] = ko]
  <2>1. ko \in TaskSet /\ ko.state = "SEND" /\ ko.aio = "done" /\ ko.req = r BY <1>1 DEF TaskSet
  <2> HIDE DEF ko, r
  <2>2. /\ task' \in [Tasks -> TaskSet] /\ PhaseOf(task'[t])
        /\ \A u \in Tasks : u # t => task'[u] = task[u]
        /\ Working'
    BY <1>3, <1>5, <2>1
  <2>3. LiveOf(ko) = Live(t) BY <1>1, <2>1 DEF LiveOf
  <2>4. Owners' BY <1>1, <1>5, <2>1, <2>3, OwnersKept
  <2>5. \A u \in Tasks : PhaseOf(task'[u]) BY <2>2 DEF ReplyIInv
  <2> QED BY <1>1, <1>5, <2>2, <2>4, <2>5 DEF ReplyIInv, ReplyTypeOK
<1>6. \/ answered' = [answered EXCEPT ![r] = @ + 1] /\ task' = [task EXCEPT ![t] = ok]
      \/ UNCHANGED answered /\ task' = [task EXCEPT ![t] = ko]
  BY <1>1 DEF Sent, ReplyIInv, ReplyTypeOK
<1> QED BY <1>4, <1>5, <1>6

LEMMA EventSentKeeps ==
    ASSUME ReplyIInv, NEW t \in Tasks, EventSent(t)
    PROVE  ReplyIInv'
<1> DEFINE r == task[t].req
           y == ReceivesAgain(t)
<1>1. /\ task[t] \in TaskSet /\ task[t].state = "SEND" /\ task[t].aio = "done"
      /\ Live(t) = r /\ r \in Requests
      /\ freed' = [freed EXCEPT ![r] = @ + 1]
      /\ task' = [task EXCEPT ![t] = y]
      /\ UNCHANGED <<posted, serving, answered>>
  BY DEF EventSent, Completed, ReplyIInv, ReplyTypeOK, PhaseOf, TaskSet, Live, LiveOf
<1>2. y \in TaskSet /\ y.state = "RECV" /\ y.aio \in {"recv", "stopped"}
  BY <1>1 DEF TaskSet, Receiving, ReceivesAgain
<1> HIDE DEF y, r
<1>3. task' \in [Tasks -> TaskSet] /\ task'[t] = y /\ \A u \in Tasks : u # t => task'[u] = task[u]
  BY <1>1, <1>2, TaskStepped DEF ReplyIInv
<1>4. Live(t)' = NoMsg /\ \A u \in Tasks : u # t => Live(u)' = Live(u)
  BY <1>2, <1>3 DEF Live, LiveOf
<1>5. freed \in [Requests -> 0..1] /\ freed[r] = 0
  BY <1>1, ReplyAssumption DEF ReplyIInv, ReplyTypeOK, Owners
<1>6. freed' \in [Requests -> 0..1] /\ freed'[r] = 1 /\ \A q \in Requests : q # r => freed'[q] = freed[q]
  BY <1>1, <1>5
<1>7. PhaseOf(y) BY <1>2 DEF PhaseOf
<1>8. t \notin serving /\ \A n \in 1..Len(posted) : posted[n] # t /\ posted[n] \in Tasks
  BY <1>1 DEF ReplyIInv, ReplyTypeOK, Working
<1>9. Working' BY <1>1, <1>3, <1>8 DEF ReplyIInv, ReplyTypeOK, Working
<1>10. Owners'
  <2>1. Owners BY DEF ReplyIInv
  <2>2. \A u \in Tasks : u # t /\ Live(u) # NoMsg => Live(u) # r /\ Live(u) \in Requests
    BY <1>1, <2>1, ReplyAssumption DEF Owners, Live, LiveOf, ReplyIInv, ReplyTypeOK, TaskSet
  <2> HIDE DEF Live
  <2>3. \A u, v \in Tasks : Live(u)' # NoMsg /\ Live(u)' = Live(v)' => u = v
    BY <1>4, <2>1 DEF Owners
  <2>4. \A u \in Tasks : Live(u)' # NoMsg => freed'[Live(u)'] = 0
    BY <1>4, <1>6, <2>1, <2>2 DEF Owners
  <2>5. \A u \in Tasks : Live(u)' # NoMsg /\ answered'[Live(u)'] > 0
                         => task'[u].state = "SEND" /\ task'[u].aio = "done"
    BY <1>1, <1>3, <1>4, <2>1 DEF Owners
  <2>6. \A q \in Requests : answered'[q] > 0 => freed'[q] > 0 \/ \E u \in Tasks : Live(u)' = q
    <3> TAKE q \in Requests
    <3>1. CASE q = r BY <1>6, <3>1
    <3>2. CASE q # r BY <1>1, <1>4, <1>6, <2>1, <3>2 DEF Owners
    <3> QED BY <3>1, <3>2
  <2> QED BY <2>3, <2>4, <2>5, <2>6 DEF Owners
<1>11. \A u \in Tasks : PhaseOf(task'[u]) BY <1>3, <1>7 DEF ReplyIInv
<1> QED BY <1>1, <1>3, <1>6, <1>9, <1>10, <1>11 DEF ReplyIInv, ReplyTypeOK

LEMMA ReplyInductive == ReplyIInv /\ [ReplyNext]_replyVars => ReplyIInv'
<1> SUFFICES ASSUME ReplyIInv, [ReplyNext]_replyVars PROVE ReplyIInv'
  OBVIOUS
<1>1. ASSUME NEW t \in Tasks, TaskStep(t) PROVE ReplyIInv'
  <2>1. CASE Breaks(t) BY <2>1, ReplyStutters DEF Breaks
  <2> QED
    BY <1>1, <2>1, StartKeeps, ReceivedKeeps, SetSendKeeps, SendAioKeeps, SentKeeps, EventSentKeeps
       DEF TaskStep
<1>2. ASSUME NEW t \in Tasks, NEW r \in Requests \cup {NoMsg}, Receive(t, r) PROVE ReplyIInv'
  BY <1>2, ReceiveKeeps, ReceiveFails
<1>3. CASE UNCHANGED replyVars
  BY <1>3, ReplyStutters DEF replyVars
<1> QED BY <1>1, <1>2, <1>3, DoRequestKeeps, StopKeeps DEF ReplyNext

\* The threads that work on requests, counted.
LEMMA WorkingCounted ==
    ASSUME ReplyIInv
    PROVE  Cardinality(serving \cup ToSet(posted)) = Cardinality(serving) + Len(posted)
<1> DEFINE P == ToSet(posted)
<1>1. posted \in [1..Len(posted) -> Tasks] /\ Len(posted) \in Nat
  BY LenProperties DEF ReplyIInv, ReplyTypeOK
<1>2. P = {posted[n] : n \in 1..Len(posted)} BY <1>1 DEF ToSet
<1>3. posted \in Bijection(1..Len(posted), P)
  BY <1>1, <1>2 DEF Bijection, Injection, Surjection, IsInjective, ReplyIInv, Working
<1>4. IsFiniteSet(1..Len(posted)) /\ Cardinality(1..Len(posted)) = Len(posted)
  <2> DEFINE l == Len(posted)
  <2>1. 1 \in Int /\ l \in Int /\ (1 > l => l = 0) /\ l - 1 + 1 = l BY <1>1
  <2> HIDE DEF l
  <2>2. IsFiniteSet(1..l) /\ Cardinality(1..l) = l BY <2>1, FS_Interval
  <2> QED BY <2>2 DEF l
<1>5. IsFiniteSet(P) /\ Cardinality(P) = Len(posted)
  BY <1>3, <1>4, FS_Bijection DEF ExistsBijection
<1>6. serving \cap P = {} BY <1>2 DEF ReplyIInv, Working
<1>7. IsFiniteSet(serving) /\ Cardinality(serving) \in Nat BY FS_CardinalityType DEF ReplyIInv
<1> HIDE DEF P
<1>8. Cardinality(serving \cup P) = Cardinality(serving) + Cardinality(P) - Cardinality(serving \cap P)
  BY <1>5, <1>7, FS_Union
<1>9. Cardinality(serving \cap P) = 0 BY <1>6, FS_EmptySet
<1>10. Cardinality(serving \cup P) = Cardinality(serving) + Len(posted)
  BY <1>1, <1>5, <1>7, <1>8, <1>9
<1> QED BY <1>10 DEF P

\* Whatever receives and sends fail and whatever tasks are destroyed: a request
\* that was received is with one thread at a time, and is answered and freed
\* once.
THEOREM ReplyRequestOnce == ReplySpec => []RequestOnce
<1>1. ReplyIInv => RequestOnce
  <2> SUFFICES ASSUME ReplyIInv PROVE RequestOnce
    OBVIOUS
  <2> DEFINE all == serving \cup ToSet(posted)
             working == {t \in all : ~task[t].failed}
  <2>1. \A t \in all : t \in Tasks /\ task[t].aio = "idle" /\ task[t].state \in {"RECV", "SEND"}
    <3>1. DOMAIN posted = 1..Len(posted) /\ \A n \in 1..Len(posted) : posted[n] \in Tasks
      BY LenProperties DEF ReplyIInv, ReplyTypeOK
    <3>2. \A t \in ToSet(posted) : \E n \in 1..Len(posted) : t = posted[n] BY <3>1 DEF ToSet
    <3> QED BY <3>1, <3>2 DEF ReplyIInv, ReplyTypeOK, Working
  <2>2. \A t \in working : Live(t) = task[t].req /\ task[t].req \in Requests
    BY <2>1 DEF Live, LiveOf, ReplyIInv, PhaseOf
  <2> HIDE DEF working, all, Live
  <2>3. \A t \in working : freed[task[t].req] = 0
    BY <2>1, <2>2, ReplyAssumption DEF ReplyIInv, Owners, working
  <2>4. \A t, u \in working : task[t].req = task[u].req => t = u
    BY <2>1, <2>2, ReplyAssumption DEF ReplyIInv, Owners, working
  <2>5. \A r \in Requests : freed[r] <= 1 /\ answered[r] <= 1 BY DEF ReplyIInv, ReplyTypeOK
  <2>6. Cardinality(all) = Cardinality(serving) + Len(posted) BY WorkingCounted DEF all
  <2> QED BY <2>2, <2>3, <2>4, <2>5, <2>6 DEF RequestOnce, working, all
<1> QED BY <1>1, ReplyInitial, ReplyInductive, PTL DEF ReplySpec

-----------------------------------------------------------------------------
(* JsonPb.                                                                 *)
(*                                                                         *)
(* Recursion over the data.  A predicate that asks something of each value *)
(* and itself of those in it has a solution, the union of all sets that    *)
(* are closed under it; no order is needed.                                *)

LEMMA Hereditary ==
    ASSUME NEW S, NEW kids \in [S -> SUBSET S], NEW local \in [S -> BOOLEAN]
    PROVE  \E f : f = [x \in S |-> local[x] /\ \A z \in kids[x] : f[z]]
<1> DEFINE Closed(C) == \A x \in C : local[x] /\ kids[x] \subseteq C
           All == {x \in S : \E C \in SUBSET S : x \in C /\ Closed(C)}
           f == [x \in S |-> x \in All]
<1>1. ASSUME NEW x \in S PROVE x \in All <=> local[x] /\ \A z \in kids[x] : z \in All
  <2>1. ASSUME x \in All PROVE local[x] /\ \A z \in kids[x] : z \in All
    <3>1. PICK C \in SUBSET S : x \in C /\ Closed(C) BY <2>1
    <3>2. local[x] /\ kids[x] \subseteq C BY <3>1
    <3> QED BY <3>1, <3>2
  <2>2. ASSUME local[x], \A z \in kids[x] : z \in All PROVE x \in All
    <3>1. Closed(All)
      <4> SUFFICES ASSUME NEW y \in All PROVE local[y] /\ kids[y] \subseteq All OBVIOUS
      <4>1. PICK C \in SUBSET S : y \in C /\ Closed(C) OBVIOUS
      <4>2. local[y] /\ kids[y] \subseteq C BY <4>1
      <4>3. C \subseteq All BY <4>1
      <4> QED BY <4>2, <4>3
    <3>2. Closed(All \cup {x}) BY <2>2, <3>1
    <3>3. All \cup {x} \in SUBSET S OBVIOUS
    <3> HIDE DEF Closed
    <3> QED BY <3>2, <3>3
  <2> HIDE DEF All
  <2> QED BY <2>1, <2>2
<1>2. f = [x \in S |-> local[x] /\ \A z \in kids[x] : f[z]]
  <2>1. ASSUME NEW x \in S PROVE (x \in All) = (local[x] /\ \A z \in kids[x] : f[z])
    <3>1. \A z \in kids[x] : z \in S OBVIOUS
    <3>2. \A z \in S : f[z] = (z \in All) OBVIOUS
    <3> HIDE DEF All, f
    <3>3. (\A z \in kids[x] : z \in All) <=> (\A z \in kids[x] : f[z]) BY <3>1, <3>2
    <3>4. local[x] \in BOOLEAN OBVIOUS
    <3> QED BY <1>1, <3>3, <3>4
  <2>2. f = [x \in S |-> x \in All] OBVIOUS
  <2> HIDE DEF f, All
  <2> QED BY <2>1, <2>2
<1> HIDE DEF f
<1> QED BY <1>2

-----------------------------------------------------------------------------
(* Fields and messages *)

LEMMA FieldNamed ==
    ASSUME NEW T \in DOMAIN Field, NEW j \in DOMAIN Field[T]
    PROVE  /\ Field[T][j].name \in FieldNames(T)
           /\ FieldOf(T, Field[T][j].name) = Field[T][j]
<1>1. \A k \in DOMAIN Field[T] : Field[T][k].name = Field[T][j].name => k = j
  BY DataAssumption DEF FieldAssumption
<1>2. \E fd \in {Field[T][k] : k \in DOMAIN Field[T]} : fd.name = Field[T][j].name OBVIOUS
<1>3. FieldOf(T, Field[T][j].name) \in {Field[T][k] : k \in DOMAIN Field[T]}
      /\ FieldOf(T, Field[T][j].name).name = Field[T][j].name BY <1>2 DEF FieldOf
<1> QED BY <1>1, <1>3 DEF FieldNames

LEMMA FieldFound ==
    ASSUME NEW T \in DOMAIN Field, NEW n \in FieldNames(T)
    PROVE  /\ \E j \in DOMAIN Field[T] : FieldOf(T, n) = Field[T][j] /\ Field[T][j].name = n
           /\ FieldOf(T, n).name = n
           /\ FieldOf(T, n).repeated \in BOOLEAN
           /\ n \notin AtNames \cup {NoName}
<1>1. PICK j \in DOMAIN Field[T] : Field[T][j].name = n BY DEF FieldNames
<1>2. FieldOf(T, n) = Field[T][j] BY <1>1, FieldNamed
<1> QED BY <1>1, <1>2, DataAssumption DEF FieldAssumption

LEMMA SubMessagesIn ==
    ASSUME NEW m \in Message, NEW s \in SubMessages(m)
    PROVE  s \in Message /\ Height[m] \in Nat /\ Height[s] \in Nat /\ Height[s] < Height[m]
<1>1. IsMessage(m) /\ Height \in [Message -> Nat] /\ Height[s] < Height[m]
  BY DataAssumption DEF MessageAssumption
<1>2. s \in Message
  <2>1. CASE m.type = AnyType BY <1>1, <2>1 DEF SubMessages, IsMessage
  <2>2. CASE m.type # AnyType
    <3>1. PICK n \in DOMAIN m.f : /\ FieldOf(m.type, n).cpp = "message"
                                  /\ s \in Elements(FieldOf(m.type, n), m.f[n])
      BY <2>2 DEF SubMessages
    <3>2. IsValue(FieldOf(m.type, n), s) BY <1>1, <2>2, <3>1 DEF IsMessage
    <3> QED BY <3>1, <3>2 DEF IsValue
  <2> QED BY <2>1, <2>2
<1> QED BY <1>1, <1>2

LEMMA ConvertibleDef ==
    ASSUME NEW m \in Message
    PROVE  Convertible[m] =
           (/\ IF m.type = AnyType THEN m.of # NoMessage /\ m.of.type # AnyType
               ELSE \A n \in DOMAIN m.f :
                       LET fd == FieldOf(m.type, n) IN
                       /\ fd.cpp \notin {"enum", "bytes"}
                       /\ fd.cpp = "string" => WithNul \notin Elements(fd, m.f[n])
            /\ \A s \in SubMessages(m) : Convertible[s])
<1> DEFINE Local(x) ==
        IF x.type = AnyType THEN x.of # NoMessage /\ x.of.type # AnyType
        ELSE \A n \in DOMAIN x.f :
                LET fd == FieldOf(x.type, n) IN
                /\ fd.cpp \notin {"enum", "bytes"}
                /\ fd.cpp = "string" => WithNul \notin Elements(fd, x.f[n])
    local == [x \in Message |-> Local(x)]
    kids == [x \in Message |-> SubMessages(x)]
<1>1. kids \in [Message -> SUBSET Message] BY SubMessagesIn
<1>2. local \in [Message -> BOOLEAN] OBVIOUS
<1>3. \A x \in Message : local[x] = Local(x) /\ kids[x] = SubMessages(x) OBVIOUS
<1>4. PICK f : f = [x \in Message |-> local[x] /\ \A z \in kids[x] : f[z]]
  <2> HIDE DEF local, kids
  <2> QED BY <1>1, <1>2, Hereditary
<1> HIDE DEF Local
<1>5. f = [x \in Message |-> Local(x) /\ \A z \in SubMessages(x) : f[z]]
  <2> HIDE DEF local, kids
  <2> QED BY <1>3, <1>4
<1>6. Convertible = [x \in Message |-> Local(x) /\ \A z \in SubMessages(x) : Convertible[z]]
  BY <1>5 DEF Convertible, Local
<1>7. Convertible[m] = (Local(m) /\ \A s \in SubMessages(m) : Convertible[s]) BY <1>6
<1> QED BY <1>7 DEF Local

LEMMA WellTypedDef ==
    ASSUME NEW x \in JsonValue
    PROVE  /\ WellTyped[x] = (/\ \A z \in Components(x) : WellTyped[z]
                              /\ x.t = "object" => TypedObject(x))
           /\ WellTyped[x] \in BOOLEAN
<1> DEFINE Local(y) == y.t = "object" => TypedObject(y)
           local == [y \in JsonValue |-> Local(y)]
           kids == [y \in JsonValue |-> Components(y)]
<1>1. kids \in [JsonValue -> SUBSET JsonValue] BY JsonAssumption
<1>2. local \in [JsonValue -> BOOLEAN] OBVIOUS
<1>3. \A y \in JsonValue : local[y] = Local(y) /\ kids[y] = Components(y) OBVIOUS
<1>4. PICK f : f = [y \in JsonValue |-> local[y] /\ \A z \in kids[y] : f[z]]
  <2> HIDE DEF local, kids
  <2> QED BY <1>1, <1>2, Hereditary
<1> HIDE DEF Local
<1>5. f = [y \in JsonValue |-> (\A z \in Components(y) : f[z]) /\ Local(y)]
  <2> HIDE DEF local, kids
  <2>1. \A y \in JsonValue : (local[y] /\ \A z \in kids[y] : f[z])
                             = ((\A z \in Components(y) : f[z]) /\ Local(y)) BY <1>3
  <2> QED BY <2>1, <1>4
<1>6. WellTyped = [y \in JsonValue |-> (\A z \in Components(y) : WellTyped[z]) /\ Local(y)]
  BY <1>5 DEF WellTyped, Local
<1>7. WellTyped[x] = ((\A z \in Components(x) : WellTyped[z]) /\ Local(x)) BY <1>6
<1> QED BY <1>7 DEF Local

-----------------------------------------------------------------------------
(* Pb2json is defined by its recursion                                     *)

\* A message to JSON, the messages in it by json.
OneLevel(m, json) ==
    IF m.type # AnyType THEN Object(Members(m, json))
    ELSE IF m.of = NoMessage THEN Object(<<>>) ELSE json[m.of]

LEMMA FieldValueAgree ==
    ASSUME NEW fd, NEW x, NEW a, NEW b, fd.repeated \in BOOLEAN,
           \A y \in Elements(fd, x) : fd.cpp = "message" => a[y] = b[y]
    PROVE  FieldValue(fd, x, a) = FieldValue(fd, x, b)
<1>1. ASSUME NEW y \in Elements(fd, x) PROVE Field2json(fd, y, a) = Field2json(fd, y, b)
  <2>1. CASE fd.cpp = "message" BY <2>1 DEF Field2json
  <2>2. CASE fd.cpp # "message" BY <2>2 DEF Field2json
  <2> QED BY <2>1, <2>2
<1>2. CASE fd.repeated = TRUE
  <2>1. \A j \in DOMAIN x : Field2json(fd, x[j], a) = Field2json(fd, x[j], b)
    BY <1>1, <1>2 DEF Elements
  <2>2. [j \in DOMAIN x |-> Field2json(fd, x[j], a)]
        = [j \in DOMAIN x |-> Field2json(fd, x[j], b)] BY <2>1
  <2> QED BY <2>2, <1>2 DEF FieldValue
<1>3. CASE fd.repeated = FALSE
  <2>1. Field2json(fd, x, a) = Field2json(fd, x, b) BY <1>1, <1>3 DEF Elements
  <2> QED BY <2>1, <1>3 DEF FieldValue
<1> QED BY <1>2, <1>3

LEMMA MembersAgree ==
    ASSUME NEW m \in Message, m.type # AnyType, NEW a, NEW b,
           \A s \in SubMessages(m) : a[s] = b[s]
    PROVE  Members(m, a) = Members(m, b)
<1>1. m.type \in DOMAIN Field BY DataAssumption DEF MessageAssumption, IsMessage
<1>2. ASSUME NEW k \in 1..Len(Field[m.type])
      PROVE  Added(m, Field[m.type][k], a) = Added(m, Field[m.type][k], b)
  <2>1. k \in DOMAIN Field[m.type] BY <1>1, DataAssumption DEF FieldAssumption, IsSequence
  <2>2. FieldOf(m.type, Field[m.type][k].name) = Field[m.type][k] BY <1>1, <2>1, FieldNamed
  <2> DEFINE fd == Field[m.type][k]
  <2>3. CASE Writes(m, fd)
    <3>1. fd.name \in DOMAIN m.f BY <2>3 DEF Writes
    <3>2. fd.repeated \in BOOLEAN BY <1>1, <2>1, DataAssumption DEF FieldAssumption
    <3>3. \A y \in Elements(fd, m.f[fd.name]) : fd.cpp = "message" => y \in SubMessages(m)
      BY <3>1, <2>2 DEF SubMessages
    <3>4. \A y \in Elements(fd, m.f[fd.name]) : fd.cpp = "message" => a[y] = b[y] BY <3>3
    <3>5. FieldValue(fd, m.f[fd.name], a) = FieldValue(fd, m.f[fd.name], b)
      <4> HIDE DEF fd
      <4> QED BY <3>2, <3>4, FieldValueAgree
    <3> HIDE DEF fd
    <3>6. Added(m, fd, a) = Added(m, fd, b) BY <2>3, <3>5 DEF Added
    <3> QED BY <3>6 DEF fd
  <2>4. CASE ~Writes(m, fd) BY <2>4 DEF Added
  <2> QED BY <2>3, <2>4
<1>3. [k \in 1..Len(Field[m.type]) |-> Added(m, Field[m.type][k], a)]
      = [k \in 1..Len(Field[m.type]) |-> Added(m, Field[m.type][k], b)] BY <1>2
<1> QED BY <1>3 DEF Members

LEMMA OneLevelAgrees ==
    ASSUME NEW m \in Message, NEW a, NEW b, \A s \in SubMessages(m) : a[s] = b[s]
    PROVE  OneLevel(m, a) = OneLevel(m, b)
<1>1. CASE m.type # AnyType BY <1>1, MembersAgree DEF OneLevel
<1>2. CASE m.type = AnyType BY <1>2 DEF OneLevel, SubMessages
<1> QED BY <1>1, <1>2

LEMMA Pb2jsonDef ==
    ASSUME NEW m \in Message
    PROVE  Pb2json[m] = OneLevel(m, Pb2json)
<1> DEFINE Low(n) == {x \in Message : Height[x] < n}
           Upto(g, n) == g = [x \in Low(n) |-> OneLevel(x, g)]
<1>0. \A x \in Message : Height[x] \in Nat BY DataAssumption DEF MessageAssumption
<1>1. ASSUME NEW n \in Nat PROVE \E g : Upto(g, n)
  <2> DEFINE S == {k \in Nat : \E g : Upto(g, k)}
  <2>1. 0 \in S
    <3>1. Low(0) = {} BY <1>0
    <3>2. Upto([x \in {} |-> x], 0) BY <3>1
    <3> QED BY <3>2
  <2>2. ASSUME NEW k \in S PROVE k + 1 \in S
    <3>1. PICK g : Upto(g, k) OBVIOUS
    <3> DEFINE h == [x \in Low(k + 1) |-> OneLevel(x, g)]
    <3>2. \A x \in Low(k) : x \in Low(k + 1) /\ h[x] = g[x] BY <1>0, <3>1
    <3>3. ASSUME NEW x \in Low(k + 1) PROVE OneLevel(x, g) = OneLevel(x, h)
      <4>1. \A s \in SubMessages(x) : s \in Low(k) BY SubMessagesIn
      <4>2. \A s \in SubMessages(x) : g[s] = h[s] BY <4>1, <3>2
      <4> HIDE DEF h
      <4> QED BY <4>2, OneLevelAgrees
    <3>4. h = [x \in Low(k + 1) |-> OneLevel(x, h)]
      <4> DEFINE d == Low(k + 1)
      <4>1. \A x \in d : OneLevel(x, g) = OneLevel(x, h) BY <3>3
      <4>2. h = [x \in d |-> OneLevel(x, g)] OBVIOUS
      <4> HIDE DEF h, d
      <4>3. h = [x \in d |-> OneLevel(x, h)] BY <4>1, <4>2
      <4> QED BY <4>3 DEF d
    <3> HIDE DEF h
    <3>5. Upto(h, k + 1) BY <3>4
    <3>6. k + 1 \in Nat OBVIOUS
    <3>7. \E y : Upto(y, k + 1) BY <3>5
    <3> HIDE DEF Upto
    <3> QED BY <3>6, <3>7
  <2>3. S \in SUBSET Nat OBVIOUS
  <2> HIDE DEF S
  <2>4. S = Nat BY <2>1, <2>2, <2>3, NatSetInduction
  <2>5. n \in S BY <2>4
  <2> QED BY <2>5 DEF S
<1>2. ASSUME NEW a \in Nat, NEW b \in Nat, NEW g, NEW h, Upto(g, a), Upto(h, b),
             NEW x \in Low(a) \cap Low(b)
      PROVE  g[x] = h[x]
  <2> DEFINE S == {k \in Nat : \A y \in Low(k) \cap Low(a) \cap Low(b) : g[y] = h[y]}
  <2>1. 0 \in S BY <1>0
  <2>2. ASSUME NEW k \in S PROVE k + 1 \in S
    <3> SUFFICES ASSUME NEW y \in Low(k + 1) \cap Low(a) \cap Low(b) PROVE g[y] = h[y] OBVIOUS
    <3>1. \A s \in SubMessages(y) : s \in Low(k) \cap Low(a) \cap Low(b) BY SubMessagesIn
    <3>2. \A s \in SubMessages(y) : g[s] = h[s] BY <3>1
    <3>3. OneLevel(y, g) = OneLevel(y, h) BY <3>2, OneLevelAgrees
    <3>4. g[y] = OneLevel(y, g) BY <1>2
    <3>5. h[y] = OneLevel(y, h) BY <1>2
    <3> QED BY <3>3, <3>4, <3>5
  <2>3. S \in SUBSET Nat OBVIOUS
  <2> HIDE DEF S
  <2>4. S = Nat BY <2>1, <2>2, <2>3, NatSetInduction
  <2>5. a \in S BY <2>4
  <2> QED BY <2>5 DEF S
<1> DEFINE at(n) == CHOOSE g : Upto(g, n)
           f == [x \in Message |-> at(Height[x] + 1)[x]]
<1>3. ASSUME NEW n \in Nat PROVE Upto(at(n), n) BY <1>1
<1>4. ASSUME NEW x \in Message PROVE f[x] = OneLevel(x, f)
  <2> DEFINE n == Height[x] + 1
             g == at(n)
  <2>1. n \in Nat /\ x \in Low(n) BY <1>0
  <2>2. Upto(g, n) BY <2>1, <1>3
  <2>3. ASSUME NEW s \in SubMessages(x) PROVE g[s] = f[s]
    <3>1. s \in Message /\ Height[s] + 1 \in Nat BY SubMessagesIn
    <3>2. s \in Low(n) \cap Low(Height[s] + 1) BY SubMessagesIn
    <3>3. Upto(at(Height[s] + 1), Height[s] + 1) BY <3>1, <1>3
    <3> HIDE DEF Upto, Low, at, n, g
    <3>4. g[s] = at(Height[s] + 1)[s] BY <1>2, <2>1, <2>2, <3>1, <3>2, <3>3
    <3> QED BY <3>1, <3>4
  <2>4. f[x] = g[x] OBVIOUS
  <2>5. g[x] = OneLevel(x, g)
    <3> HIDE DEF g, n
    <3> QED BY <2>1, <2>2
  <2> HIDE DEF f, g
  <2>6. OneLevel(x, g) = OneLevel(x, f) BY <2>3, OneLevelAgrees
  <2> QED BY <2>4, <2>5, <2>6
<1>5. f = [x \in Message |-> OneLevel(x, f)]
  <2>1. f = [x \in Message |-> f[x]] OBVIOUS
  <2> HIDE DEF f
  <2> QED BY <2>1, <1>4
<1> HIDE DEF f
<1>6. Pb2json = [x \in Message |-> OneLevel(x, Pb2json)] BY <1>5 DEF Pb2json, OneLevel
<1> QED BY <1>6

-----------------------------------------------------------------------------
(* The loop over the fields *)

\* The members after each turn of the loop.
Turns(g, first, adds) ==
    g[0] = <<first>> /\ \A k \in 1..Len(adds) : g[k] = g[k - 1] \o adds[k]

LEMMA LoopDef ==
    ASSUME NEW V, NEW first \in V, NEW adds \in Seq(Seq(V))
    PROVE  \E g \in [0..Len(adds) -> Seq(V)] :
              Loop(first, adds) = g[Len(adds)] /\ Turns(g, first, adds)
<1> DEFINE last == Len(adds)
           step == [p \in Seq(V) \X Nat |-> IF p[2] \in 1..last THEN p[1] \o adds[p[2]] ELSE <<>>]
<1>1. last \in Nat /\ <<first>> \in Seq(V) OBVIOUS
<1>2. step \in [Seq(V) \X Nat -> Seq(V)]
  <2>1. \A p \in Seq(V) \X Nat : p[2] \in 1..last => p[1] \o adds[p[2]] \in Seq(V)
    <3> SUFFICES ASSUME NEW p \in Seq(V) \X Nat, p[2] \in 1..last
                 PROVE  p[1] \o adds[p[2]] \in Seq(V) OBVIOUS
    <3>1. adds[p[2]] \in Seq(V) /\ p[1] \in Seq(V) OBVIOUS
    <3> QED BY <3>1, ConcatProperties
  <2>2. <<>> \in Seq(V) OBVIOUS
  <2> QED BY <2>1, <2>2
<1>3. PICK g \in [0..last -> Seq(V)] : Iterates(g, <<first>>, step, last)
  <2> HIDE DEF step, last
  <2> QED BY <1>1, <1>2, PrimitiveRecursion
<1>4. ASSUME NEW k \in 0..last
      PROVE  g[k] = IF k = 0 THEN <<first>> ELSE g[k - 1] \o adds[k]
  <2>1. CASE k = 0 BY <1>3, <2>1 DEF Iterates
  <2>2. CASE k # 0
    <3>1. g[k] = step[<<g[k - 1], k>>] BY <1>3, <2>2 DEF Iterates
    <3>2. k - 1 \in 0..last /\ k \in Nat /\ k \in 1..last BY <1>1, <2>2
    <3>3. <<g[k - 1], k>> \in Seq(V) \X Nat BY <3>2
    <3>4. step[<<g[k - 1], k>>] = g[k - 1] \o adds[k] BY <3>2, <3>3
    <3> QED BY <3>1, <3>4, <2>2
  <2> QED BY <2>1, <2>2
<1>5. g = [k \in 0..last |-> IF k = 0 THEN <<first>> ELSE g[k - 1] \o adds[k]]
  <2> HIDE DEF last
  <2> QED BY <1>4
<1> DEFINE upto == CHOOSE h : h = [k \in 0..last |-> IF k = 0 THEN <<first>> ELSE h[k - 1] \o adds[k]]
<1>6. upto = [k \in 0..last |-> IF k = 0 THEN <<first>> ELSE upto[k - 1] \o adds[k]]
  <2> HIDE DEF last
  <2> QED BY <1>5
<1>7. ASSUME NEW k \in 0..last PROVE upto[k] = g[k]
  <2> DEFINE S == {n \in Nat : n <= last => upto[n] = g[n]}
  <2> HIDE DEF last, upto
  <2>1. 0 \in S
    <3>1. 0 \in 0..last BY <1>1
    <3>2. upto[0] = <<first>> BY <1>6, <3>1
    <3>3. g[0] = <<first>> BY <1>4, <3>1
    <3> QED BY <3>2, <3>3
  <2>2. ASSUME NEW n \in S PROVE n + 1 \in S
    <3> SUFFICES ASSUME n + 1 <= last PROVE upto[n + 1] = g[n + 1] OBVIOUS
    <3>1. n \in Nat /\ n + 1 \in 0..last /\ (n + 1) - 1 = n /\ n + 1 # 0 BY <1>1
    <3>2. upto[n + 1] = upto[n] \o adds[n + 1] BY <1>6, <3>1
    <3>3. g[n + 1] = g[n] \o adds[n + 1] BY <1>4, <3>1
    <3>4. upto[n] = g[n] BY <1>1, <3>1
    <3> QED BY <3>2, <3>3, <3>4
  <2>3. S \in SUBSET Nat OBVIOUS
  <2>4. S = Nat
    <3> HIDE DEF S
    <3> QED BY <2>1, <2>2, <2>3, NatSetInduction
  <2>5. k \in Nat /\ k <= last BY <1>1
  <2> QED BY <2>4, <2>5
<1>8. Loop(first, adds) = upto[last] BY DEF Loop
<1>9. Loop(first, adds) = g[last]
  <2> HIDE DEF last, upto
  <2> QED BY <1>1, <1>7, <1>8
<1> HIDE DEF last
<1>10. g[0] = <<first>> /\ \A k \in 1..last : g[k] = g[k - 1] \o adds[k]
  <2>1. 0 \in 0..last BY <1>1
  <2>2. \A k \in 1..last : k \in 0..last /\ k # 0 BY <1>1
  <2> QED BY <1>4, <2>1, <2>2
<1>11. Turns(g, first, adds) BY <1>10 DEF Turns, last
<1> QED BY <1>9, <1>11 DEF last

\* The members of the object a message is written to.
MembersWritten(m, v, json) ==
    /\ Len(v) \in Nat \ {0} /\ DOMAIN v = 1..Len(v)
    /\ v[1] = Member(TypeName, [t |-> "string", v |-> m.type])
    /\ \A j \in 2..Len(v) : \E n \in DOMAIN m.f :
          v[j] = Member(n, FieldValue(FieldOf(m.type, n), m.f[n], json))
    /\ \A h, j \in 2..Len(v) : v[h].name = v[j].name => h = j
    /\ \A n \in DOMAIN m.f : FieldOf(m.type, n).cpp # "bytes" =>
          \E j \in 2..Len(v) : v[j].name = n

LEMMA MembersOf ==
    ASSUME NEW m \in Message, m.type # AnyType, NEW json
    PROVE  MembersWritten(m, Members(m, json), json)
<1> DEFINE F == Field[m.type]
           first == Member(TypeName, [t |-> "string", v |-> m.type])
           mem(q) == Member(F[q].name, FieldValue(F[q], m.f[F[q].name], json))
           last == Len(F)
           V == {first} \cup {mem(q) : q \in 1..last}
           adds == [k \in 1..last |-> Added(m, F[k], json)]
<1>1. m.type \in DOMAIN Field /\ DOMAIN m.f \subseteq FieldNames(m.type)
  BY DataAssumption DEF MessageAssumption, IsMessage
<1>2. last \in Nat /\ DOMAIN F = 1..last
  BY <1>1, DataAssumption DEF FieldAssumption, IsSequence
<1>3. \A q, r \in 1..last : F[q].name = F[r].name => q = r
  BY <1>1, <1>2, DataAssumption DEF FieldAssumption
<1>4. \A q \in 1..last : /\ mem(q).name = F[q].name /\ mem(q) \in V
                         /\ adds[q] = IF Writes(m, F[q]) THEN <<mem(q)>> ELSE <<>>
  BY DEF Added, Member
<1>5. first \in V OBVIOUS
<1>6. adds \in Seq(Seq(V)) /\ Len(adds) = last
  <2>1. \A q \in 1..last : adds[q] \in Seq(V)
    <3> SUFFICES ASSUME NEW q \in 1..last PROVE adds[q] \in Seq(V) OBVIOUS
    <3>1. mem(q) \in V BY <1>4
    <3>2. adds[q] = IF Writes(m, F[q]) THEN <<mem(q)>> ELSE <<>> BY <1>4
    <3> HIDE DEF adds, mem, V, F, last
    <3>3. <<>> \in Seq(V) /\ <<mem(q)>> \in Seq(V) BY <3>1
    <3> QED BY <3>2, <3>3
  <2>2. adds = [k \in 1..last |-> adds[k]] OBVIOUS
  <2> HIDE DEF adds, V, F, last
  <2> QED BY <2>1, <2>2, <1>2
<1>6a. PICK g \in [0..last -> Seq(V)] : Loop(first, adds) = g[last] /\ Turns(g, first, adds)
  <2> HIDE DEF adds, V, first, F, last
  <2>1. \E g \in [0..Len(adds) -> Seq(V)] :
           Loop(first, adds) = g[Len(adds)] /\ Turns(g, first, adds) BY <1>5, <1>6, LoopDef
  <2> QED BY <2>1, <1>6
<1>7. /\ Loop(first, adds) = g[last]
      /\ g[0] = <<first>>
      /\ \A k \in 1..last : g[k] = g[k - 1] \o adds[k]
  <2> HIDE DEF adds, V, first, F, last
  <2> QED BY <1>6a, <1>6 DEF Turns
<1> DEFINE From(s, k) == \A j \in 2..Len(s) : \E q \in 1..k : Writes(m, F[q]) /\ s[j] = mem(q)
           Once(s) == \A h, j \in 2..Len(s) : s[h].name = s[j].name => h = j
           All(s, k) == \A q \in 1..k : Writes(m, F[q]) => \E j \in 2..Len(s) : s[j] = mem(q)
           Upto(k) == /\ Len(g[k]) \in Nat \ {0} /\ g[k][1] = first
                      /\ From(g[k], k) /\ Once(g[k]) /\ All(g[k], k)
           S == {k \in Nat : k <= last => Upto(k)}
<1> HIDE DEF F, first, mem, last, V, adds
<1>8. 0 \in S
  <2>1. g[0] = <<first>> /\ Len(g[0]) = 1 /\ g[0][1] = first BY <1>7
  <2>2. 2..Len(g[0]) = {} /\ 1..0 = {} BY <2>1
  <2>3. Upto(0) BY <2>1, <2>2
  <2> HIDE DEF Upto
  <2> QED BY <2>3
<1>9. ASSUME NEW k \in S PROVE k + 1 \in S
  <2> SUFFICES ASSUME k + 1 <= last PROVE Upto(k + 1) OBVIOUS
  <2>1. k \in Nat /\ k \in 0..last /\ k + 1 \in 1..last /\ (k + 1) - 1 = k /\ k <= last BY <1>2
  <2>2. Upto(k) BY <2>1
  <2>3. g[k + 1] = g[k] \o adds[k + 1] /\ g[k] \in Seq(V) BY <1>7, <2>1
  <2>4. CASE ~Writes(m, F[k + 1])
    <3>1. g[k + 1] = g[k]
      <4>1. adds[k + 1] = <<>> BY <2>1, <2>4, <1>4
      <4> QED BY <4>1, <2>3, ConcatEmptySeq
    <3>2. From(g[k], k + 1) BY <2>1, <2>2
    <3>3. \A q \in 1..k + 1 : q = k + 1 \/ q \in 1..k BY <2>1
    <3>4. All(g[k], k + 1) BY <3>3, <2>2, <2>4
    <3> HIDE DEF From, Once, All
    <3> QED BY <3>1, <3>2, <3>4, <2>2
  <2>5. CASE Writes(m, F[k + 1])
    <3> DEFINE s == g[k]
               n == Len(s)
               y == mem(k + 1)
    <3>1. g[k + 1] = Append(s, y)
      <4>1. adds[k + 1] = <<y>> BY <2>1, <2>5, <1>4
      <4>2. y \in V BY <2>1, <1>4
      <4> HIDE DEF y
      <4> QED BY <4>1, <4>2, <2>3, AppendIsConcat
    <3>2. n \in Nat \ {0} /\ s \in Seq(V) BY <2>2, <2>3
    <3>3. y \in V /\ y.name = F[k + 1].name BY <1>4, <2>1
    <3> DEFINE t == Append(s, y)
    <3>4. Len(t) = n + 1 /\ t[n + 1] = y /\ \A j \in 1..n : t[j] = s[j] BY <3>2, <3>3
    <3>5. \A j \in 2..n + 1 : j = n + 1 \/ (j \in 2..n /\ j \in 1..n) BY <3>2
    <3>6. From(s, k) /\ Once(s) /\ All(s, k) /\ s[1] = first BY <2>2
    <3> HIDE DEF s, n, y, t
    <3>7. From(t, k + 1)
      <4> SUFFICES ASSUME NEW j \in 2..Len(t)
                   PROVE  \E q \in 1..k + 1 : Writes(m, F[q]) /\ t[j] = mem(q) OBVIOUS
      <4>1. CASE j = n + 1 BY <4>1, <3>4, <2>1, <2>5 DEF y
      <4>2. CASE j # n + 1
        <5>1. j \in 2..Len(s) /\ t[j] = s[j] BY <4>2, <3>4, <3>5 DEF n
        <5>2. PICK q \in 1..k : Writes(m, F[q]) /\ s[j] = mem(q) BY <5>1, <3>6
        <5>3. q \in 1..k + 1 BY <2>1
        <5> QED BY <5>1, <5>2, <5>3
      <4> QED BY <4>1, <4>2
    <3>8. \A j \in 2..n : s[j].name # y.name
      <4> SUFFICES ASSUME NEW j \in 2..n PROVE s[j].name # y.name OBVIOUS
      <4>1. PICK q \in 1..k : s[j] = mem(q) BY <3>6 DEF n
      <4>2. q \in 1..last /\ q # k + 1 BY <2>1, <1>2
      <4>3. F[q].name # F[k + 1].name BY <4>2, <1>3, <2>1
      <4> QED BY <4>1, <4>2, <4>3, <1>4, <3>3
    <3>9. Once(t)
      <4> SUFFICES ASSUME NEW h \in 2..n + 1, NEW j \in 2..n + 1, t[h].name = t[j].name
                   PROVE  h = j BY <3>4
      <4>1. CASE h = n + 1 /\ j # n + 1 BY <4>1, <3>4, <3>5, <3>8
      <4>2. CASE h # n + 1 /\ j = n + 1 BY <4>2, <3>4, <3>5, <3>8
      <4>3. CASE h # n + 1 /\ j # n + 1 BY <4>3, <3>4, <3>5, <3>6 DEF n
      <4> QED BY <4>1, <4>2, <4>3
    <3>10. All(t, k + 1)
      <4> SUFFICES ASSUME NEW q \in 1..k + 1, Writes(m, F[q])
                   PROVE  \E j \in 2..Len(t) : t[j] = mem(q) OBVIOUS
      <4>1. CASE q = k + 1
        <5>1. n + 1 \in 2..Len(t) /\ t[n + 1] = y BY <3>2, <3>4
        <5> QED BY <4>1, <5>1 DEF y
      <4>2. CASE q # k + 1
        <5>1. q \in 1..k BY <4>2, <2>1
        <5>2. PICK j \in 2..n : s[j] = mem(q) BY <5>1, <3>6 DEF n
        <5>3. j \in 1..n /\ j \in 2..Len(t) BY <3>2, <3>4
        <5> QED BY <5>2, <5>3, <3>4
      <4> QED BY <4>1, <4>2
    <3>11. Len(t) \in Nat \ {0} /\ t[1] = first BY <3>2, <3>4, <3>6
    <3>12. g[k + 1] = t BY <3>1 DEF t
    <3> HIDE DEF From, Once, All
    <3> QED BY <3>7, <3>9, <3>10, <3>11, <3>12
  <2> QED BY <2>4, <2>5
<1>10. S \in SUBSET Nat OBVIOUS
<1>11. Upto(last)
  <2> HIDE DEF S
  <2>1. S = Nat BY <1>8, <1>9, <1>10, NatSetInduction
  <2>2. last \in S BY <2>1, <1>2
  <2> HIDE DEF Upto
  <2> QED BY <2>2 DEF S
<1> DEFINE v == g[last]
<1>12. Members(m, json) = v BY <1>7 DEF Members, first, adds, last, F
<1>13. \A q \in 1..last : FieldOf(m.type, F[q].name) = F[q]
  BY <1>1, <1>2, FieldNamed DEF F
<1>14. ASSUME NEW j \in 2..Len(v)
       PROVE  \E n \in DOMAIN m.f : v[j] = Member(n, FieldValue(FieldOf(m.type, n), m.f[n], json))
  <2>1. PICK q \in 1..last : Writes(m, F[q]) /\ v[j] = mem(q) BY <1>11
  <2>2. F[q].name \in DOMAIN m.f BY <2>1 DEF Writes
  <2> QED BY <2>1, <2>2, <1>13 DEF mem
<1>15. ASSUME NEW n \in DOMAIN m.f, FieldOf(m.type, n).cpp # "bytes"
       PROVE  \E j \in 2..Len(v) : v[j].name = n
  <2>1. PICK q \in 1..last : F[q].name = n BY <1>1, <1>2 DEF FieldNames, F
  <2>2. Writes(m, F[q]) BY <2>1, <1>13, <1>15 DEF Writes
  <2>3. PICK j \in 2..Len(v) : v[j] = mem(q) BY <1>11, <2>2
  <2> QED BY <2>1, <2>3, <1>4
<1>16. DOMAIN v = 1..Len(v)
  <2>1. last \in 0..last BY <1>2
  <2>2. v \in Seq(V) BY <1>7, <2>1
  <2> QED BY <2>2
<1>17. Len(v) \in Nat \ {0} /\ v[1] = first /\ Once(v) BY <1>11
<1> HIDE DEF v
<1>18. \A h, j \in 2..Len(v) : v[h].name = v[j].name => h = j BY <1>17
<1>19. MembersWritten(m, v, json) BY <1>14, <1>15, <1>16, <1>17, <1>18 DEF MembersWritten, first
<1> QED BY <1>12, <1>19

-----------------------------------------------------------------------------
(* What is written                                                         *)

\* What holds of a message when it holds of those in it holds of all.
LEMMA MessageInduction ==
    ASSUME NEW S \in SUBSET Message,
           \A m \in Message : (\A s \in SubMessages(m) : s \in S) => m \in S
    PROVE  S = Message
<1> SUFFICES ASSUME Message \ S # {} PROVE FALSE OBVIOUS
<1> DEFINE Heights == {Height[m] : m \in Message \ S}
<1>1. \A m \in Message : Height[m] \in Nat BY DataAssumption DEF MessageAssumption
<1>2. Heights \in SUBSET Nat /\ Heights # {} BY <1>1
<1>3. PICK h \in Heights : \A k \in Heights : h <= k
  <2> HIDE DEF Heights
  <2> QED BY <1>2, LeastNatural
<1>4. PICK m \in Message \ S : h = Height[m] OBVIOUS
<1>5. PICK s \in SubMessages(m) : s \notin S OBVIOUS
<1>6. s \in Message \ S /\ Height[s] < Height[m] BY <1>5, SubMessagesIn
<1>7. Height[m] <= Height[s] BY <1>3, <1>4, <1>6
<1> QED BY <1>1, <1>4, <1>6, <1>7

LEMMA WrittenObject ==
    ASSUME NEW m \in Message PROVE Pb2json[m].t = "object"
<1> DEFINE S == {x \in Message : Pb2json[x].t = "object"}
<1>1. ASSUME NEW x \in Message, \A s \in SubMessages(x) : s \in S PROVE x \in S
  <2>1. Pb2json[x] = OneLevel(x, Pb2json) BY Pb2jsonDef
  <2>2. CASE x.type # AnyType \/ x.of = NoMessage BY <2>1, <2>2 DEF OneLevel, Object
  <2>3. CASE x.type = AnyType /\ x.of # NoMessage
    <3>1. x.of \in S BY <1>1, <2>3 DEF SubMessages
    <3> QED BY <2>1, <2>3, <3>1 DEF OneLevel
  <2> QED BY <2>2, <2>3
<1>2. S \in SUBSET Message OBVIOUS
<1> HIDE DEF S
<1>3. S = Message BY <1>1, <1>2, MessageInduction
<1> QED BY <1>3 DEF S

\* The message in an Any, or the message itself.
Content(m) == IF m.type = AnyType THEN m.of ELSE m

LEMMA ContentWritten ==
    ASSUME NEW m \in Message, Convertible[m]
    PROVE  LET c == Content(m) IN
           /\ c \in Message /\ c.type # AnyType /\ Convertible[c]
           /\ Pb2json[m] = Object(Members(c, Pb2json)) /\ Pb2json[c] = Pb2json[m]
           /\ IsMessage(c) /\ c.type \in DOMAIN Field
           /\ m.type = AnyType => m = [type |-> AnyType, of |-> c]
<1>0. IsMessage(m) BY DataAssumption DEF MessageAssumption
<1>1. CASE m.type # AnyType
  <2>1. Content(m) = m BY <1>1 DEF Content
  <2>2. Pb2json[m] = Object(Members(m, Pb2json)) BY <1>1, Pb2jsonDef DEF OneLevel
  <2> QED BY <2>1, <2>2, <1>1, <1>0 DEF IsMessage
<1>2. CASE m.type = AnyType
  <2> DEFINE c == m.of
  <2>1. Content(m) = c BY <1>2 DEF Content
  <2>2. m.of # NoMessage /\ m.of.type # AnyType BY <1>2, ConvertibleDef
  <2>3. c \in SubMessages(m) BY <1>2, <2>2 DEF SubMessages
  <2>4. c \in Message /\ Convertible[c] BY <2>3, SubMessagesIn, ConvertibleDef
  <2>5. Pb2json[m] = Pb2json[c] BY <1>2, <2>2, Pb2jsonDef DEF OneLevel
  <2>6. Pb2json[c] = Object(Members(c, Pb2json)) BY <2>2, <2>4, Pb2jsonDef DEF OneLevel
  <2>7. IsMessage(c) BY <2>4, DataAssumption DEF MessageAssumption
  <2>8. c.type \in DOMAIN Field BY <2>2, <2>7 DEF IsMessage
  <2>9. m = [type |-> AnyType, of |-> c] BY <1>0, <1>2 DEF IsMessage
  <2> HIDE DEF c
  <2> QED BY <2>1, <2>2, <2>4, <2>5, <2>6, <2>7, <2>8, <2>9 DEF c
<1> QED BY <1>1, <1>2

\* A value of a field, and what it is written to.
ValueWritten(m, fd, y, z) ==
    /\ IsValue(fd, y)
    /\ fd.cpp = "message" => /\ y \in SubMessages(m) /\ y \in Message /\ y.type = fd.type
                             /\ Convertible[y] /\ z = Pb2json[y] /\ z.t = "object"
    /\ fd.cpp = "string" => z = [t |-> "string", v |-> y]
    /\ fd.cpp = "bool" => y \in BOOLEAN /\ z.t \in {"true", "false"} /\ y = (z.t = "true")
    /\ fd.cpp \notin {"message", "string", "bool"} =>
          fd.cpp \in DOMAIN Admits /\ z = [t |-> "number", v |-> y] /\ y \in Admits[fd.cpp]
    /\ z.t \in {"object", "string", "true", "false", "number"}
    /\ z.t = "object" => fd.cpp = "message"

LEMMA WrittenValue ==
    ASSUME NEW m \in Message, m.type # AnyType, Convertible[m], NEW n \in DOMAIN m.f,
           NEW y \in Elements(FieldOf(m.type, n), m.f[n])
    PROVE  ValueWritten(m, FieldOf(m.type, n), y, Field2json(FieldOf(m.type, n), y, Pb2json))
<1> DEFINE fd == FieldOf(m.type, n)
           z == Field2json(fd, y, Pb2json)
<1>0. IsMessage(m) BY DataAssumption DEF MessageAssumption
<1>1. IsValue(fd, y) BY <1>0 DEF IsMessage
<1>2. m.type \in DOMAIN Field /\ n \in FieldNames(m.type) BY <1>0 DEF IsMessage
<1>3. fd.cpp \in DOMAIN Admits \cup OtherTypes
  BY <1>2, FieldFound, DataAssumption DEF FieldAssumption
<1>4. fd.cpp \notin {"enum", "bytes"} /\ (fd.cpp = "string" => y # WithNul) BY ConvertibleDef
<1>5. ASSUME fd.cpp = "message"
      PROVE  /\ y \in SubMessages(m) /\ y \in Message /\ y.type = fd.type
             /\ Convertible[y] /\ z = Pb2json[y] /\ z.t = "object"
  <2>1. y \in SubMessages(m) BY <1>5 DEF SubMessages
  <2>2. Convertible[y] BY <2>1, ConvertibleDef
  <2>3. y \in Message /\ y.type = fd.type BY <1>1, <1>5 DEF IsValue
  <2> HIDE DEF fd
  <2>4. z = Pb2json[y] BY <1>5 DEF Field2json
  <2> HIDE DEF z
  <2> QED BY <2>1, <2>2, <2>3, <2>4, WrittenObject
<1> HIDE DEF fd
<1>6. ASSUME fd.cpp = "string" PROVE z = [t |-> "string", v |-> y] BY <1>6, <1>4 DEF Field2json
<1>7. ASSUME fd.cpp = "bool" PROVE y \in BOOLEAN /\ z.t \in {"true", "false"} /\ y = (z.t = "true")
  <2>1. y \in BOOLEAN BY <1>1, <1>7 DEF IsValue
  <2>2. z = [t |-> IF y THEN "true" ELSE "false", v |-> 0] BY <1>7 DEF Field2json
  <2>3. CASE y = TRUE
    <3>1. z.t = "true" BY <2>2, <2>3
    <3> QED BY <3>1, <2>3
  <2>4. CASE y = FALSE
    <3>1. z.t = "false" BY <2>2, <2>4
    <3> QED BY <3>1, <2>4
  <2> QED BY <2>1, <2>3, <2>4
<1>8. ASSUME fd.cpp \notin {"message", "string", "bool"}
      PROVE  fd.cpp \in DOMAIN Admits /\ z = [t |-> "number", v |-> y] /\ y \in Admits[fd.cpp]
  <2>1. fd.cpp \in DOMAIN Admits BY <1>3, <1>4, <1>8 DEF OtherTypes
  <2>2. z = [t |-> "number", v |-> y] BY <1>4, <1>8 DEF Field2json
  <2> QED BY <1>1, <2>1, <2>2 DEF IsValue
<1>9. z.t \in {"object", "string", "true", "false", "number"} /\ (z.t = "object" => fd.cpp = "message")
  BY <1>5, <1>6, <1>7, <1>8
<1> HIDE DEF z
<1>10. ValueWritten(m, fd, y, z) BY <1>1, <1>5, <1>6, <1>7, <1>8, <1>9 DEF ValueWritten
<1> QED BY <1>10 DEF fd, z

\* The members of what is written, and the value of one.
LEMMA WrittenMembers ==
    ASSUME NEW m \in Message, m.type # AnyType, Convertible[m]
    PROVE  LET x == Pb2json[m] IN
           /\ x \in JsonValue /\ x.t = "object" /\ m.type \in DOMAIN Field
           /\ Len(x.v) \in Nat \ {0} /\ DOMAIN x.v = 1..Len(x.v)
           /\ x.v[1] = Member(TypeName, [t |-> "string", v |-> m.type])
           /\ \A j \in 2..Len(x.v) :
                 /\ x.v[j].name \in DOMAIN m.f
                 /\ x.v[j].name \in FieldNames(m.type) /\ x.v[j].name \notin AtNames
                 /\ x.v[j].val = FieldValue(FieldOf(m.type, x.v[j].name), m.f[x.v[j].name], Pb2json)
           /\ \A h, j \in 2..Len(x.v) : x.v[h].name = x.v[j].name => h = j
           /\ \A n \in DOMAIN m.f : \E j \in 2..Len(x.v) : x.v[j].name = n
<1> DEFINE x == Pb2json[m]
           v == Members(m, Pb2json)
<1>1. m.type \in DOMAIN Field /\ DOMAIN m.f \subseteq FieldNames(m.type)
  BY DataAssumption DEF MessageAssumption, IsMessage
<1>2. x.t = "object" /\ x.v = v
  <2>1. x = Object(v) BY Pb2jsonDef DEF OneLevel
  <2> HIDE DEF x, v
  <2> QED BY <2>1 DEF Object
<1>3. /\ Len(v) \in Nat \ {0} /\ DOMAIN v = 1..Len(v)
      /\ v[1] = Member(TypeName, [t |-> "string", v |-> m.type])
      /\ \A j \in 2..Len(v) : \E n \in DOMAIN m.f :
            v[j] = Member(n, FieldValue(FieldOf(m.type, n), m.f[n], Pb2json))
      /\ \A h, j \in 2..Len(v) : v[h].name = v[j].name => h = j
      /\ \A n \in DOMAIN m.f : FieldOf(m.type, n).cpp # "bytes" =>
            \E j \in 2..Len(v) : v[j].name = n
  <2>1. MembersWritten(m, v, Pb2json) BY MembersOf
  <2> HIDE DEF v
  <2> QED BY <2>1 DEF MembersWritten
<1>4. \A n \in DOMAIN m.f : FieldOf(m.type, n).cpp # "bytes" BY ConvertibleDef
<1>5. x \in JsonValue BY JsonAssumption
<1> HIDE DEF v, x
<1>6. ASSUME NEW j \in 2..Len(v)
      PROVE  /\ v[j].name \in DOMAIN m.f
             /\ v[j].name \in FieldNames(m.type) /\ v[j].name \notin AtNames
             /\ v[j].val = FieldValue(FieldOf(m.type, v[j].name), m.f[v[j].name], Pb2json)
  <2>1. PICK n \in DOMAIN m.f : v[j] = Member(n, FieldValue(FieldOf(m.type, n), m.f[n], Pb2json))
    BY <1>3
  <2>2. v[j].name = n /\ v[j].val = FieldValue(FieldOf(m.type, n), m.f[n], Pb2json)
    BY <2>1 DEF Member
  <2>3. n \in FieldNames(m.type) BY <1>1
  <2>4. n \notin AtNames BY <1>1, <2>3, FieldFound
  <2> QED BY <2>2, <2>3, <2>4
<1> QED BY <1>1, <1>2, <1>3, <1>4, <1>5, <1>6 DEF x

\* A field, its value, and what that is written to.
FieldWritten(n, fd, x, w) ==
    /\ fd.repeated \in BOOLEAN /\ fd.name = n
    /\ ~fd.repeated => x \in Elements(fd, x) /\ w = Field2json(fd, x, Pb2json)
    /\ fd.repeated =>
          /\ w.t = "array" /\ Len(w.v) = Len(x) /\ Len(x) \in Nat \ {0}
          /\ DOMAIN w.v = 1..Len(x) /\ DOMAIN x = 1..Len(x) /\ IsSequence(x)
          /\ \A j \in 1..Len(x) : x[j] \in Elements(fd, x)
                                  /\ w.v[j] = Field2json(fd, x[j], Pb2json)

LEMMA WrittenField ==
    ASSUME NEW m \in Message, m.type # AnyType, Convertible[m], NEW n \in DOMAIN m.f
    PROVE  FieldWritten(n, FieldOf(m.type, n), m.f[n], FieldValue(FieldOf(m.type, n), m.f[n], Pb2json))
<1> DEFINE fd == FieldOf(m.type, n)
           x == m.f[n]
           w == FieldValue(fd, x, Pb2json)
<1>1. m.type \in DOMAIN Field /\ n \in FieldNames(m.type) /\ (fd.repeated => IsSequence(x) /\ x # <<>>)
  BY DataAssumption DEF MessageAssumption, IsMessage
<1>2. fd.repeated \in BOOLEAN /\ fd.name = n BY <1>1, FieldFound
<1>3. fd.cpp # "bytes" BY ConvertibleDef
<1> HIDE DEF fd, x
<1>4. ASSUME fd.repeated = FALSE PROVE FieldWritten(n, fd, x, w)
  <2>1. x \in Elements(fd, x) BY <1>4 DEF Elements
  <2>2. w = Field2json(fd, x, Pb2json) BY <1>4 DEF FieldValue
  <2> HIDE DEF w
  <2> QED BY <2>1, <2>2, <1>2, <1>4 DEF FieldWritten
<1>5. ASSUME fd.repeated = TRUE PROVE FieldWritten(n, fd, x, w)
  <2>1. x \in Seq({x[j] : j \in DOMAIN x}) /\ x # <<>> BY <1>1, <1>5 DEF IsSequence
  <2>2. Len(x) \in Nat \ {0} /\ DOMAIN x = 1..Len(x) BY <2>1
  <2>3. \A j \in 1..Len(x) : x[j] \in Elements(fd, x) BY <2>2, <1>5 DEF Elements
  <2>4. w = [t |-> "array", v |-> [j \in DOMAIN x |-> Field2json(fd, x[j], Pb2json)]]
    BY <1>5, <1>3 DEF FieldValue
  <2> DEFINE z == [j \in 1..Len(x) |-> Field2json(fd, x[j], Pb2json)]
  <2>5. w.t = "array" /\ w.v = z BY <2>2, <2>4
  <2>6. DOMAIN z = 1..Len(x) /\ Len(z) = Len(x) /\ \A j \in 1..Len(x) : z[j] = Field2json(fd, x[j], Pb2json)
    BY <2>2
  <2> HIDE DEF w, z
  <2>7. IsSequence(x) BY <1>1, <1>5
  <2> QED BY <2>2, <2>3, <2>5, <2>6, <2>7, <1>2, <1>5 DEF FieldWritten
<1>6. FieldWritten(n, fd, x, w) BY <1>2, <1>4, <1>5
<1> QED BY <1>6 DEF fd, x

LEMMA WrittenWellTyped ==
    ASSUME NEW m \in Message, Convertible[m] PROVE WellTyped[Pb2json[m]]
<1> DEFINE S == {x \in Message : Convertible[x] => WellTyped[Pb2json[x]]}
<1>1. ASSUME NEW y \in Message, \A s \in SubMessages(y) : s \in S, Convertible[y], y.type # AnyType
      PROVE  WellTyped[Pb2json[y]]
  <2> DEFINE x == Pb2json[y]
  <2>1. /\ x \in JsonValue /\ x.t = "object" /\ y.type \in DOMAIN Field
        /\ Len(x.v) \in Nat \ {0} /\ DOMAIN x.v = 1..Len(x.v)
        /\ x.v[1] = Member(TypeName, [t |-> "string", v |-> y.type])
        /\ \A j \in 2..Len(x.v) :
              /\ x.v[j].name \in DOMAIN y.f
              /\ x.v[j].name \in FieldNames(y.type) /\ x.v[j].name \notin AtNames
              /\ x.v[j].val = FieldValue(FieldOf(y.type, x.v[j].name), y.f[x.v[j].name], Pb2json)
    BY <1>1, WrittenMembers
  <2>2. ASSUME NEW n \in DOMAIN y.f, NEW e \in Elements(FieldOf(y.type, n), y.f[n]),
               Field2json(FieldOf(y.type, n), e, Pb2json) \in JsonValue
        PROVE  LET fd == FieldOf(y.type, n)
                   z == Field2json(fd, e, Pb2json) IN
               /\ WellTyped[z] /\ z.t # "array"
               /\ z.t = "object" => fd.cpp = "message" /\ fd.type \in {AnyType, RootType(z)}
    <3> DEFINE fd == FieldOf(y.type, n)
               z == Field2json(fd, e, Pb2json)
    <3>0. ValueWritten(y, fd, e, z) BY <1>1, WrittenValue
    <3>1. CASE z.t = "object"
      <4>1. /\ fd.cpp = "message" /\ e \in SubMessages(y) /\ e \in Message
            /\ e.type = fd.type /\ Convertible[e] /\ z = Pb2json[e]
        <5> HIDE DEF fd, z
        <5> QED BY <3>0, <3>1 DEF ValueWritten
      <4>2. WellTyped[Pb2json[e]] BY <1>1, <4>1
      <4>3. fd.type # AnyType => RootType(Pb2json[e]) = fd.type
        <5> SUFFICES ASSUME e.type # AnyType PROVE RootType(Pb2json[e]) = e.type BY <4>1
        <5>1. Pb2json[e].v[1] = Member(TypeName, [t |-> "string", v |-> e.type])
          BY <4>1, WrittenMembers
        <5> QED BY <5>1 DEF RootType, Member
      <4> HIDE DEF fd, z
      <4> QED BY <4>1, <4>2, <4>3, <3>1 DEF fd, z
    <3>2. CASE z.t # "object"
      <4>1. z.t \in {"object", "string", "true", "false", "number"} BY <3>0 DEF ValueWritten
      <4> HIDE DEF fd
      <4>2. z \in JsonValue BY <2>2 DEF fd
      <4> HIDE DEF z
      <4>3. Components(z) = {} BY <3>2, <4>1 DEF Components
      <4>4. WellTyped[z] BY <4>2, <4>3, <3>2, WellTypedDef
      <4> QED BY <4>1, <4>4, <3>2 DEF z, fd
    <3> QED BY <3>1, <3>2
  <2> HIDE DEF x
  <2>3. \A j \in 1..Len(x.v) : x.v[j].val \in Components(x) /\ x.v[j].val \in JsonValue
    BY <2>1, JsonAssumption DEF Components
  <2>4. ASSUME NEW j \in 2..Len(x.v)
        PROVE  LET fd == FieldOf(y.type, x.v[j].name)
                   w == x.v[j].val IN
               /\ WellTyped[w]
               /\ \A z \in Values(w) :
                     z.t = "object" => fd.cpp = "message" /\ fd.type \in {AnyType, RootType(z)}
    <3> DEFINE n == x.v[j].name
               fd == FieldOf(y.type, n)
               w == x.v[j].val
               e == y.f[n]
    <3>1. n \in DOMAIN y.f /\ w = FieldValue(fd, e, Pb2json) BY <2>1
    <3>2. w \in JsonValue BY <2>1, <2>3
    <3>3. /\ fd.repeated \in BOOLEAN
          /\ ~fd.repeated => e \in Elements(fd, e) /\ w = Field2json(fd, e, Pb2json)
          /\ fd.repeated =>
                 /\ w.t = "array" /\ DOMAIN w.v = 1..Len(e)
                 /\ \A h \in 1..Len(e) : e[h] \in Elements(fd, e)
                                         /\ w.v[h] = Field2json(fd, e[h], Pb2json)
      <4>1. FieldWritten(n, fd, e, w) BY <1>1, <3>1, WrittenField
      <4> HIDE DEF n, fd, e, w
      <4> QED BY <4>1 DEF FieldWritten
    <3>4. ASSUME NEW g \in Elements(fd, e), Field2json(fd, g, Pb2json) \in JsonValue
          PROVE  LET z == Field2json(fd, g, Pb2json) IN
                 /\ WellTyped[z] /\ z.t # "array"
                 /\ z.t = "object" => fd.cpp = "message" /\ fd.type \in {AnyType, RootType(z)}
      BY <2>2, <3>1, <3>4
    <3> HIDE DEF n, w, e, fd
    <3>5. CASE fd.repeated = FALSE
      <4>1. e \in Elements(fd, e) /\ w = Field2json(fd, e, Pb2json) BY <3>3, <3>5
      <4>2. /\ WellTyped[w] /\ w.t # "array"
            /\ w.t = "object" => fd.cpp = "message" /\ fd.type \in {AnyType, RootType(w)}
        BY <3>2, <3>4, <4>1
      <4> QED BY <4>2 DEF n, w, fd, Values
    <3>6. CASE fd.repeated = TRUE
      <4>1. /\ w.t = "array" /\ DOMAIN w.v = 1..Len(e)
            /\ \A h \in 1..Len(e) : e[h] \in Elements(fd, e)
                                    /\ w.v[h] = Field2json(fd, e[h], Pb2json) BY <3>3, <3>6
      <4>2. Components(w) = {w.v[h] : h \in 1..Len(e)} BY <4>1 DEF Components
      <4>3. \A z \in Components(w) :
                /\ WellTyped[z]
                /\ z.t = "object" => fd.cpp = "message" /\ fd.type \in {AnyType, RootType(z)}
        <5> SUFFICES ASSUME NEW z \in Components(w)
                     PROVE  /\ WellTyped[z]
                            /\ z.t = "object" => fd.cpp = "message" /\ fd.type \in {AnyType, RootType(z)}
            OBVIOUS
        <5>1. PICK h \in 1..Len(e) : z = w.v[h] BY <4>2
        <5>2. e[h] \in Elements(fd, e) /\ z = Field2json(fd, e[h], Pb2json) BY <5>1, <4>1
        <5>3. z \in JsonValue BY <3>2, JsonAssumption
        <5> QED BY <5>2, <5>3, <3>4
      <4>4. WellTyped[w]
        <5>1. w.t # "object" BY <4>1
        <5> QED BY <3>2, <4>3, <5>1, WellTypedDef
      <4> QED BY <4>1, <4>3, <4>4 DEF n, w, fd, Values
    <3> QED BY <3>3, <3>5, <3>6
  <2>5. RootType(x) = y.type /\ x.v[1].val.t = "string" /\ x.v[1].name \in AtNames
    BY <2>1, DataAssumption DEF RootType, Member, FieldAssumption
  <2>6. TypedObject(x)
    <3>1. x.v # <<>> BY <2>1
    <3> QED BY <3>1, <2>1, <2>4, <2>5 DEF TypedObject
  <2>7. \A z \in Components(x) : WellTyped[z]
    <3>1. Components(x) = {x.v[j].val : j \in 1..Len(x.v)} BY <2>1 DEF Components
    <3>2. \A j \in 2..Len(x.v) : WellTyped[x.v[j].val] BY <2>4
    <3>3. WellTyped[x.v[1].val]
      <4>1. x.v[1].val \in JsonValue BY <2>1, <2>3
      <4>2. Components(x.v[1].val) = {} BY <2>5 DEF Components
      <4> QED BY <4>1, <4>2, <2>5, WellTypedDef
    <3>4. \A j \in 1..Len(x.v) : j = 1 \/ j \in 2..Len(x.v) BY <2>1
    <3> QED BY <3>1, <3>2, <3>3, <3>4
  <2> QED BY <2>1, <2>6, <2>7, WellTypedDef DEF x
<1>2. ASSUME NEW y \in Message, \A s \in SubMessages(y) : s \in S PROVE y \in S
  <2> SUFFICES ASSUME Convertible[y] PROVE WellTyped[Pb2json[y]] OBVIOUS
  <2>1. CASE y.type # AnyType BY <1>1, <1>2, <2>1
  <2>2. CASE y.type = AnyType
    <3> DEFINE c == Content(y)
    <3>1. Convertible[c] /\ Pb2json[c] = Pb2json[y] BY ContentWritten
    <3>2. c = y.of /\ y.of # NoMessage BY <2>2, ConvertibleDef DEF Content
    <3>3. c \in SubMessages(y) BY <2>2, <3>2 DEF SubMessages
    <3> HIDE DEF c
    <3> QED BY <3>1, <3>3, <1>2
  <2> QED BY <2>1, <2>2
<1>3. S \in SUBSET Message OBVIOUS
<1> HIDE DEF S
<1>4. S = Message BY <1>2, <1>3, MessageInduction
<1> QED BY <1>4 DEF S

-----------------------------------------------------------------------------
(* The invariant of a well typed document                                  *)

\* The containers ForEach is in, each in the one before.
Shape(w) ==
    /\ w \in Seq([x : JsonValue, at : Nat])
    /\ \A d \in 1..Len(w) :
          /\ w[d].x.t \in {"object", "array"} /\ w[d].at \in 1..Len(w[d].x.v) + 1
          /\ d > 1 => w[d - 1].at <= Len(w[d - 1].x.v) /\ w[d].x = Item(w[d - 1]).val
          /\ d = 1 => w[d].x.t = "object"

\* The name of the member a container is in or, through an array, below.
KeyOf(w, d) == IF w[d - 1].x.t = "object" THEN Item(w[d - 1]).name ELSE Item(w[d - 2]).name

\* An open object has a message of its type from its first member on.
IsTyped(m, T) == m = [type |-> T, f |-> m.f]
Entry(w, p, fl, d) ==
    IF w[d].x.t = "array"
    THEN p[d].flag = 1 /\ p[d].msg = Garbage /\ p[d].key = Item(w[d - 1]).name
    ELSE /\ p[d].flag = 0
         /\ IF w[d].at = 1
            THEN /\ d = Len(w) /\ ~fl /\ p[d].msg = NoMessage
                 /\ d > 1 => p[d].key = Item(w[d - 1]).name
            ELSE /\ IsTyped(p[d].msg, RootType(w[d].x))
                 /\ d > 1 => p[d].key = KeyOf(w, d)

IsPbMsg(e) == e = [flag |-> e.flag, msg |-> e.msg, key |-> e.key]
IsStack(p) == \E E : p \in Seq(E) /\ \A e \in E : IsPbMsg(e)

\* The stack has an entry for each container, and keeps that of the document.
Stack(w, p, fl) ==
    /\ IsStack(p)
    /\ w # <<>> => Len(p) = Len(w)
    /\ \A d \in 1..Len(w) : WellTyped[w[d].x] /\ Entry(w, p, fl, d)

WalkInv ==
    /\ doc \in JsonValue /\ doc.t = "object"
    /\ source # NoMessage => source \in Message /\ doc = Pb2json[source]
    /\ fails \in BOOLEAN
    /\ Shape(walk) /\ (walk # <<>> => walk[1].x = doc)

TypedState ==
    /\ ~crashed
    /\ Stack(walk, pbMsgs, fails)
    /\ walk = <<>> /\ pbMsgs # <<>> => Len(pbMsgs) = 1 /\ IsTyped(pbMsgs[1].msg, RootType(doc))
    /\ walk = <<>> /\ pbMsgs = <<>> => ~fails
    /\ pbRet # "none" => walk = <<>> /\ pbMsgs # <<>>
    /\ pbRet = "error" => leaked = 1
    /\ pbRet # "error" => leaked = 0
TypedInv == WellTyped[doc] => TypedState

-----------------------------------------------------------------------------
(* The walk                                                                *)

LEMMA ItemIn ==
    ASSUME NEW c, c.x \in JsonValue, c.x.t \in {"object", "array"}
    PROVE  /\ Len(c.x.v) \in Nat /\ DOMAIN c.x.v = 1..Len(c.x.v)
           /\ c.at \in 1..Len(c.x.v) =>
                 /\ Item(c).val \in JsonValue /\ Item(c).val \in Components(c.x)
                 /\ c.x.t = "object" => Item(c) = c.x.v[c.at] /\ Item(c).name # NoName
                 /\ c.x.t = "array" => Item(c).name = NoName /\ Item(c).val.t # "array"
<1> DEFINE x == c.x
           v == x.v
<1>1. v \in Seq({v[j] : j \in DOMAIN v}) BY JsonAssumption DEF IsSequence
<1>2. Len(v) \in Nat /\ DOMAIN v = 1..Len(v)
  <2> HIDE DEF v
  <2> QED BY <1>1
<1>3. ASSUME c.at \in 1..Len(v), x.t = "object"
      PROVE  /\ Item(c) = v[c.at] /\ Item(c).name # NoName
             /\ Item(c).val \in JsonValue /\ Item(c).val \in Components(x)
  <2>1. Item(c) = v[c.at] BY <1>3 DEF Item
  <2>2. v[c.at].val \in Components(x) BY <1>2, <1>3 DEF Components
  <2>3. v[c.at].name # NoName BY <1>2, <1>3, JsonAssumption
  <2> QED BY <2>1, <2>2, <2>3, JsonAssumption
<1>4. ASSUME c.at \in 1..Len(v), x.t = "array"
      PROVE  /\ Item(c).name = NoName /\ Item(c).val.t # "array"
             /\ Item(c).val \in JsonValue /\ Item(c).val \in Components(x)
  <2>1. Item(c).name = NoName /\ Item(c).val = v[c.at] BY <1>4 DEF Item, Member
  <2>2. v[c.at] \in Components(x) BY <1>2, <1>4 DEF Components
  <2> QED BY <1>4, <2>1, <2>2, JsonAssumption
<1> QED BY <1>2, <1>3, <1>4

LEMMA AdvanceIs ==
    ASSUME NEW w \in Seq([x : JsonValue, at : Nat]), w # <<>>
    PROVE  LET n == Len(w)
               a == Advance(w) IN
           /\ n \in Nat \ {0} /\ w[n].x \in JsonValue /\ w[n].at \in Nat
           /\ a \in Seq([x : JsonValue, at : Nat]) /\ Len(a) = n
           /\ a[n] = [x |-> w[n].x, at |-> w[n].at + 1] /\ a[n].x = w[n].x /\ a[n].at = w[n].at + 1
           /\ \A d \in 1..n - 1 : a[d] = w[d]
<1> DEFINE n == Len(w)
           E == [x : JsonValue, at : Nat]
           a == [w EXCEPT ![n].at = @ + 1]
           e == [x |-> w[n].x, at |-> w[n].at + 1]
<1>0. w \in Seq(E) OBVIOUS
<1>1. n \in Nat \ {0} /\ n \in DOMAIN w /\ w[n] \in E
  <2> HIDE DEF E
  <2> QED BY <1>0
<1>2. Advance(w) = a BY DEF Advance
<1>6. [w[n] EXCEPT !.at = w[n].at + 1] = e BY <1>1
<1>3. a[n] = e BY <1>1, <1>6
<1>4. [x |-> w[n].x, at |-> w[n].at + 1] \in E BY <1>1
<1>5. a \in Seq(E) /\ Len(a) = n /\ \A d \in 1..n - 1 : a[d] = w[d]
  <2>1. a = [w EXCEPT ![n] = e] BY <1>6
  <2>2. e \in E BY <1>4
  <2> HIDE DEF a, E, e
  <2> QED BY <1>0, <1>1, <2>1, <2>2
<1> HIDE DEF a
<1> QED BY <1>1, <1>2, <1>3, <1>5

LEMMA FrontIs ==
    ASSUME NEW S, NEW w \in Seq(S), w # <<>>
    PROVE  /\ Front(w) \in Seq(S) /\ Len(Front(w)) = Len(w) - 1 /\ Len(w) \in Nat \ {0}
           /\ \A d \in 1..Len(w) - 1 : Front(w)[d] = w[d]
           /\ Len(w) = 1 => Front(w) = <<>>
<1>1. Len(w) \in Nat \ {0} OBVIOUS
<1>2. Front(w) = SubSeq(w, 1, Len(w) - 1) BY DEF Front
<1>3. \A d \in 1..Len(w) - 1 : w[d] \in S BY <1>1
<1> DEFINE n == Len(w) - 1
           f == SubSeq(w, 1, n)
<1>4. f \in Seq(S) /\ Len(f) = n /\ \A d \in 1..n : f[d] = w[d]
  <2>1. n \in Int /\ 1 \in Int /\ n >= 0 BY <1>1
  <2> HIDE DEF n
  <2>2. /\ f \in Seq(S) /\ Len(f) = IF 1 <= n THEN n - 1 + 1 ELSE 0
        /\ \A d \in 1..n - 1 + 1 : f[d] = w[1 + d - 1]
    BY <2>1, <1>3, SubSeqProperties DEF n
  <2> HIDE DEF f
  <2>3. Len(f) = n BY <2>1, <2>2
  <2>4. \A d \in 1..n : d \in 1..n - 1 + 1 /\ 1 + d - 1 = d BY <2>1
  <2> QED BY <2>2, <2>3, <2>4
<1> QED BY <1>1, <1>2, <1>4

LEMMA ShapeAt ==
    ASSUME NEW w, Shape(w), NEW d \in 1..Len(w)
    PROVE  /\ Len(w) \in Nat \ {0} /\ w # <<>> /\ DOMAIN w = 1..Len(w)
           /\ w[d].x \in JsonValue /\ w[d].x.t \in {"object", "array"}
           /\ Len(w[d].x.v) \in Nat /\ DOMAIN w[d].x.v = 1..Len(w[d].x.v)
           /\ w[d].at \in 1..Len(w[d].x.v) + 1
           /\ d < Len(w) => w[d].at \in 1..Len(w[d].x.v) /\ w[d + 1].x = Item(w[d]).val
           /\ w[d].x.t = "array" => d > 1 /\ w[d - 1].x.t = "object"
<1>1. /\ w \in Seq([x : JsonValue, at : Nat])
      /\ w[d].x.t \in {"object", "array"} /\ w[d].at \in 1..Len(w[d].x.v) + 1
      /\ d = 1 => w[d].x.t = "object"
  BY DEF Shape
<1> DEFINE E == [x : JsonValue, at : Nat]
<1>2. Len(w) \in Nat \ {0} /\ w # <<>> /\ DOMAIN w = 1..Len(w) /\ \A e \in 1..Len(w) : w[e] \in E
  <2>1. w \in Seq(E) BY <1>1
  <2> HIDE DEF E
  <2> QED BY <2>1
<1>3. w[d].x \in JsonValue BY <1>2
<1>4. Len(w[d].x.v) \in Nat /\ DOMAIN w[d].x.v = 1..Len(w[d].x.v) BY <1>1, <1>3, ItemIn
<1>5. ASSUME d < Len(w) PROVE w[d].at \in 1..Len(w[d].x.v) /\ w[d + 1].x = Item(w[d]).val
  <2>1. d + 1 \in 1..Len(w) /\ d + 1 > 1 /\ (d + 1) - 1 = d BY <1>2, <1>5
  <2>2. w[d].at <= Len(w[d].x.v) /\ w[d + 1].x = Item(w[d]).val BY <2>1 DEF Shape
  <2> QED BY <1>1, <1>4, <2>2
<1>6. ASSUME w[d].x.t = "array" PROVE d > 1 /\ w[d - 1].x.t = "object"
  <2>1. d > 1 BY <1>1, <1>6
  <2>2. d - 1 \in 1..Len(w) BY <1>2, <2>1
  <2>3. w[d - 1].x.t \in {"object", "array"} /\ w[d].x = Item(w[d - 1]).val
        /\ w[d - 1].at <= Len(w[d - 1].x.v) /\ w[d - 1].at \in 1..Len(w[d - 1].x.v) + 1
    BY <2>1, <2>2 DEF Shape
  <2>4. w[d - 1].x \in JsonValue
    <3>1. w[d - 1] \in E BY <1>2, <2>2
    <3> QED BY <3>1
  <2>5. w[d - 1].at \in 1..Len(w[d - 1].x.v) BY <2>3, <2>4, ItemIn
  <2> QED BY <1>6, <2>1, <2>3, <2>4, <2>5, ItemIn
<1> QED BY <1>1, <1>2, <1>3, <1>4, <1>5, <1>6

LEMMA ShapeAdvance ==
    ASSUME NEW w, Shape(w), w # <<>>, w[Len(w)].at <= Len(w[Len(w)].x.v)
    PROVE  Shape(Advance(w)) /\ Advance(w) # <<>> /\ Advance(w)[1].x = w[1].x
<1> DEFINE n == Len(w)
           a == Advance(w)
           E == [x : JsonValue, at : Nat]
<1>1. w \in Seq(E) BY DEF Shape
<1>2. /\ n \in Nat \ {0} /\ w[n].x \in JsonValue /\ w[n].at \in Nat
      /\ a \in Seq(E) /\ Len(a) = n
      /\ a[n].x = w[n].x /\ a[n].at = w[n].at + 1
      /\ \A d \in 1..n - 1 : a[d] = w[d]
  BY <1>1, AdvanceIs
<1> HIDE DEF a, E
<1>3. ASSUME NEW d \in 1..Len(a)
      PROVE  /\ a[d].x.t \in {"object", "array"} /\ a[d].at \in 1..Len(a[d].x.v) + 1
             /\ d > 1 => a[d - 1].at <= Len(a[d - 1].x.v) /\ a[d].x = Item(a[d - 1]).val
             /\ d = 1 => a[d].x.t = "object"
  <2>1. d \in 1..Len(w) BY <1>2
  <2>2. a[d].x = w[d].x
    <3>1. CASE d = n BY <3>1, <1>2
    <3>2. CASE d # n
      <4>1. d \in 1..n - 1
        <5>1. n \in Nat /\ d \in 1..n BY <1>2, <2>1
        <5> HIDE DEF n
        <5> QED BY <3>2, <5>1
      <4>2. a[d] = w[d] BY <4>1, <1>2
      <4> QED BY <4>2
    <3> QED BY <3>1, <3>2
  <2>3. /\ w[d].x.t \in {"object", "array"} /\ w[d].at \in 1..Len(w[d].x.v) + 1
        /\ d > 1 => w[d - 1].at <= Len(w[d - 1].x.v) /\ w[d].x = Item(w[d - 1]).val
        /\ d = 1 => w[d].x.t = "object"
        /\ Len(w[d].x.v) \in Nat
    BY <2>1, ShapeAt DEF Shape
  <2>4. ASSUME d > 1 PROVE a[d - 1] = w[d - 1]
    <3>1. d - 1 \in 1..n - 1
      <4>1. n \in Nat /\ d \in 1..n BY <1>2, <2>1
      <4> HIDE DEF n
      <4> QED BY <2>4, <4>1
    <3> QED BY <1>2, <3>1
  <2>5. a[d].at \in 1..Len(w[d].x.v) + 1
    <3>1. CASE d = n BY <3>1, <1>2, <2>3
    <3>2. CASE d # n
      <4>1. d \in 1..n - 1
        <5>1. n \in Nat /\ d \in 1..n BY <1>2, <2>1
        <5> HIDE DEF n
        <5> QED BY <3>2, <5>1
      <4>2. a[d] = w[d] BY <4>1, <1>2
      <4> QED BY <4>2, <2>3
    <3> QED BY <3>1, <3>2
  <2> QED BY <2>2, <2>3, <2>4, <2>5
<1>4. Shape(a) BY <1>2, <1>3 DEF Shape, E
<1>5. a # <<>> BY <1>2
<1>6. a[1].x = w[1].x
  <2>1. CASE n = 1 BY <1>2, <2>1
  <2>2. CASE n # 1
    <3>1. 1 \in 1..n - 1
      <4>1. n \in Nat \ {0} BY <1>2
      <4> HIDE DEF n
      <4> QED BY <2>2, <4>1
    <3> QED BY <1>2, <3>1
  <2> QED BY <2>1, <2>2
<1> QED BY <1>4, <1>5, <1>6 DEF a

LEMMA ShapeFront ==
    ASSUME NEW w, Shape(w), w # <<>>, Len(w) # 1
    PROVE  /\ Shape(Front(w)) /\ Front(w) # <<>> /\ Front(w)[1] = w[1]
           /\ Front(w)[Len(Front(w))].at <= Len(Front(w)[Len(Front(w))].x.v)
<1> DEFINE E == [x : JsonValue, at : Nat]
<1>1. w \in Seq(E) BY DEF Shape
<1> HIDE DEF E
<1>2. /\ Front(w) \in Seq(E) /\ Len(Front(w)) = Len(w) - 1 /\ Len(w) \in Nat \ {0}
      /\ \A d \in 1..Len(w) - 1 : Front(w)[d] = w[d]
  BY <1>1, FrontIs
<1>3. Front(w) # <<>> /\ Front(w)[1] = w[1] BY <1>2
<1>4. Shape(Front(w))
  <2>1. ASSUME NEW d \in 1..Len(Front(w))
        PROVE  /\ Front(w)[d] = w[d] /\ d \in 1..Len(w)
               /\ d > 1 => Front(w)[d - 1] = w[d - 1]
    BY <1>2
  <2> QED BY <1>2, <2>1 DEF Shape, E
<1>5. Len(w) - 1 \in 1..Len(w) /\ Len(w) - 1 < Len(w) BY <1>2
<1>6. w[Len(w) - 1].at \in 1..Len(w[Len(w) - 1].x.v) BY <1>5, ShapeAt
<1>7. Len(w[Len(w) - 1].x.v) \in Nat BY <1>5, ShapeAt
<1> QED BY <1>2, <1>3, <1>4, <1>6, <1>7

LEMMA ShapeEnter ==
    ASSUME NEW w, Shape(w), NEW y \in JsonValue, y.t \in {"object", "array"},
           IF w = <<>> THEN y.t = "object"
           ELSE w[Len(w)].at <= Len(w[Len(w)].x.v) /\ y = Item(w[Len(w)]).val
    PROVE  /\ Shape(Append(w, [x |-> y, at |-> 1]))
           /\ Append(w, [x |-> y, at |-> 1]) # <<>>
           /\ Append(w, [x |-> y, at |-> 1])[1] = IF w = <<>> THEN [x |-> y, at |-> 1] ELSE w[1]
<1> DEFINE c == [x |-> y, at |-> 1]
           E == [x : JsonValue, at : Nat]
           a == Append(w, c)
           n == Len(w)
<1>1. w \in Seq(E) /\ c \in E /\ n \in Nat BY DEF Shape
<1>2. c.x = y /\ c.at = 1 OBVIOUS
<1> HIDE DEF c
<1>3. a \in Seq(E) /\ Len(a) = n + 1 /\ a[n + 1] = c /\ \A d \in 1..n : a[d] = w[d]
  <2> HIDE DEF E
  <2> QED BY <1>1
<1> HIDE DEF a
<1>4. ASSUME NEW d \in 1..n + 1
      PROVE  /\ a[d].x.t \in {"object", "array"} /\ a[d].at \in 1..Len(a[d].x.v) + 1
             /\ d > 1 => a[d - 1].at <= Len(a[d - 1].x.v) /\ a[d].x = Item(a[d - 1]).val
             /\ d = 1 => a[d].x.t = "object"
  <2>1. CASE d \in 1..n
    <3>1. a[d] = w[d] /\ (d > 1 => a[d - 1] = w[d - 1])
      <4>1. d > 1 => d - 1 \in 1..n BY <2>1, <1>1
      <4> QED BY <1>3, <2>1, <4>1
    <3> QED BY <2>1, <3>1 DEF Shape
  <2>2. CASE d = n + 1
    <3>1. a[d] = c BY <1>3, <2>2
    <3>2. Len(c.x.v) \in Nat BY <1>2, ItemIn
    <3>3. d > 1 => w # <<>> /\ d - 1 = n /\ a[d - 1] = w[n] BY <1>1, <1>3, <2>2
    <3>4. d = 1 => w = <<>> BY <1>1, <2>2
    <3> QED BY <1>2, <3>1, <3>2, <3>3, <3>4
  <2> QED BY <1>1, <2>1, <2>2
<1>5. Shape(a) BY <1>3, <1>4 DEF Shape
<1>6. a # <<>> /\ a[1] = IF w = <<>> THEN c ELSE w[1] BY <1>1, <1>3
<1> QED BY <1>5, <1>6 DEF a, c

\* What ForEach comes to.
LEMMA ComesTo ==
    ASSUME NEW kinds, WalkInv, Comes(kinds)
    PROVE  /\ Cur.val \in JsonValue /\ Cur.val.t \in kinds
           /\ walk = <<>> => Cur.val = doc /\ Cur.name = NoName /\ "object" \in kinds /\ pbMsgs = <<>>
           /\ walk # <<>> => /\ Len(walk) \in 1..Len(walk) /\ Inner = walk[Len(walk)]
                             /\ Inner.at <= Len(Inner.x.v) /\ Cur = Item(Inner) /\ ~fails
                             /\ Inner.x \in JsonValue /\ Inner.x.t \in {"object", "array"}
                             /\ Inner.at \in 1..Len(Inner.x.v)
<1>1. CASE walk = <<>>
  <2>1. Cur.val = doc /\ Cur.name = NoName BY <1>1 DEF Cur, Member
  <2> QED BY <1>1, <2>1 DEF WalkInv, Comes
<1>2. CASE walk # <<>>
  <2>1. walk \in Seq([x : JsonValue, at : Nat]) BY DEF WalkInv, Shape
  <2>2. Len(walk) \in 1..Len(walk)
    <3> DEFINE E == [x : JsonValue, at : Nat]
    <3>1. walk \in Seq(E) BY <2>1
    <3> HIDE DEF E
    <3> QED BY <1>2, <3>1
  <2>3. Inner = walk[Len(walk)] BY DEF Inner, Last
  <2>4. Inner.at <= Len(Inner.x.v) /\ Cur = Item(Inner) /\ ~fails /\ Cur.val.t \in kinds
    BY <1>2 DEF Comes, Cur
  <2>5. /\ Inner.x \in JsonValue /\ Inner.x.t \in {"object", "array"}
        /\ Inner.at \in 1..Len(Inner.x.v) + 1 /\ Len(Inner.x.v) \in Nat
    BY <2>2, <2>3, ShapeAt DEF WalkInv
  <2>6. Inner.at \in 1..Len(Inner.x.v) BY <2>4, <2>5
  <2>7. Cur.val \in JsonValue BY <2>4, <2>5, <2>6, ItemIn
  <2> QED BY <1>2, <2>2, <2>3, <2>4, <2>5, <2>6, <2>7
<1> QED BY <1>1, <1>2

LEMMA EndsAt ==
    ASSUME NEW kind, WalkInv, Ends(kind)
    PROVE  /\ walk # <<>> /\ Len(walk) \in 1..Len(walk) /\ Inner = walk[Len(walk)] /\ Inner.x.t = kind
           /\ ~fails => Inner.at = Len(Inner.x.v) + 1
           /\ Inner.x \in JsonValue /\ Len(Inner.x.v) \in Nat /\ Inner.at \in 1..Len(Inner.x.v) + 1
<1>1. walk # <<>> /\ Inner.x.t = kind BY DEF Ends
<1>2. Inner = walk[Len(walk)] BY DEF Inner, Last
<1>3. Len(walk) \in 1..Len(walk)
  <2> DEFINE E == [x : JsonValue, at : Nat]
  <2>1. walk \in Seq(E) BY DEF WalkInv, Shape
  <2> HIDE DEF E
  <2> QED BY <1>1, <2>1
<1>4. Inner.x \in JsonValue /\ Len(Inner.x.v) \in Nat /\ Inner.at \in 1..Len(Inner.x.v) + 1
  BY <1>2, <1>3, ShapeAt DEF WalkInv
<1>5. ~fails => Inner.at = Len(Inner.x.v) + 1 BY <1>4 DEF Ends
<1> QED BY <1>1, <1>2, <1>3, <1>4, <1>5

LEMMA WalkInit == PbInit => WalkInv
<1> SUFFICES ASSUME PbInit PROVE WalkInv OBVIOUS
<1>1. walk = <<>> /\ fails = FALSE BY DEF PbInit
<1>2. Shape(walk)
  <2>1. walk \in Seq([x : JsonValue, at : Nat]) /\ Len(walk) = 0 BY <1>1
  <2> QED BY <2>1 DEF Shape
<1>3. CASE \E m \in Samples : source = m /\ doc = Pb2json[m]
  <2>1. source \in Message /\ doc = Pb2json[source] BY <1>3, DataAssumption DEF MessageAssumption
  <2>2. doc \in JsonValue /\ doc.t = "object" BY <2>1, WrittenObject, JsonAssumption
  <2> QED BY <1>1, <1>2, <2>1, <2>2 DEF WalkInv
<1>4. CASE source = NoMessage /\ doc \in Docs
  <2>1. doc \in JsonValue /\ doc.t = "object" BY <1>4, JsonAssumption
  <2> QED BY <1>1, <1>2, <1>4, <2>1 DEF WalkInv
<1> QED BY <1>3, <1>4 DEF PbInit

LEMMA WalkAdvance ==
    ASSUME WalkInv, NEW kinds, Comes(kinds), "object" \notin kinds,
           walk' = Advance(walk), Same, fails' \in BOOLEAN
    PROVE  WalkInv'
<1>1. walk # <<>> /\ walk[Len(walk)].at <= Len(walk[Len(walk)].x.v) BY ComesTo
<1>2. Shape(walk) /\ walk[1].x = doc BY <1>1 DEF WalkInv
<1>3. Shape(walk') /\ walk' # <<>> /\ walk'[1].x = doc BY <1>1, <1>2, ShapeAdvance
<1>4. (Shape(walk))' BY <1>3 DEF Shape, Item
<1> QED BY <1>3, <1>4 DEF WalkInv, Same

LEMMA WalkEnter ==
    ASSUME WalkInv, NEW kinds, Comes(kinds), kinds \subseteq {"object", "array"}, Enter, Same, fails' = fails
    PROVE  WalkInv'
<1> DEFINE y == Cur.val
           c == [x |-> y, at |-> 1]
<1>1. y \in JsonValue /\ y.t \in {"object", "array"} BY ComesTo
<1>2. IF walk = <<>> THEN y.t = "object" /\ y = doc
      ELSE walk[Len(walk)].at <= Len(walk[Len(walk)].x.v) /\ y = Item(walk[Len(walk)]).val
  <2>1. doc.t = "object" BY DEF WalkInv
  <2> QED BY <2>1, ComesTo
<1>3. walk' = Append(walk, [x |-> y, at |-> 1]) BY DEF Enter
<1> HIDE DEF y
<1>4. Shape(walk) /\ (walk # <<>> => walk[1].x = doc) BY DEF WalkInv
<1>5. Shape(walk') /\ walk' # <<>> /\ walk'[1] = IF walk = <<>> THEN c ELSE walk[1]
  BY <1>1, <1>2, <1>3, <1>4, ShapeEnter
<1>6. walk'[1].x = doc BY <1>2, <1>4, <1>5
<1>7. (Shape(walk))' BY <1>5 DEF Shape, Item
<1> QED BY <1>6, <1>7 DEF WalkInv, Same

LEMMA WalkLeave ==
    ASSUME WalkInv, NEW kind, Ends(kind), Leave, Same, fails' = fails
    PROVE  WalkInv'
<1>1. walk # <<>> /\ Shape(walk) /\ walk[1].x = doc BY EndsAt DEF WalkInv
<1>2. walk' = Advance(Front(walk)) BY DEF Leave
<1>3. Shape(walk') /\ (walk' # <<>> => walk'[1].x = doc)
  <2>1. CASE Len(walk) = 1
    <3>1. Front(walk) = <<>>
      <4> DEFINE E == [x : JsonValue, at : Nat]
      <4>1. walk \in Seq(E) BY DEF WalkInv, Shape
      <4> HIDE DEF E
      <4> QED BY <1>1, <2>1, <4>1, FrontIs
    <3>2. walk' = <<>> BY <1>2, <3>1 DEF Advance
    <3>3. walk' \in Seq([x : JsonValue, at : Nat]) /\ Len(walk') = 0 BY <3>2
    <3> QED BY <3>2, <3>3 DEF Shape
  <2>2. CASE Len(walk) # 1
    <3> DEFINE f == Front(walk)
    <3>1. Shape(f) /\ f # <<>> /\ f[1] = walk[1] /\ f[Len(f)].at <= Len(f[Len(f)].x.v)
      BY <1>1, <2>2, ShapeFront
    <3> HIDE DEF f
    <3>2. Shape(Advance(f)) /\ Advance(f)[1].x = f[1].x BY <3>1, ShapeAdvance
    <3> QED BY <1>1, <1>2, <3>1, <3>2 DEF f
  <2> QED BY <2>1, <2>2
<1>4. (Shape(walk))' BY <1>3 DEF Shape, Item
<1> QED BY <1>3, <1>4 DEF WalkInv, Same

LEMMA WalkStep == WalkInv /\ [PbNext]_pbVars => WalkInv'
<1> SUFFICES ASSUME WalkInv, [PbNext]_pbVars PROVE WalkInv' OBVIOUS
<1>0. fails \in BOOLEAN BY DEF WalkInv
<1>1. CASE CreateMessage BY <1>0, <1>1, WalkAdvance DEF CreateMessage, NamesType
<1>2. CASE SetMessage
  <2>1. fails' \in BOOLEAN BY <1>2 DEF SetMessage
  <2> QED BY <1>2, <2>1, WalkAdvance DEF SetMessage, Scalar
<1>3. CASE ArrayBegin BY <1>3, WalkEnter DEF ArrayBegin
<1>4. CASE ArrayEnd BY <1>4, WalkLeave DEF ArrayEnd
<1>5. CASE ObjectBegin BY <1>5, WalkEnter DEF ObjectBegin
<1>6. CASE ObjectEndRoot BY <1>6, WalkLeave DEF ObjectEndRoot
<1>7. CASE ObjectEnd BY <1>7, WalkLeave DEF ObjectEnd
<1>8. CASE UNCHANGED <<source, doc, walk, fails>> BY <1>8 DEF WalkInv, Shape, Item
<1>9. SetMessageCrash \/ ObjectEndCrash \/ Json2pb \/ UNCHANGED pbVars
      => UNCHANGED <<source, doc, walk, fails>>
  BY DEF SetMessageCrash, ObjectEndCrash, Json2pb, Crash, pbVars
<1> QED BY <1>1, <1>2, <1>3, <1>4, <1>5, <1>6, <1>7, <1>8, <1>9 DEF PbNext

-----------------------------------------------------------------------------
(* The stack                                                               *)

LEMMA TypedMessage ==
    ASSUME NEW m, NEW T, IsTyped(m, T)
    PROVE  /\ m.type = T /\ m # NoMessage
           /\ \A fd, x : IsTyped(With(m, fd, x), T)
<1>1. m = [type |-> T, f |-> m.f] BY DEF IsTyped
<1>2. m.type = T BY <1>1
<1>3. "f" \in DOMAIN m BY <1>1
<1>4. "f" \notin DOMAIN NoMessage BY DEF NoMessage
<1>5. ASSUME NEW fd, NEW x PROVE IsTyped(With(m, fd, x), T)
  <2> DEFINE old == IF fd.name \in DOMAIN m.f THEN m.f[fd.name] ELSE <<>>
             new == IF fd.repeated THEN Append(old, x) ELSE x
             g == [n \in DOMAIN m.f \cup {fd.name} |-> IF n = fd.name THEN new ELSE m.f[n]]
  <2>1. With(m, fd, x) = [m EXCEPT !.f = g] BY DEF With
  <2> HIDE DEF g
  <2>2. [m EXCEPT !.f = g] = [type |-> T, f |-> g] BY <1>1
  <2> QED BY <2>1, <2>2 DEF IsTyped
<1> QED BY <1>2, <1>3, <1>4, <1>5

LEMMA TypedNames ==
    ASSUME NEW x \in JsonValue, x.t = "object", TypedObject(x)
    PROVE  /\ Len(x.v) \in Nat \ {0} /\ RootType(x) \in DOMAIN Field
           /\ x.v[1].name \in AtNames /\ x.v[1].val.t = "string" /\ x.v[1].val.v = RootType(x)
           /\ \A j \in 2..Len(x.v) :
                 x.v[j].name # NoName /\ (x.v[j].name \in AtNames => NamesNone(x.v[j].val))
<1>1. x.v \in Seq({x.v[j] : j \in DOMAIN x.v}) BY JsonAssumption DEF IsSequence
<1>2. x.v # <<>> BY DEF TypedObject
<1> DEFINE v == x.v
<1>3. Len(v) \in Nat \ {0} /\ DOMAIN v = 1..Len(v)
  <2> HIDE DEF v
  <2> QED BY <1>1, <1>2 DEF v
<1>4. \A j \in 2..Len(v) : j \in DOMAIN v BY <1>3
<1>5. \A j \in 2..Len(v) : v[j].name # NoName BY <1>4, JsonAssumption
<1>6. \A j \in 2..Len(v) : v[j].name \in AtNames => NamesNone(v[j].val) BY DEF TypedObject
<1> QED BY <1>3, <1>5, <1>6 DEF TypedObject, RootType

LEMMA ObjectAt ==
    ASSUME NEW w, NEW p, NEW fl, Shape(w), Stack(w, p, fl),
           NEW d \in 1..Len(w), w[d].x.t = "object"
    PROVE  LET x == w[d].x IN
           /\ TypedObject(x) /\ RootType(x) \in DOMAIN Field /\ p[d].flag = 0
           /\ Len(x.v) \in Nat \ {0} /\ w[d].at \in 1..Len(x.v) + 1
           /\ w[d].at > 1 => /\ IsTyped(p[d].msg, RootType(x)) /\ p[d].msg # NoMessage
                             /\ p[d].msg.type = RootType(x)
                             /\ d > 1 => p[d].key = KeyOf(w, d)
           /\ w[d].at = 1 => /\ d = Len(w) /\ ~fl /\ p[d].msg = NoMessage
                             /\ d > 1 => p[d].key = Item(w[d - 1]).name
                             /\ Item(w[d]).name \in AtNames /\ Item(w[d]).val.t = "string"
                             /\ Item(w[d]).val.v = RootType(x)
           /\ w[d].at \in 2..Len(x.v) =>
                 /\ Item(w[d]) = x.v[w[d].at] /\ Item(w[d]).name # NoName
                 /\ Item(w[d]).name \in AtNames => NamesNone(Item(w[d]).val)
           /\ d < Len(w) => w[d].at \in 2..Len(x.v)
<1> DEFINE x == w[d].x
<1>1. /\ x \in JsonValue /\ w[d].at \in 1..Len(x.v) + 1
      /\ d < Len(w) => w[d].at \in 1..Len(x.v)
  BY ShapeAt
<1>2. WellTyped[x] /\ Entry(w, p, fl, d) /\ w # <<>>
  <2>1. w # <<>> BY ShapeAt
  <2> QED BY <2>1 DEF Stack
<1>3. TypedObject(x) BY <1>1, <1>2, WellTypedDef
<1>4. /\ Len(x.v) \in Nat \ {0} /\ RootType(x) \in DOMAIN Field
      /\ x.v[1].name \in AtNames /\ x.v[1].val.t = "string" /\ x.v[1].val.v = RootType(x)
      /\ \A j \in 2..Len(x.v) :
            x.v[j].name # NoName /\ (x.v[j].name \in AtNames => NamesNone(x.v[j].val))
  BY <1>1, <1>3, TypedNames
<1>5. Item(w[d]) = x.v[w[d].at] BY DEF Item
<1>6. /\ p[d].flag = 0
      /\ w[d].at = 1 => /\ d = Len(w) /\ ~fl /\ p[d].msg = NoMessage
                        /\ d > 1 => p[d].key = Item(w[d - 1]).name
      /\ w[d].at # 1 => /\ IsTyped(p[d].msg, RootType(x))
                        /\ d > 1 => p[d].key = KeyOf(w, d)
  BY <1>2 DEF Entry
<1>7. w[d].at > 1 => p[d].msg # NoMessage /\ p[d].msg.type = RootType(x)
  BY <1>6, TypedMessage
<1>8. d < Len(w) => w[d].at \in 2..Len(x.v) BY <1>1, <1>4, <1>6
<1> HIDE DEF x
<1> QED BY <1>1, <1>3, <1>4, <1>5, <1>6, <1>7, <1>8 DEF x

LEMMA ArrayAt ==
    ASSUME NEW w, NEW p, NEW fl, Shape(w), Stack(w, p, fl),
           NEW d \in 1..Len(w), w[d].x.t = "array"
    PROVE  /\ d > 1 /\ d - 1 \in 1..Len(w) /\ d - 1 < Len(w) /\ w[d - 1].x.t = "object"
           /\ w[d - 1].at \in 2..Len(w[d - 1].x.v) /\ w[d - 1].at > 1
           /\ p[d].flag = 1 /\ p[d].msg = Garbage /\ p[d].key = Item(w[d - 1]).name
           /\ p[d].key # NoName
           /\ w[d].at \in 1..Len(w[d].x.v) =>
                 /\ Item(w[d]).name = NoName /\ Item(w[d]).val.t # "array"
                 /\ p[d].key \in AtNames /\ Item(w[d]).val.t = "string" =>
                       Item(w[d]).val.v \notin DOMAIN Field
<1>1. d > 1 /\ w[d - 1].x.t = "object" /\ Len(w) \in Nat /\ w # <<>> BY ShapeAt
<1>2. d - 1 \in 1..Len(w) /\ d - 1 < Len(w) BY <1>1
<1>3. /\ w[d - 1].at \in 2..Len(w[d - 1].x.v) /\ Item(w[d - 1]).name # NoName
      /\ Item(w[d - 1]).name \in AtNames => NamesNone(Item(w[d - 1]).val)
  BY <1>1, <1>2, ObjectAt
<1>4. w[d - 1].at > 1
  <2>1. Len(w[d - 1].x.v) \in Nat BY <1>2, ShapeAt
  <2> QED BY <1>3, <2>1
<1>5. Entry(w, p, fl, d) BY <1>1 DEF Stack
<1>6. p[d].flag = 1 /\ p[d].msg = Garbage /\ p[d].key = Item(w[d - 1]).name BY <1>5 DEF Entry
<1>7. w[d].x \in JsonValue /\ w[d].x = Item(w[d - 1]).val BY <1>1, ShapeAt
<1>8. ASSUME w[d].at \in 1..Len(w[d].x.v), p[d].key \in AtNames, Item(w[d]).val.t = "string"
      PROVE  Item(w[d]).val.v \notin DOMAIN Field
  <2>1. Item(w[d]).val \in Components(w[d].x) BY <1>7, <1>8, ItemIn
  <2>2. NamesNone(w[d].x) BY <1>3, <1>6, <1>7, <1>8
  <2> QED BY <2>1, <2>2, <1>8 DEF NamesNone, Values
<1> QED BY <1>1, <1>2, <1>3, <1>4, <1>6, <1>7, <1>8, ItemIn

\* The object that has the field an object is in.
OwnerAt(w, d) == IF w[d - 1].x.t = "object" THEN d - 1 ELSE d - 2

LEMMA KeyIn ==
    ASSUME NEW w, NEW p, NEW fl, Shape(w), Stack(w, p, fl),
           NEW d \in 2..Len(w), w[d].x.t = "object"
    PROVE  LET o == OwnerAt(w, d)
               T == RootType(w[o].x)
               fd == FieldOf(T, KeyOf(w, d)) IN
           /\ o \in 1..Len(w) /\ o < d /\ w[o].x.t = "object"
           /\ w[o].at \in 2..Len(w[o].x.v) /\ w[o].at > 1
           /\ KeyOf(w, d) = Item(w[o]).name
           /\ w[d - 1].x.t = "array" => p[d - 1].flag = 1
           /\ w[d - 1].x.t = "object" => p[d - 1].flag = 0
           /\ w[d - 1].x.t \in {"object", "array"}
           /\ KeyOf(w, d) \in FieldNames(T) => fd.cpp = "message" /\ fd.type \in {AnyType, RootType(w[d].x)}
<1> DEFINE o == OwnerAt(w, d)
           y == w[o].x
           j == w[o].at
<1>1. d - 1 \in 1..Len(w) /\ d - 1 < Len(w) /\ Len(w) \in Nat BY ShapeAt
<1>2. w[d - 1].x.t \in {"object", "array"} BY <1>1, ShapeAt
<1>3. o \in 1..Len(w) /\ o < d /\ o < Len(w) /\ w[o].x.t = "object" /\ KeyOf(w, d) = Item(w[o]).name
  <2>1. CASE w[d - 1].x.t = "object" BY <1>1, <2>1 DEF OwnerAt, KeyOf
  <2>2. CASE w[d - 1].x.t = "array"
    <3>1. d - 1 > 1 /\ w[d - 1 - 1].x.t = "object" BY <1>1, <2>2, ArrayAt
    <3>2. d - 1 - 1 = d - 2 OBVIOUS
    <3>3. OwnerAt(w, d) = d - 2 /\ KeyOf(w, d) = Item(w[d - 2]).name BY <2>2 DEF OwnerAt, KeyOf
    <3> QED BY <1>1, <3>1, <3>2, <3>3
  <2> QED BY <1>2, <2>1, <2>2
<1>4. w[d - 1].x.t = "array" => p[d - 1].flag = 1 BY <1>1, ArrayAt
<1>5. w[d - 1].x.t = "object" => p[d - 1].flag = 0 BY <1>1, ObjectAt
<1>6. TypedObject(y) /\ j \in 2..Len(y.v) /\ Item(w[o]) = y.v[j] /\ Len(y.v) \in Nat
  BY <1>3, ObjectAt
<1>7. j > 1 BY <1>6
<1>8. w[d].x \in {y.v[j].val} \cup (IF y.v[j].val.t = "array" THEN Components(y.v[j].val) ELSE {})
  <2>1. CASE w[d - 1].x.t = "object"
    <3>1. o = d - 1 /\ w[d].x = Item(w[o]).val
      <4>1. o = d - 1 BY <2>1 DEF OwnerAt
      <4>2. w[d - 1 + 1].x = Item(w[d - 1]).val BY <1>1, ShapeAt
      <4>3. d - 1 + 1 = d OBVIOUS
      <4> HIDE DEF o
      <4> QED BY <4>1, <4>2, <4>3
    <3> QED BY <1>6, <3>1
  <2>2. CASE w[d - 1].x.t = "array"
    <3>1. o = d - 2 BY <2>2 DEF OwnerAt
    <3>2. w[o + 1].x = Item(w[o]).val BY <1>3, ShapeAt
    <3>3. w[d - 1 + 1].x = Item(w[d - 1]).val /\ w[d - 1].x \in JsonValue
          /\ w[d - 1].at \in 1..Len(w[d - 1].x.v) BY <1>1, ShapeAt
    <3>4. d - 1 + 1 = d /\ o + 1 = d - 1 BY <3>1
    <3>5. w[d].x \in Components(w[d - 1].x)
      <4>1. Item(w[d - 1]).val \in Components(w[d - 1].x) BY <2>2, <3>3, ItemIn
      <4> QED BY <3>3, <3>4, <4>1
    <3>6. w[d - 1].x = y.v[j].val
      <4> HIDE DEF o
      <4> QED BY <1>6, <3>2, <3>4
    <3> QED BY <2>2, <3>5, <3>6
  <2> QED BY <1>2, <2>1, <2>2
<1> HIDE DEF o, y, j
<1>9. LET T == RootType(y)
          fd == FieldOf(T, y.v[j].name) IN
      y.v[j].name \in FieldNames(T) => fd.cpp = "message" /\ fd.type \in {AnyType, RootType(w[d].x)}
  BY <1>6, <1>8 DEF TypedObject, Values
<1> QED BY <1>2, <1>3, <1>4, <1>5, <1>6, <1>7, <1>9 DEF o, y, j

LEMMA StackIs ==
    ASSUME NEW p, IsStack(p)
    PROVE  /\ Len(p) \in Nat /\ DOMAIN p = 1..Len(p) /\ (Len(p) = 0 <=> p = <<>>)
           /\ \A d \in 1..Len(p) : IsPbMsg(p[d])
           /\ \A e : IsPbMsg(e) =>
                 /\ IsStack(Append(p, e)) /\ Len(Append(p, e)) = Len(p) + 1
                 /\ Append(p, e)[Len(p) + 1] = e
                 /\ \A d \in 1..Len(p) : Append(p, e)[d] = p[d]
           /\ p # <<>> => /\ IsStack(Front(p)) /\ Len(Front(p)) = Len(p) - 1
                          /\ \A d \in 1..Len(p) - 1 : Front(p)[d] = p[d]
                          /\ Last(p) = p[Len(p)]
<1>1. PICK E : p \in Seq(E) /\ \A e \in E : IsPbMsg(e) BY DEF IsStack
<1>2. /\ Len(p) \in Nat /\ DOMAIN p = 1..Len(p) /\ (Len(p) = 0 <=> p = <<>>)
      /\ \A d \in 1..Len(p) : p[d] \in E BY <1>1
<1>3. ASSUME NEW e, IsPbMsg(e)
      PROVE  /\ IsStack(Append(p, e)) /\ Len(Append(p, e)) = Len(p) + 1
             /\ Append(p, e)[Len(p) + 1] = e
             /\ \A d \in 1..Len(p) : Append(p, e)[d] = p[d]
  <2> DEFINE F == E \cup {e}
  <2>1. p \in Seq(F) /\ e \in F
    <3>1. \A d \in 1..Len(p) : p[d] \in F BY <1>2
    <3>2. p = [d \in 1..Len(p) |-> p[d]] BY <1>1
    <3> HIDE DEF F
    <3>3. p \in Seq(F) BY <1>2, <3>1, <3>2
    <3> QED BY <3>3 DEF F
  <2>2. \A x \in F : IsPbMsg(x) BY <1>1, <1>3
  <2> HIDE DEF F
  <2>3. Append(p, e) \in Seq(F) BY <2>1
  <2>4. IsStack(Append(p, e)) BY <2>2, <2>3 DEF IsStack
  <2> QED BY <2>1, <2>4
<1>4. ASSUME p # <<>>
      PROVE  /\ IsStack(Front(p)) /\ Len(Front(p)) = Len(p) - 1
             /\ \A d \in 1..Len(p) - 1 : Front(p)[d] = p[d]
  <2>1. Front(p) \in Seq(E) BY <1>1, <1>4, FrontIs
  <2>2. IsStack(Front(p)) BY <1>1, <2>1 DEF IsStack
  <2> QED BY <1>1, <1>4, <2>2, FrontIs
<1>5. \A d \in 1..Len(p) : IsPbMsg(p[d]) BY <1>1, <1>2
<1>6. Last(p) = p[Len(p)] BY DEF Last
<1> QED BY <1>2, <1>3, <1>4, <1>5, <1>6

\* A new message in an entry, or a new entry.
LEMMA StackExcept ==
    ASSUME NEW p, IsStack(p), NEW t \in 1..Len(p), NEW m
    PROVE  LET q == [p EXCEPT ![t].msg = m] IN
           /\ IsStack(q) /\ Len(q) = Len(p)
           /\ q[t].flag = p[t].flag /\ q[t].key = p[t].key /\ q[t].msg = m
           /\ \A d \in 1..Len(p) : d # t => q[d] = p[d]
<1> DEFINE q == [p EXCEPT ![t].msg = m]
           e == [flag |-> p[t].flag, msg |-> m, key |-> p[t].key]
<1>1. PICK E : p \in Seq(E) /\ \A x \in E : IsPbMsg(x) BY DEF IsStack
<1> DEFINE F == E \cup {e}
<1>2. p[t] = [flag |-> p[t].flag, msg |-> p[t].msg, key |-> p[t].key] BY StackIs DEF IsPbMsg
<1>3. [p[t] EXCEPT !.msg = m] = e BY <1>2
<1>4. q = [p EXCEPT ![t] = e] BY <1>3
<1>5. IsPbMsg(e) BY DEF IsPbMsg
<1>6. e.flag = p[t].flag /\ e.key = p[t].key /\ e.msg = m OBVIOUS
<1>7. \A x \in F : IsPbMsg(x) BY <1>1, <1>5
<1> HIDE DEF q, e
<1>8. p \in Seq(F) /\ e \in F
  <2>1. \A d \in 1..Len(p) : p[d] \in F BY <1>1
  <2>2. p = [d \in 1..Len(p) |-> p[d]] /\ Len(p) \in Nat BY <1>1
  <2> HIDE DEF F
  <2>3. p \in Seq(F) BY <2>1, <2>2
  <2> QED BY <2>3 DEF F
<1> HIDE DEF F
<1>9. q \in Seq(F) /\ Len(q) = Len(p) /\ q[t] = e /\ \A d \in 1..Len(p) : d # t => q[d] = p[d]
  BY <1>4, <1>8
<1>10. IsStack(q) BY <1>7, <1>9 DEF IsStack
<1> QED BY <1>6, <1>9, <1>10 DEF q

PutAt(p, t, e) == [p EXCEPT ![t] = e]

LEMMA StackReplace ==
    ASSUME NEW p, IsStack(p), NEW t \in 1..Len(p), NEW e, IsPbMsg(e)
    PROVE  /\ IsStack(PutAt(p, t, e)) /\ Len(PutAt(p, t, e)) = Len(p) /\ PutAt(p, t, e)[t] = e
           /\ \A d \in 1..Len(p) : d # t => PutAt(p, t, e)[d] = p[d]
<1>1. PICK E : p \in Seq(E) /\ \A x \in E : IsPbMsg(x) BY DEF IsStack
<1> DEFINE F == E \cup {e}
           q == PutAt(p, t, e)
<1>2. \A x \in F : IsPbMsg(x) BY <1>1
<1>3. p \in Seq(F) /\ e \in F
  <2>1. \A d \in 1..Len(p) : p[d] \in F BY <1>1
  <2>2. p = [d \in 1..Len(p) |-> p[d]] /\ Len(p) \in Nat BY <1>1
  <2> HIDE DEF F
  <2>3. p \in Seq(F) BY <2>1, <2>2
  <2> QED BY <2>3 DEF F
<1> HIDE DEF F
<1>4. q \in Seq(F) /\ Len(q) = Len(p) /\ q[t] = e /\ \A d \in 1..Len(p) : d # t => q[d] = p[d]
  BY <1>3 DEF PutAt
<1>5. IsStack(q) BY <1>2, <1>4 DEF IsStack
<1> QED BY <1>4, <1>5

\* The entries of containers that have begun: of arrays, and of objects that
\* have their message.
Settled(w, p) ==
    /\ IsStack(p) /\ Len(p) = Len(w)
    /\ \A d \in 1..Len(w) :
          /\ WellTyped[w[d].x]
          /\ IF w[d].x.t = "array"
             THEN p[d].flag = 1 /\ p[d].msg = Garbage /\ p[d].key = Item(w[d - 1]).name
             ELSE /\ p[d].flag = 0 /\ IsTyped(p[d].msg, RootType(w[d].x))
                  /\ d > 1 => p[d].key = KeyOf(w, d)
                  /\ d < Len(w) => w[d].at # 1

LEMMA StackSettled ==
    ASSUME NEW w, NEW p, NEW fl, Shape(w), w # <<>>, Stack(w, p, fl),
           w[Len(w)].x.t = "array" \/ w[Len(w)].at # 1
    PROVE  Settled(w, p)
<1>1. Len(p) = Len(w) /\ IsStack(p) BY DEF Stack
<1>2. ASSUME NEW d \in 1..Len(w)
      PROVE  /\ WellTyped[w[d].x]
             /\ IF w[d].x.t = "array"
                THEN p[d].flag = 1 /\ p[d].msg = Garbage /\ p[d].key = Item(w[d - 1]).name
                ELSE /\ p[d].flag = 0 /\ IsTyped(p[d].msg, RootType(w[d].x))
                     /\ d > 1 => p[d].key = KeyOf(w, d)
                     /\ d < Len(w) => w[d].at # 1
  <2>1. WellTyped[w[d].x] /\ Entry(w, p, fl, d) BY DEF Stack
  <2>2. w[d].x.t = "array" \/ w[d].at # 1 BY <2>1 DEF Entry
  <2>3. w[d].x.t \in {"object", "array"} BY ShapeAt
  <2> QED BY <2>1, <2>2 DEF Entry
<1> QED BY <1>1, <1>2 DEF Settled

LEMMA KeySame ==
    ASSUME NEW w, Shape(w), NEW d \in 2..Len(w) + 1, NEW a, \A e \in 1..d - 1 : a[e] = w[e],
           Len(w) \in Nat
    PROVE  /\ d - 1 \in 1..Len(w) /\ a[d - 1] = w[d - 1]
           /\ KeyOf(a, d) = KeyOf(w, d)
<1>1. d - 1 \in 1..Len(w) /\ d - 1 \in 1..d - 1 OBVIOUS
<1>2. a[d - 1] = w[d - 1] BY <1>1
<1>3. w[d - 1].x.t # "object" => a[d - 2] = w[d - 2]
  <2> SUFFICES ASSUME w[d - 1].x.t # "object" PROVE a[d - 2] = w[d - 2] OBVIOUS
  <2>1. w[d - 1].x.t = "array" BY <1>1, ShapeAt
  <2>2. d - 1 > 1 BY <1>1, <2>1, ShapeAt
  <2>3. d - 2 \in 1..d - 1 BY <2>2
  <2> QED BY <2>3
<1> QED BY <1>1, <1>2, <1>3 DEF KeyOf

LEMMA StackAdvance ==
    ASSUME NEW w, NEW p, NEW fl, Shape(w), w # <<>>, w[Len(w)].at <= Len(w[Len(w)].x.v), Settled(w, p)
    PROVE  Stack(Advance(w), p, fl)
<1> DEFINE n == Len(w)
           a == Advance(w)
<1>1. w \in Seq([x : JsonValue, at : Nat]) BY DEF Shape
<1>2. /\ n \in Nat \ {0} /\ w[n].x \in JsonValue /\ w[n].at \in Nat /\ Len(a) = n
      /\ a[n].x = w[n].x /\ a[n].at = w[n].at + 1
      /\ \A d \in 1..n - 1 : a[d] = w[d]
  BY <1>1, AdvanceIs
<1>3. w[n].at \in 1..Len(w[n].x.v) + 1 /\ Len(w[n].x.v) \in Nat
  <2>1. n \in 1..n BY <1>2
  <2> QED BY <2>1, ShapeAt
<1> HIDE DEF a
<1>4. ASSUME NEW d \in 1..Len(a) PROVE WellTyped[a[d].x] /\ Entry(a, p, fl, d)
  <2>1. d \in 1..n BY <1>2
  <2>2. a[d].x = w[d].x /\ (a[d].at = 1 => d < n /\ w[d].at = 1) BY <1>2, <1>3, <2>1
  <2>3. d > 1 => /\ d \in 2..n + 1 /\ \A e \in 1..d - 1 : a[e] = w[e] BY <1>2, <2>1
  <2>4. d > 1 => a[d - 1] = w[d - 1] /\ KeyOf(a, d) = KeyOf(w, d) BY <1>2, <2>3, KeySame
  <2>5. w[d].x.t = "array" => d > 1 BY <2>1, ShapeAt
  <2>6. /\ WellTyped[w[d].x]
        /\ IF w[d].x.t = "array"
           THEN p[d].flag = 1 /\ p[d].msg = Garbage /\ p[d].key = Item(w[d - 1]).name
           ELSE /\ p[d].flag = 0 /\ IsTyped(p[d].msg, RootType(w[d].x))
                /\ d > 1 => p[d].key = KeyOf(w, d)
                /\ d < n => w[d].at # 1
    BY <2>1 DEF Settled
  <2>7. CASE w[d].x.t = "array" BY <2>1, <2>2, <2>4, <2>5, <2>6, <2>7 DEF Entry
  <2>8. CASE w[d].x.t # "array"
    <3>1. a[d].at # 1 BY <2>2, <2>6, <2>8
    <3> QED BY <2>2, <2>4, <2>6, <2>8, <3>1, <2>1 DEF Entry
  <2> QED BY <2>7, <2>8
<1>5. IsStack(p) /\ Len(p) = Len(a) BY <1>2 DEF Settled
<1> QED BY <1>4, <1>5 DEF Stack, a

LEMMA StackEnter ==
    ASSUME NEW w, NEW p, NEW fl, Shape(w), w # <<>>, w[Len(w)].at <= Len(w[Len(w)].x.v),
           Settled(w, p), w[Len(w)].x.t = "array" \/ w[Len(w)].at # 1,
           NEW y, y = Item(w[Len(w)]).val, y.t \in {"object", "array"}, NEW e, IsPbMsg(e),
           e.key = Item(w[Len(w)]).name,
           y.t = "array" => e.flag = 1 /\ e.msg = Garbage,
           y.t = "object" => e.flag = 0 /\ e.msg = NoMessage /\ ~fl
    PROVE  Stack(Append(w, [x |-> y, at |-> 1]), Append(p, e), fl)
<1> DEFINE n == Len(w)
           c == [x |-> y, at |-> 1]
           E == [x : JsonValue, at : Nat]
           a == Append(w, c)
           q == Append(p, e)
<1>1. /\ w \in Seq(E) /\ n \in Nat \ {0} /\ n \in 1..n BY ShapeAt DEF Shape
<1>2. c.x = y /\ c.at = 1 OBVIOUS
<1>3. y \in JsonValue /\ WellTyped[y]
  <2>1. w[n].x \in JsonValue /\ w[n].x.t \in {"object", "array"} /\ w[n].at \in 1..Len(w[n].x.v) + 1
        /\ Len(w[n].x.v) \in Nat
    BY <1>1, ShapeAt
  <2>2. w[n].at \in 1..Len(w[n].x.v) BY <2>1
  <2>3. y \in JsonValue /\ y \in Components(w[n].x) BY <2>1, <2>2, ItemIn
  <2>4. WellTyped[w[n].x] BY <1>1 DEF Settled
  <2> QED BY <2>1, <2>3, <2>4, WellTypedDef
<1>4. c \in E BY <1>3
<1> HIDE DEF c, E
<1>5. a \in Seq(E) /\ Len(a) = n + 1 /\ a[n + 1] = c /\ \A d \in 1..n : a[d] = w[d]
  BY <1>1, <1>4
<1>6. IsStack(p) /\ Len(p) = n BY DEF Settled
<1>7. IsStack(q) /\ Len(q) = n + 1 /\ q[n + 1] = e /\ \A d \in 1..n : q[d] = p[d]
  BY <1>6, StackIs
<1> HIDE DEF a, q
<1>8. ASSUME NEW d \in 1..n + 1 PROVE WellTyped[a[d].x] /\ Entry(a, q, fl, d)
  <2>1. d > 1 => /\ d \in 2..n + 1 /\ \A g \in 1..d - 1 : a[g] = w[g] BY <1>1, <1>5
  <2>2. d > 1 => a[d - 1] = w[d - 1] /\ KeyOf(a, d) = KeyOf(w, d) BY <1>1, <2>1, KeySame
  <2>3. CASE d \in 1..n
    <3>1. a[d] = w[d] /\ q[d] = p[d] BY <1>5, <1>7, <2>3
    <3>2. /\ WellTyped[w[d].x]
          /\ IF w[d].x.t = "array"
             THEN p[d].flag = 1 /\ p[d].msg = Garbage /\ p[d].key = Item(w[d - 1]).name
             ELSE /\ p[d].flag = 0 /\ IsTyped(p[d].msg, RootType(w[d].x))
                  /\ d > 1 => p[d].key = KeyOf(w, d)
                  /\ d < n => w[d].at # 1
      BY <2>3 DEF Settled
    <3>3. CASE w[d].x.t = "array"
      <4>1. d > 1 BY <2>3, <3>3, ShapeAt
      <4> QED BY <3>1, <3>2, <3>3, <4>1, <2>2 DEF Entry
    <3>4. CASE w[d].x.t # "array"
      <4>1. w[d].at # 1 BY <3>2, <3>4, <2>3
      <4> QED BY <3>1, <3>2, <3>4, <4>1, <2>2 DEF Entry
    <3> QED BY <3>3, <3>4
  <2>4. CASE d = n + 1
    <3>1. a[d] = c /\ q[d] = e /\ d - 1 = n /\ d > 1 BY <1>1, <1>5, <1>7, <2>4
    <3>2. e.key = Item(a[d - 1]).name BY <2>2, <3>1
    <3>3. CASE y.t = "array" BY <1>2, <1>3, <3>1, <3>2, <3>3 DEF Entry
    <3>4. CASE y.t = "object" BY <1>2, <1>3, <1>5, <2>4, <3>1, <3>2, <3>4 DEF Entry
    <3> QED BY <3>3, <3>4
  <2> QED BY <1>1, <2>3, <2>4
<1>9. Len(q) = Len(a) /\ \A d \in 1..Len(a) : WellTyped[a[d].x] /\ Entry(a, q, fl, d) BY <1>5, <1>7, <1>8
<1>10. Stack(a, q, fl) BY <1>7, <1>9 DEF Stack
<1> QED BY <1>10 DEF a, q, c

\* The entries below the last.
LEMMA SettledFront ==
    ASSUME NEW w, NEW p, NEW fl, Shape(w), w # <<>>, Len(w) # 1, Stack(w, p, fl)
    PROVE  Settled(Front(w), Front(p)) /\ Len(Front(w)) = Len(w) - 1
           /\ \A d \in 1..Len(w) - 1 : Front(w)[d] = w[d] /\ Front(p)[d] = p[d]
<1> DEFINE n == Len(w)
           E == [x : JsonValue, at : Nat]
           a == Front(w)
           q == Front(p)
<1>1. w \in Seq(E) BY DEF Shape
<1> HIDE DEF E
<1>2. n \in Nat \ {0} /\ Len(a) = n - 1 /\ \A d \in 1..n - 1 : a[d] = w[d] BY <1>1, FrontIs
<1>3. IsStack(p) /\ Len(p) = n BY DEF Stack
<1>4. IsStack(q) /\ Len(q) = n - 1 /\ \A d \in 1..n - 1 : q[d] = p[d]
  <2>1. p # <<>> BY <1>2, <1>3
  <2> QED BY <1>3, <2>1, StackIs
<1> HIDE DEF a, q
<1>5. ASSUME NEW d \in 1..n - 1
      PROVE  /\ WellTyped[a[d].x]
             /\ IF a[d].x.t = "array"
                THEN q[d].flag = 1 /\ q[d].msg = Garbage /\ q[d].key = Item(a[d - 1]).name
                ELSE /\ q[d].flag = 0 /\ IsTyped(q[d].msg, RootType(a[d].x))
                     /\ d > 1 => q[d].key = KeyOf(a, d)
                     /\ d < n - 1 => a[d].at # 1
  <2>1. d \in 1..n /\ d < n /\ a[d] = w[d] /\ q[d] = p[d] BY <1>2, <1>4
  <2>2. WellTyped[w[d].x] /\ w[d].x.t \in {"object", "array"} BY <2>1, ShapeAt DEF Stack
  <2>3. d > 1 => /\ d \in 2..n + 1 /\ \A g \in 1..d - 1 : a[g] = w[g] BY <1>2
  <2>4. d > 1 => a[d - 1] = w[d - 1] /\ KeyOf(a, d) = KeyOf(w, d) BY <1>2, <2>3, KeySame
  <2>5. CASE w[d].x.t = "array"
    <3>1. d > 1 /\ p[d].flag = 1 /\ p[d].msg = Garbage /\ p[d].key = Item(w[d - 1]).name
      BY <2>1, <2>5, ArrayAt
    <3> QED BY <2>1, <2>2, <2>4, <2>5, <3>1
  <2>6. CASE w[d].x.t = "object"
    <3>1. w[d].at > 1
      <4>1. w[d].at \in 2..Len(w[d].x.v) /\ Len(w[d].x.v) \in Nat BY <2>1, <2>6, ObjectAt
      <4> QED BY <4>1
    <3>2. /\ p[d].flag = 0 /\ IsTyped(p[d].msg, RootType(w[d].x))
          /\ d > 1 => p[d].key = KeyOf(w, d) BY <2>1, <2>6, <3>1, ObjectAt
    <3>3. w[d].at # 1 BY <3>1
    <3> QED BY <2>1, <2>2, <2>4, <2>6, <3>2, <3>3
  <2> QED BY <2>2, <2>5, <2>6
<1>6. Len(q) = Len(a) BY <1>2, <1>4
<1>7. Settled(a, q) BY <1>2, <1>4, <1>5, <1>6 DEF Settled
<1> QED BY <1>2, <1>4, <1>7 DEF a, q

\* A message of the same type in the entry of an object.
LEMMA SettledWith ==
    ASSUME NEW w, NEW p, Shape(w), Settled(w, p), NEW t \in 1..Len(w), w[t].x.t = "object",
           NEW m, IsTyped(m, RootType(w[t].x))
    PROVE  Settled(w, [p EXCEPT ![t].msg = m])
<1> DEFINE q == [p EXCEPT ![t].msg = m]
<1>1. IsStack(p) /\ Len(p) = Len(w) /\ t \in 1..Len(p) BY DEF Settled
<1>2. /\ IsStack(q) /\ Len(q) = Len(p)
      /\ q[t].flag = p[t].flag /\ q[t].key = p[t].key /\ q[t].msg = m
      /\ \A d \in 1..Len(p) : d # t => q[d] = p[d]
  BY <1>1, StackExcept
<1> HIDE DEF q
<1>3. ASSUME NEW d \in 1..Len(w)
      PROVE  /\ WellTyped[w[d].x]
             /\ IF w[d].x.t = "array"
                THEN q[d].flag = 1 /\ q[d].msg = Garbage /\ q[d].key = Item(w[d - 1]).name
                ELSE /\ q[d].flag = 0 /\ IsTyped(q[d].msg, RootType(w[d].x))
                     /\ d > 1 => q[d].key = KeyOf(w, d)
                     /\ d < Len(w) => w[d].at # 1
  <2>1. /\ WellTyped[w[d].x]
        /\ IF w[d].x.t = "array"
           THEN p[d].flag = 1 /\ p[d].msg = Garbage /\ p[d].key = Item(w[d - 1]).name
           ELSE /\ p[d].flag = 0 /\ IsTyped(p[d].msg, RootType(w[d].x))
                /\ d > 1 => p[d].key = KeyOf(w, d)
                /\ d < Len(w) => w[d].at # 1
    BY DEF Settled
  <2>2. CASE d = t BY <1>2, <2>1, <2>2
  <2>3. CASE d # t
    <3>1. q[d] = p[d] BY <1>1, <1>2, <2>3
    <3> QED BY <2>1, <3>1
  <2> QED BY <2>2, <2>3
<1>4. IsStack(q) /\ Len(q) = Len(w) BY <1>1, <1>2
<1>5. Settled(w, q) BY <1>3, <1>4 DEF Settled
<1> QED BY <1>5 DEF q

-----------------------------------------------------------------------------
(* TypedSafe                                                               *)

LEMMA TypedNext ==
    ASSUME doc' = doc, ~crashed', Stack(walk', pbMsgs', fails'), walk' # <<>>,
           leaked' = 0, pbRet' = "none"
    PROVE  TypedInv'
<1>1. (Stack(walk, pbMsgs, fails))'
  BY DEF Stack, Entry, IsStack, IsPbMsg, IsTyped, RootType, KeyOf, Item
<1> QED BY <1>1 DEF TypedInv, TypedState

\* Where ForEach has come to: the first member of an object, its type ...
LEMMA ComesFirst ==
    ASSUME WalkInv, TypedState, NEW kinds, Comes(kinds), walk # <<>>,
           Inner.x.t = "object", Inner.at = 1
    PROVE  /\ Len(pbMsgs) = Len(walk) /\ IsStack(pbMsgs) /\ Top = pbMsgs[Len(walk)]
           /\ Cur.name \in AtNames /\ Cur.val.t = "string" /\ Cur.val.v = RootType(Inner.x)
           /\ Cur.val.v \in DOMAIN Field /\ Key \in AtNames
           /\ Top.msg = NoMessage /\ Top.flag = 0
           /\ Len(walk) > 1 => Top.key = Item(walk[Len(walk) - 1]).name
<1>1. Shape(walk) /\ Stack(walk, pbMsgs, fails) BY DEF WalkInv, TypedState
<1>2. Len(pbMsgs) = Len(walk) /\ IsStack(pbMsgs) /\ Top = pbMsgs[Len(walk)]
  BY <1>1 DEF Stack, Top, Last
<1>3. /\ Len(walk) \in 1..Len(walk) /\ Inner = walk[Len(walk)] /\ Cur = Item(Inner)
      /\ Inner.at \in 1..Len(Inner.x.v) /\ Inner.x \in JsonValue
  BY ComesTo
<1>4. /\ Cur.name \in AtNames /\ Cur.val.t = "string" /\ Cur.val.v = RootType(Inner.x)
      /\ Cur.val.v \in DOMAIN Field /\ Top.msg = NoMessage /\ Top.flag = 0
      /\ Len(walk) > 1 => Top.key = Item(walk[Len(walk) - 1]).name
  BY <1>1, <1>2, <1>3, ObjectAt
<1>5. Cur.name # NoName BY <1>3, ItemIn
<1>6. Key \in AtNames BY <1>4, <1>5 DEF Key
<1> QED BY <1>2, <1>4, <1>6

\* ... or what an object that has its message takes.
LEMMA ComesLater ==
    ASSUME WalkInv, TypedState, NEW kinds, Comes(kinds), walk # <<>>,
           Inner.x.t = "array" \/ Inner.at # 1
    PROVE  /\ Settled(walk, pbMsgs) /\ Len(walk) \in 1..Len(walk) /\ Top = pbMsgs[Len(walk)]
           /\ TargetAt \in 1..Len(walk) /\ walk[TargetAt].x.t = "object"
           /\ walk[TargetAt].at \in 2..Len(walk[TargetAt].x.v)
           /\ Target = pbMsgs[TargetAt].msg /\ IsTyped(Target, RootType(walk[TargetAt].x))
           /\ Target # NoMessage /\ Target.type = RootType(walk[TargetAt].x)
           /\ Key = Item(walk[TargetAt]).name /\ Key # NoName
           /\ Key \in AtNames /\ Cur.val.t = "string" => Cur.val.v \notin DOMAIN Field
           /\ TargetAt = IF Inner.x.t = "array" THEN Len(walk) - 1 ELSE Len(walk)
           /\ (Cur.name = NoName) = (Inner.x.t = "array")
<1>1. Shape(walk) /\ Stack(walk, pbMsgs, fails) BY DEF WalkInv, TypedState
<1>2. Len(pbMsgs) = Len(walk) /\ IsStack(pbMsgs) /\ Top = pbMsgs[Len(walk)]
  BY <1>1 DEF Stack, Top, Last
<1>3. /\ Len(walk) \in 1..Len(walk) /\ Inner = walk[Len(walk)] /\ Cur = Item(Inner)
      /\ Inner.at \in 1..Len(Inner.x.v) /\ Inner.x \in JsonValue
      /\ Inner.x.t \in {"object", "array"}
  BY ComesTo
<1>4. Settled(walk, pbMsgs) BY <1>1, <1>3, StackSettled
<1>5. CASE Inner.x.t = "object"
  <2>1. /\ Inner.at \in 2..Len(Inner.x.v) /\ Inner.at > 1
    <3>1. Inner.at # 1 BY <1>5
    <3>2. Len(Inner.x.v) \in Nat BY <1>3, ItemIn
    <3> QED BY <1>3, <3>1, <3>2
  <2>2. /\ IsTyped(Top.msg, RootType(Inner.x)) /\ Top.msg # NoMessage
        /\ Top.msg.type = RootType(Inner.x) /\ Cur.name # NoName
        /\ Cur.name \in AtNames => NamesNone(Cur.val)
    BY <1>1, <1>2, <1>3, <1>5, <2>1, ObjectAt
  <2>3. Key = Cur.name /\ Target = Top.msg /\ TargetAt = Len(walk)
    BY <1>2, <2>2 DEF Key, Target, TargetAt
  <2>4. Cur.name \in AtNames /\ Cur.val.t = "string" => Cur.val.v \notin DOMAIN Field
    BY <2>2 DEF NamesNone, Values
  <2> QED BY <1>2, <1>3, <1>4, <1>5, <2>1, <2>2, <2>3, <2>4
<1>6. CASE Inner.x.t = "array"
  <2> DEFINE t == Len(walk) - 1
  <2>1. /\ t \in 1..Len(walk) /\ walk[t].x.t = "object"
        /\ walk[t].at \in 2..Len(walk[t].x.v) /\ walk[t].at > 1
        /\ Top.key = Item(walk[t]).name /\ Top.key # NoName
        /\ Cur.name = NoName
        /\ Top.key \in AtNames /\ Cur.val.t = "string" => Cur.val.v \notin DOMAIN Field
    BY <1>1, <1>2, <1>3, <1>6, ArrayAt
  <2> HIDE DEF t
  <2>2. /\ IsTyped(pbMsgs[t].msg, RootType(walk[t].x)) /\ pbMsgs[t].msg # NoMessage
        /\ pbMsgs[t].msg.type = RootType(walk[t].x)
    BY <1>1, <2>1, ObjectAt
  <2>3. Key = Top.key /\ Target = pbMsgs[t].msg /\ TargetAt = t
    BY <1>2, <2>1 DEF Key, Target, TargetAt, Below, t
  <2> QED BY <1>2, <1>3, <1>4, <1>6, <2>1, <2>2, <2>3 DEF t
<1> QED BY <1>3, <1>5, <1>6

LEMMA CreateMessageTyped ==
    ASSUME WalkInv, TypedState, CreateMessage PROVE TypedInv'
<1> DEFINE n == Len(walk)
           q == pbMsgs'
<1>1. /\ Comes({"string"}) /\ Cur.val.t = "string"
      /\ Key \in AtNames /\ Cur.val.v \in DOMAIN Field
  BY DEF CreateMessage, NamesType, Comes
<1>2. walk # <<>> BY <1>1, ComesTo
<1>3. Inner.x.t = "object" /\ Inner.at = 1
  <2>1. Inner.x.t \in {"object", "array"} BY <1>1, <1>2, ComesTo
  <2> QED BY <1>1, <1>2, <2>1, ComesLater
<1>4. /\ Len(pbMsgs) = n /\ IsStack(pbMsgs) /\ Top = pbMsgs[n]
      /\ Cur.val.v = RootType(Inner.x) /\ Top.msg = NoMessage
      /\ n > 1 => Top.key = Item(walk[n - 1]).name
  BY <1>1, <1>2, <1>3, ComesFirst
<1>5. /\ n \in 1..n /\ Inner = walk[n] /\ Inner.at <= Len(Inner.x.v) BY <1>1, <1>2, ComesTo
<1>6. Shape(walk) /\ Stack(walk, pbMsgs, fails) /\ n \in Nat \ {0} BY <1>5, ShapeAt DEF WalkInv, TypedState
<1> DEFINE e == [flag |-> 0, msg |-> EmptyMsg(Cur.val.v),
                 key |-> IF pbMsgs[n].key # NoName THEN pbMsgs[n].key
                         ELSE IF Len(pbMsgs) >= 2 THEN Below.key ELSE Cur.val.v]
<1>7. q = PutAt(pbMsgs, n, e) BY <1>4 DEF CreateMessage, PutAt
<1>8. IsPbMsg(e) /\ e.flag = 0 BY DEF IsPbMsg
<1>9. IsTyped(e.msg, RootType(walk[n].x)) BY <1>4, <1>5 DEF IsTyped, EmptyMsg
<1>10. n > 1 => e.key = KeyOf(walk, n)
  <2> SUFFICES ASSUME n > 1 PROVE e.key = KeyOf(walk, n) OBVIOUS
  <2> HIDE DEF n
  <2>1. n - 1 \in 1..n /\ n - 1 < n BY <1>6
  <2>2. walk[n - 1].x.t \in {"object", "array"} BY <1>6, <2>1, ShapeAt DEF n
  <2>3. CASE walk[n - 1].x.t = "object"
    <3>1. walk[n - 1].at \in 2..Len(walk[n - 1].x.v) BY <1>6, <2>1, <2>3, ObjectAt DEF n
    <3>2. Item(walk[n - 1]).name # NoName BY <1>6, <2>1, <2>3, <3>1, ObjectAt DEF n
    <3>3. pbMsgs[n].key # NoName BY <1>4, <3>2 DEF n
    <3> QED BY <1>4, <2>3, <3>3 DEF KeyOf, n
  <2>4. CASE walk[n - 1].x.t = "array"
    <3>1. walk[n - 1].at \in 1..Len(walk[n - 1].x.v) BY <1>6, <2>1, ShapeAt DEF n
    <3>2. /\ Item(walk[n - 1]).name = NoName /\ pbMsgs[n - 1].key = Item(walk[n - 1 - 1]).name
      BY <1>6, <2>1, <2>4, <3>1, ArrayAt DEF n
    <3>3. pbMsgs[n].key = NoName BY <1>4, <3>2 DEF n
    <3>4. e.key = pbMsgs[n - 1].key BY <1>4, <1>6, <3>3 DEF Below, n
    <3>5. n - 1 - 1 = n - 2 BY <1>6
    <3> QED BY <2>4, <3>2, <3>4, <3>5 DEF KeyOf
  <2> QED BY <2>2, <2>3, <2>4
<1> HIDE DEF e, q
<1>11. IsStack(q) /\ Len(q) = n /\ q[n] = e /\ \A d \in 1..n : d # n => q[d] = pbMsgs[d]
  <2>1. n \in 1..Len(pbMsgs) /\ Len(pbMsgs) = n /\ IsStack(pbMsgs) BY <1>4, <1>5
  <2> HIDE DEF n
  <2>2. IsPbMsg(e) BY <1>8
  <2>3. /\ IsStack(q) /\ Len(q) = Len(pbMsgs) /\ q[n] = e
        /\ \A d \in 1..Len(pbMsgs) : d # n => q[d] = pbMsgs[d]
    BY <2>1, <2>2, <1>7, StackReplace
  <2> QED BY <2>1, <2>3
<1>12. ASSUME NEW d \in 1..n
       PROVE  /\ WellTyped[walk[d].x]
              /\ IF walk[d].x.t = "array"
                 THEN q[d].flag = 1 /\ q[d].msg = Garbage /\ q[d].key = Item(walk[d - 1]).name
                 ELSE /\ q[d].flag = 0 /\ IsTyped(q[d].msg, RootType(walk[d].x))
                      /\ d > 1 => q[d].key = KeyOf(walk, d)
                      /\ d < n => walk[d].at # 1
  <2>1. WellTyped[walk[d].x] /\ Entry(walk, pbMsgs, fails, d) BY <1>2, <1>6 DEF Stack
  <2>2. CASE d = n BY <1>3, <1>5, <1>8, <1>9, <1>10, <1>11, <2>1, <2>2
  <2>3. CASE d # n
    <3>1. q[d] = pbMsgs[d] /\ d < n BY <1>6, <1>11, <2>3
    <3>2. walk[d].x.t # "array" => walk[d].at # 1 BY <2>1, <2>3 DEF Entry
    <3> QED BY <2>1, <3>1, <3>2 DEF Entry
  <2> QED BY <2>2, <2>3
<1>13. Settled(walk, q) BY <1>11, <1>12 DEF Settled
<1>14. Stack(Advance(walk), q, fails) BY <1>2, <1>5, <1>6, <1>13, StackAdvance
<1>15. walk' = Advance(walk) /\ fails' = fails /\ crashed' = crashed /\ doc' = doc /\ pbRet' = pbRet
       /\ leaked' = leaked + Lost(Top.msg)
  BY DEF CreateMessage, Same
<1>16. Advance(walk) # <<>> BY <1>2, <1>5, <1>6, ShapeAdvance
<1>17. pbRet = "none" /\ leaked = 0 /\ ~crashed BY <1>2, <1>1 DEF TypedState, Comes, Running
<1>18. leaked' = 0 BY <1>4, <1>15, <1>17 DEF Lost
<1> QED BY <1>14, <1>15, <1>16, <1>17, <1>18, TypedNext DEF q

LEMMA SetMessageTyped ==
    ASSUME WalkInv, TypedState, SetMessage PROVE TypedInv'
<1> DEFINE kinds == {"string", "number", "true", "false", "null"}
           n == Len(walk)
<1>1. Comes(kinds) /\ ~NamesType BY DEF SetMessage, Scalar
<1>2. walk # <<>> BY <1>1, ComesTo
<1>3. Inner.x.t = "array" \/ Inner.at # 1
  <2> SUFFICES ASSUME Inner.x.t # "array", Inner.at = 1 PROVE FALSE OBVIOUS
  <2>1. Inner.x.t = "object" BY <1>1, <1>2, ComesTo
  <2>2. Cur.val.t = "string" /\ Cur.val.v \in DOMAIN Field /\ Key \in AtNames
    BY <1>1, <1>2, <2>1, ComesFirst
  <2>3. Comes({"string"}) BY <1>1, <2>2 DEF Comes
  <2> QED BY <1>1, <2>2, <2>3 DEF NamesType
<1>4. /\ Settled(walk, pbMsgs) /\ TargetAt \in 1..n /\ walk[TargetAt].x.t = "object"
      /\ Target = pbMsgs[TargetAt].msg /\ IsTyped(Target, RootType(walk[TargetAt].x))
  BY <1>1, <1>2, <1>3, ComesLater
<1>5. Shape(walk) /\ walk[n].at <= Len(walk[n].x.v) BY <1>1, <1>2, ComesTo DEF WalkInv
<1>6. Settled(walk, pbMsgs')
  <2> DEFINE x == IF Cur.val.t \in {"true", "false"} THEN Cur.val.t = "true" ELSE Cur.val.v
             m == With(pbMsgs[TargetAt].msg, FieldOf(pbMsgs[TargetAt].msg.type, Key), x)
  <2>1. pbMsgs' = IF Outcome = "ok" THEN [pbMsgs EXCEPT ![TargetAt].msg = m] ELSE pbMsgs
    BY DEF SetMessage
  <2>2. IsTyped(m, RootType(walk[TargetAt].x)) BY <1>4, TypedMessage
  <2> HIDE DEF m
  <2>3. Settled(walk, [pbMsgs EXCEPT ![TargetAt].msg = m]) BY <1>4, <1>5, <2>2, SettledWith
  <2> QED BY <1>4, <2>1, <2>3
<1>7. Stack(Advance(walk), pbMsgs', fails') BY <1>2, <1>5, <1>6, StackAdvance
<1>8. Advance(walk) # <<>> BY <1>2, <1>5, ShapeAdvance
<1>9. pbRet = "none" /\ leaked = 0 /\ ~crashed BY <1>1 DEF TypedState, Comes, Running
<1>10. /\ walk' = Advance(walk) /\ crashed' = crashed /\ doc' = doc /\ pbRet' = pbRet
       /\ leaked' = leaked
  BY DEF SetMessage, Same
<1> QED BY <1>7, <1>8, <1>9, <1>10, TypedNext

\* A scalar never meets a message that is not there.
LEMMA SetMessageCrashNever ==
    ASSUME WalkInv, TypedState, SetMessageCrash PROVE FALSE
<1> DEFINE kinds == {"string", "number", "true", "false", "null"}
<1>1. /\ Comes(kinds) /\ Target = NoMessage /\ Cur.val.t \in {"number", "true", "false"}
  BY DEF SetMessageCrash, Scalar, NullUsed
<1>2. walk # <<>> BY <1>1, ComesTo
<1>3. Inner.x.t \in {"object", "array"} BY <1>1, <1>2, ComesTo
<1>4. Inner.x.t = "object" /\ Inner.at = 1 BY <1>1, <1>2, <1>3, ComesLater
<1>5. Cur.val.t = "string" BY <1>1, <1>2, <1>4, ComesFirst
<1> QED BY <1>1, <1>5

LEMMA BeginTyped ==
    ASSUME WalkInv, WellTyped[doc], TypedState, ArrayBegin \/ ObjectBegin PROVE TypedInv'
<1> DEFINE kinds == {"object", "array"}
           n == Len(walk)
           y == Cur.val
           e == IF ArrayBegin THEN [flag |-> 1, msg |-> Garbage, key |-> Cur.name]
                ELSE [flag |-> 0, msg |-> NoMessage, key |-> Cur.name]
<1>1. /\ Comes(kinds) /\ Enter /\ pbMsgs' = Append(pbMsgs, e)
      /\ fails' = fails /\ leaked' = leaked /\ crashed' = crashed /\ doc' = doc /\ pbRet' = pbRet
      /\ y.t = IF ArrayBegin THEN "array" ELSE "object"
  BY DEF ArrayBegin, ObjectBegin, Comes, Same
<1>2. /\ IsPbMsg(e) /\ e.key = Cur.name
      /\ y.t = "array" => e.flag = 1 /\ e.msg = Garbage
      /\ y.t = "object" => e.flag = 0 /\ e.msg = NoMessage
  BY <1>1 DEF IsPbMsg
<1>3. walk' = Append(walk, [x |-> y, at |-> 1]) BY <1>1 DEF Enter
<1>4. pbRet = "none" /\ leaked = 0 /\ ~crashed BY <1>1 DEF TypedState, Comes, Running
<1> HIDE DEF e, kinds
<1>5. Shape(walk) /\ Stack(walk, pbMsgs, fails) BY DEF WalkInv, TypedState
<1>6. CASE walk = <<>>
  <2>1. /\ y = doc /\ pbMsgs = <<>> /\ y.t = "object" /\ y \in JsonValue /\ ~fails
    BY <1>1, <1>6, ComesTo DEF WalkInv, TypedState
  <2> DEFINE c == [x |-> y, at |-> 1]
  <2>2. Append(walk, c) = <<c>> /\ Append(pbMsgs, e) = <<e>> BY <1>6, <2>1
  <2>3. IsStack(Append(pbMsgs, e)) BY <1>2, <1>5, StackIs DEF Stack
  <2>4. Entry(<<c>>, <<e>>, fails, 1) BY <1>2, <2>1 DEF Entry
  <2>5. WellTyped[c.x]
    <3>1. c.x = doc BY <2>1
    <3> QED BY <3>1
  <2> HIDE DEF c
  <2>6. Stack(walk', pbMsgs', fails')
    <3>1. Len(<<c>>) = 1 /\ <<c>>[1] = c /\ Len(<<e>>) = 1 /\ \A d \in 1..1 : d = 1 OBVIOUS
    <3>2. Stack(<<c>>, <<e>>, fails) BY <2>2, <2>3, <2>4, <2>5, <3>1 DEF Stack
    <3> QED BY <1>1, <1>3, <2>2, <3>2 DEF c
  <2>7. walk' # <<>> BY <1>3, <2>2 DEF c
  <2> QED BY <1>1, <1>4, <2>6, <2>7, TypedNext
<1>7. CASE walk # <<>>
  <2>1. /\ Cur = Item(walk[n]) /\ walk[n].at <= Len(walk[n].x.v) /\ Inner = walk[n] /\ ~fails
        /\ walk[n].x.t \in {"object", "array"}
    BY <1>1, <1>7, ComesTo
  <2>2. walk[n].x.t = "array" \/ walk[n].at # 1
    <3>1. y.t # "string" BY <1>1
    <3> QED BY <1>1, <1>7, <2>1, <3>1, ComesFirst
  <2>3. Settled(walk, pbMsgs) BY <1>5, <1>7, <2>2, StackSettled
  <2>4. y.t \in {"object", "array"} BY <1>1
  <2>5. Stack(Append(walk, [x |-> y, at |-> 1]), Append(pbMsgs, e), fails)
    <3> HIDE DEF y
    <3> QED BY <1>2, <1>5, <1>7, <2>1, <2>2, <2>3, <2>4, StackEnter DEF y
  <2>6. Stack(walk', pbMsgs', fails') BY <1>1, <1>3, <2>5
  <2>7. walk' # <<>> BY <1>3, <1>5 DEF Shape
  <2> QED BY <1>1, <1>4, <2>6, <2>7, TypedNext
<1> QED BY <1>6, <1>7

LEMMA LeaveTyped ==
    ASSUME WalkInv, NEW p, Settled(Front(walk), p), Len(walk) # 1, walk # <<>>, ~crashed, leaked' = 0,
           Leave, pbMsgs' = p, doc' = doc, crashed' = crashed, pbRet' = "none"
    PROVE  TypedInv'
<1> DEFINE f == Front(walk)
<1>1. Shape(f) /\ f # <<>> /\ f[Len(f)].at <= Len(f[Len(f)].x.v) BY ShapeFront DEF WalkInv
<1>2. Settled(f, p) OBVIOUS
<1>3. walk' = Advance(f) BY DEF Leave
<1> HIDE DEF f
<1>4. Stack(Advance(f), p, fails') /\ Advance(f) # <<>> BY <1>1, <1>2, StackAdvance, ShapeAdvance
<1> QED BY <1>3, <1>4, TypedNext

LEMMA ArrayEndTyped ==
    ASSUME WalkInv, TypedState, ArrayEnd PROVE TypedInv'
<1> DEFINE n == Len(walk)
<1>1. Ends("array") /\ pbRet = "none" BY DEF ArrayEnd, Ends, Running
<1>2. walk # <<>> /\ n \in 1..n /\ Inner = walk[n] /\ Inner.x.t = "array" BY <1>1, EndsAt
<1>3. Shape(walk) /\ Stack(walk, pbMsgs, fails) BY DEF WalkInv, TypedState
<1>4. n > 1 /\ pbMsgs[n].msg = Garbage BY <1>2, <1>3, ArrayAt
<1>5. Top = pbMsgs[n] BY <1>2, <1>3 DEF Top, Last, Stack
<1>6. Settled(Front(walk), Front(pbMsgs)) BY <1>2, <1>3, <1>4, SettledFront
<1>7. leaked = 0 /\ ~crashed BY <1>1 DEF TypedState
<1>8. leaked' = 0 BY <1>4, <1>5, <1>7 DEF ArrayEnd, Lost
<1>9. /\ Leave /\ pbMsgs' = Front(pbMsgs) /\ doc' = doc /\ crashed' = crashed /\ pbRet' = "none"
  BY <1>1 DEF ArrayEnd, Same
<1> QED BY <1>2, <1>4, <1>6, <1>7, <1>8, <1>9, LeaveTyped

\* An object that ends has its message.
LEMMA EndsTyped ==
    ASSUME WalkInv, TypedState, Ends("object")
    PROVE  LET n == Len(walk) IN
           /\ walk # <<>> /\ n \in 1..n /\ walk[n].x.t = "object" /\ walk[n].at > 1
           /\ Shape(walk) /\ Stack(walk, pbMsgs, fails) /\ Len(pbMsgs) = n /\ Top = pbMsgs[n]
           /\ Top.msg # NoMessage /\ Top.msg.type = RootType(walk[n].x)
           /\ IsTyped(Top.msg, RootType(walk[n].x))
           /\ n > 1 => Top.key = KeyOf(walk, n)
<1> DEFINE n == Len(walk)
<1>1. /\ walk # <<>> /\ n \in 1..n /\ Inner = walk[n] /\ Inner.x.t = "object"
      /\ ~fails => Inner.at = Len(Inner.x.v) + 1
  BY EndsAt
<1>2. Shape(walk) /\ Stack(walk, pbMsgs, fails) BY DEF WalkInv, TypedState
<1>3. Len(pbMsgs) = n /\ Top = pbMsgs[n] BY <1>1, <1>2 DEF Stack, Top, Last
<1>4. /\ Len(walk[n].x.v) \in Nat \ {0} /\ walk[n].at \in 1..Len(walk[n].x.v) + 1
      /\ walk[n].at = 1 => ~fails
  BY <1>1, <1>2, ObjectAt
<1>5. walk[n].at > 1 BY <1>1, <1>4
<1>6. /\ Top.msg # NoMessage /\ Top.msg.type = RootType(walk[n].x)
      /\ IsTyped(Top.msg, RootType(walk[n].x))
      /\ n > 1 => Top.key = KeyOf(walk, n)
  BY <1>1, <1>2, <1>3, <1>5, ObjectAt
<1> QED BY <1>1, <1>2, <1>3, <1>5, <1>6

\* ... and so has the object its field is in, whose type agrees.
LEMMA ParentTyped ==
    ASSUME WalkInv, TypedState, Ends("object"), Len(pbMsgs) > 1
    PROVE  LET n == Len(walk)
               o == OwnerAt(walk, n) IN
           /\ n > 1 /\ ParentAt = o /\ o \in 1..n - 1 /\ walk[o].x.t = "object"
           /\ walk[o].at \in 2..Len(walk[o].x.v) /\ Top.key = Item(walk[o]).name
           /\ Parent = pbMsgs[o].msg /\ IsTyped(Parent, RootType(walk[o].x))
           /\ Parent # NoMessage /\ Parent.type = RootType(walk[o].x)
           /\ ~MergeCrashes
<1> DEFINE n == Len(walk)
           o == OwnerAt(walk, n)
           fd == FieldOf(RootType(walk[o].x), KeyOf(walk, n))
<1>1. /\ walk # <<>> /\ n \in 1..n /\ walk[n].x.t = "object"
      /\ Shape(walk) /\ Stack(walk, pbMsgs, fails) /\ Len(pbMsgs) = n
      /\ Top.msg # NoMessage /\ Top.msg.type = RootType(walk[n].x)
      /\ n > 1 => Top.key = KeyOf(walk, n)
  BY EndsTyped
<1>2. n > 1 /\ n \in 2..n BY <1>1
<1>3. /\ o \in 1..n /\ o < n /\ walk[o].x.t = "object"
      /\ walk[o].at \in 2..Len(walk[o].x.v) /\ walk[o].at > 1
      /\ KeyOf(walk, n) = Item(walk[o]).name
      /\ walk[n - 1].x.t = "array" => pbMsgs[n - 1].flag = 1
      /\ walk[n - 1].x.t = "object" => pbMsgs[n - 1].flag = 0
      /\ walk[n - 1].x.t \in {"object", "array"}
      /\ KeyOf(walk, n) \in FieldNames(RootType(walk[o].x))
            => fd.cpp = "message" /\ fd.type \in {AnyType, RootType(walk[n].x)}
  BY <1>1, <1>2, KeyIn
<1>4. ParentAt = o
  <2>1. Below = pbMsgs[n - 1] BY <1>1 DEF Below
  <2>2. o = IF walk[n - 1].x.t = "object" THEN n - 1 ELSE n - 2 BY DEF OwnerAt
  <2> HIDE DEF o
  <2> QED BY <1>1, <1>3, <2>1, <2>2 DEF ParentAt
<1> HIDE DEF o
<1>5. /\ IsTyped(pbMsgs[o].msg, RootType(walk[o].x)) /\ pbMsgs[o].msg # NoMessage
      /\ pbMsgs[o].msg.type = RootType(walk[o].x)
  BY <1>1, <1>3, ObjectAt
<1>6. Parent = pbMsgs[o].msg BY <1>4 DEF Parent
<1>7. ~MergeCrashes BY <1>1, <1>2, <1>3, <1>5, <1>6 DEF MergeCrashes
<1>8. o \in 1..n - 1 BY <1>1, <1>3
<1> QED BY <1>1, <1>2, <1>3, <1>4, <1>5, <1>6, <1>7, <1>8 DEF o

LEMMA ObjectEndTyped ==
    ASSUME WalkInv, TypedState, ObjectEnd PROVE TypedInv'
<1> DEFINE n == Len(walk)
           f == Front(walk)
           p == Front(pbMsgs)
           o == ParentAt
           fd == FieldOf(Parent.type, Top.key)
           x == IF fd.type = AnyType THEN [type |-> AnyType, of |-> Top.msg] ELSE Top.msg
           m == With(p[o].msg, fd, x)
<1>1. Ends("object") /\ Len(pbMsgs) > 1 /\ pbRet = "none" BY DEF ObjectEnd, Ends, Running
<1>2. walk # <<>> /\ Shape(walk) /\ Stack(walk, pbMsgs, fails) BY <1>1, EndsTyped
<1>12. n # 1
  <2>1. n > 1 /\ n \in Nat BY <1>1, ParentTyped, EndsTyped
  <2> HIDE DEF n
  <2> QED BY <2>1
<1>3. /\ n > 1 /\ o \in 1..n - 1 /\ walk[o].x.t = "object"
      /\ IsTyped(pbMsgs[o].msg, RootType(walk[o].x))
  BY <1>1, ParentTyped
<1>4. /\ Settled(f, p) /\ Len(f) = n - 1
      /\ \A d \in 1..n - 1 : f[d] = walk[d] /\ p[d] = pbMsgs[d]
  BY <1>2, <1>12, SettledFront
<1>5. Shape(f) BY <1>2, <1>12, ShapeFront
<1>6. pbMsgs' = IF Top.key \in FieldNames(Parent.type) THEN [p EXCEPT ![o].msg = m] ELSE p
  BY DEF ObjectEnd
<1> HIDE DEF f, p, o, fd, x
<1>7. IsTyped(m, RootType(f[o].x)) BY <1>3, <1>4, TypedMessage
<1> HIDE DEF m
<1>8. Settled(f, [p EXCEPT ![o].msg = m]) BY <1>3, <1>4, <1>5, <1>7, SettledWith
<1>9. Settled(f, pbMsgs') BY <1>4, <1>6, <1>8
<1>10. leaked = 0 /\ ~crashed BY <1>1 DEF TypedState
<1>11. /\ Leave /\ doc' = doc /\ crashed' = crashed /\ pbRet' = "none" /\ leaked' = leaked
  BY <1>1 DEF ObjectEnd, Same
<1>13. Settled(Front(walk), pbMsgs') BY <1>9 DEF f
<1>14. Len(walk) # 1 /\ leaked' = 0 BY <1>10, <1>11, <1>12
<1> QED BY <1>2, <1>10, <1>11, <1>13, <1>14, LeaveTyped

LEMMA ObjectEndRootTyped ==
    ASSUME WalkInv, TypedState, ObjectEndRoot PROVE TypedInv'
<1> DEFINE n == Len(walk)
<1>1. Ends("object") /\ Len(pbMsgs) = 1 /\ pbRet = "none" BY DEF ObjectEndRoot, Ends, Running
<1>2. /\ walk # <<>> /\ Len(walk) = 1 /\ Shape(walk) /\ Top = pbMsgs[1]
      /\ IsTyped(Top.msg, RootType(walk[1].x)) /\ IsStack(pbMsgs)
  BY <1>1, EndsTyped DEF Stack
<1>3. walk[1].x = doc BY <1>2 DEF WalkInv
<1>4. walk' = <<>>
  <2> DEFINE E == [x : JsonValue, at : Nat]
  <2>1. walk \in Seq(E) BY <1>2 DEF Shape
  <2> HIDE DEF E
  <2>2. Front(walk) = <<>> BY <1>2, <2>1, FrontIs
  <2> QED BY <2>2 DEF ObjectEndRoot, Leave, Advance
<1>5. pbMsgs # <<>> BY <1>2, <1>1, StackIs
<1>6. leaked = 0 /\ ~crashed BY <1>1 DEF TypedState
<1>7. /\ doc' = doc /\ crashed' = crashed /\ pbRet' = "none" /\ leaked' = leaked
      /\ pbMsgs' = pbMsgs
  BY <1>1 DEF ObjectEndRoot, Same
<1>8. IsTyped(pbMsgs[1].msg, RootType(doc)) BY <1>2, <1>3
<1>9. (IsTyped(pbMsgs[1].msg, RootType(doc)))' BY <1>7, <1>8 DEF IsTyped, RootType
<1>10. (Stack(walk, pbMsgs, fails))' BY <1>2, <1>4, <1>7 DEF Stack, IsStack, IsPbMsg
<1> QED BY <1>1, <1>4, <1>5, <1>6, <1>7, <1>9, <1>10 DEF TypedInv, TypedState

LEMMA Json2pbTyped ==
    ASSUME WalkInv, TypedState, Json2pb PROVE TypedInv'
<1>1. pbRet = "none" /\ walk = <<>> /\ pbMsgs # <<>> /\ leaked = 0 /\ ~crashed
  BY DEF Json2pb, Running, TypedState
<1>2. /\ Len(pbMsgs) = 1 /\ IsTyped(pbMsgs[1].msg, RootType(doc)) /\ IsStack(pbMsgs)
  BY <1>1 DEF TypedState, Stack
<1>3. pbMsgs[1].msg # NoMessage BY <1>2, TypedMessage
<1>4. {j \in DOMAIN pbMsgs : pbMsgs[j].msg # NoMessage} = {1} BY <1>2, <1>3, StackIs
<1>5. Cardinality({j \in DOMAIN pbMsgs : pbMsgs[j].msg # NoMessage}) = 1
  <2> HIDE <1>1, <1>2, <1>3
  <2>1. Cardinality({1}) = 1 BY FS_Singleton
  <2> QED BY <2>1, <1>4
<1>6. \/ pbRet' = "ZOK" /\ leaked' = 0
      \/ pbRet' = "error" /\ leaked' = 1
  <2>1. \/ pbRet' = "ZOK" /\ leaked' = leaked
        \/ /\ pbRet' = "error"
           /\ leaked' = leaked + Cardinality({j \in DOMAIN pbMsgs : pbMsgs[j].msg # NoMessage})
    BY DEF Json2pb
  <2> DEFINE c == Cardinality({j \in DOMAIN pbMsgs : pbMsgs[j].msg # NoMessage})
  <2>2. c = 1 BY <1>5
  <2> HIDE DEF c
  <2> QED BY <1>1, <2>1, <2>2 DEF c
<1>7. UNCHANGED <<source, doc, walk, fails, pbMsgs, crashed>> BY DEF Json2pb
<1>8. (Stack(walk, pbMsgs, fails))'
  BY ZenonT(40), <1>7 DEF TypedState, Stack, Entry, IsStack, IsPbMsg, IsTyped, RootType, KeyOf, Item
<1>9. (IsTyped(pbMsgs[1].msg, RootType(doc)))' BY <1>7, <1>2 DEF IsTyped, RootType
<1> QED BY <1>1, <1>2, <1>6, <1>7, <1>8, <1>9 DEF TypedInv, TypedState

LEMMA TypedInit == PbInit => TypedInv
<1> SUFFICES ASSUME PbInit PROVE TypedInv OBVIOUS
<1>1. walk = <<>> /\ pbMsgs = <<>> /\ ~fails /\ ~crashed /\ pbRet = "none" /\ leaked = 0 BY DEF PbInit
<1>2. IsStack(pbMsgs)
  <2>1. pbMsgs \in Seq({}) BY <1>1
  <2> QED BY <2>1 DEF IsStack
<1>3. Stack(walk, pbMsgs, fails) BY <1>1, <1>2 DEF Stack
<1> QED BY <1>1, <1>3 DEF TypedInv, TypedState

LEMMA TypedStep == WalkInv /\ TypedInv /\ [PbNext]_pbVars => TypedInv'
<1> SUFFICES ASSUME WalkInv, TypedInv, [PbNext]_pbVars PROVE TypedInv' OBVIOUS
<1>0. doc' = doc
  BY DEF PbNext, pbVars, CreateMessage, SetMessage, SetMessageCrash, ArrayBegin, ArrayEnd,
         ObjectBegin, ObjectEndRoot, ObjectEnd, ObjectEndCrash, Json2pb, Same, Crash
<1>1. CASE ~WellTyped[doc]
  <2>1. ~WellTyped[doc'] BY <1>0, <1>1
  <2> QED BY <2>1 DEF TypedInv
<1>2. CASE WellTyped[doc]
  <2>0. TypedState BY <1>2 DEF TypedInv
  <2>1. CASE CreateMessage BY <2>0, <2>1, CreateMessageTyped
  <2>2. CASE SetMessage BY <2>0, <2>2, SetMessageTyped
  <2>3. CASE SetMessageCrash BY <2>0, <2>3, SetMessageCrashNever
  <2>4. CASE ArrayBegin \/ ObjectBegin BY <1>2, <2>0, <2>4, BeginTyped
  <2>5. CASE ArrayEnd BY <2>0, <2>5, ArrayEndTyped
  <2>6. CASE ObjectEndRoot BY <2>0, <2>6, ObjectEndRootTyped
  <2>7. CASE ObjectEnd BY <2>0, <2>7, ObjectEndTyped
  <2>8. CASE ObjectEndCrash BY <2>0, <2>8, ParentTyped DEF ObjectEndCrash
  <2>9. CASE Json2pb BY <2>0, <2>9, Json2pbTyped
  <2>10. CASE UNCHANGED pbVars
    <3>1. UNCHANGED <<doc, walk, fails, pbMsgs, leaked, crashed, pbRet>> BY <2>10 DEF pbVars
    <3>2. TypedState'
      BY ZenonT(40), <2>0, <3>1 DEF TypedState, Stack, Entry, IsStack, IsPbMsg, IsTyped, RootType, KeyOf, Item
    <3> QED BY <3>2 DEF TypedInv
  <2> QED BY <2>1, <2>2, <2>3, <2>4, <2>5, <2>6, <2>7, <2>8, <2>9, <2>10 DEF PbNext
<1> QED BY <1>1, <1>2

\* A well typed document is converted without a crash and without a loss but
\* the root, whatever else is wrong with it.
THEOREM PbTypedSafe == PbSpec => []TypedSafe
<1>1. PbInit => WalkInv /\ TypedInv BY WalkInit, TypedInit
<1>2. WalkInv /\ TypedInv /\ [PbNext]_pbVars => (WalkInv /\ TypedInv)' BY WalkStep, TypedStep
<1>3. WalkInv /\ TypedInv => TypedSafe
  <2> SUFFICES ASSUME TypedState PROVE /\ ~crashed
                                       /\ pbRet = "ZOK" => leaked = 0 /\ pbMsgs[1].msg.type = RootType(doc)
                                       /\ pbRet = "error" => leaked = 1
      BY DEF TypedInv, TypedSafe
  <2>1. pbRet = "ZOK" => IsTyped(pbMsgs[1].msg, RootType(doc)) BY DEF TypedState
  <2>2. pbRet = "ZOK" => pbMsgs[1].msg.type = RootType(doc) BY <2>1, TypedMessage
  <2> QED BY <2>2 DEF TypedState
<1> QED BY <1>1, <1>2, <1>3, PTL DEF PbSpec

-----------------------------------------------------------------------------
(* The invariant of a document that was written                            *)

\* What the message m has received while its object x is at j, and k - 1
\* elements of an array there.
Filled(m, x, j, k) ==
    [n \in {x.v[q].name : q \in 2..j - 1} \cup (IF k > 1 THEN {x.v[j].name} ELSE {}) |->
        IF k > 1 /\ n = x.v[j].name THEN SubSeq(m.f[n], 1, k - 1) ELSE m.f[n]]
Partial(m, x, j, k) == [type |-> m.type, f |-> Filled(m, x, j, k)]
OpenAt(w, d) == IF d < Len(w) /\ w[d + 1].x.t = "array" THEN w[d + 1].at ELSE 1

\* The message that a container met in the one at d was written from, if it is
\* no array.
Inside(w, s, d) ==
    IF w[d].x.t = "array"
    THEN Content(s[d].f[Item(w[d - 1]).name][w[d].at])
    ELSE Content(s[d].f[Item(w[d]).name])

\* s has the message that each container was written from.
Origin(w, s, d) ==
    /\ s[d] \in Message /\ s[d].type # AnyType /\ Convertible[s[d]]
    /\ d = 1 => s[d] = source
    /\ d > 1 => s[d] = IF w[d].x.t = "array" THEN s[d - 1] ELSE Inside(w, s, d - 1)
Received(w, p, s, d) ==
    w[d].x.t = "object" =>
       /\ w[d].x = Pb2json[s[d]]
       /\ w[d].at > 1 => p[d].msg = Partial(s[d], w[d].x, w[d].at, OpenAt(w, d))

Restored(w, p, s) ==
    /\ s \in Seq(Message) /\ Len(s) = Len(w)
    /\ \A d \in 1..Len(w) : Origin(w, s, d) /\ Received(w, p, s, d)

RoundState ==
    /\ ~fails
    /\ walk = <<>> /\ pbMsgs # <<>> => pbMsgs[1].msg = source
    /\ pbRet # "none" => pbRet = "ZOK"
    /\ walk # <<>> => \E s : Restored(walk, pbMsgs, s)
RoundInv == Kept(source) => RoundState

-----------------------------------------------------------------------------
(* What a message has received                                             *)

LEMMA DoneFirst ==
    ASSUME NEW m, NEW x PROVE Partial(m, x, 2, 1) = EmptyMsg(m.type)
<1>1. 2..2 - 1 = {} OBVIOUS
<1>2. {x.v[q].name : q \in 2..2 - 1} \cup (IF 1 > 1 THEN {x.v[2].name} ELSE {}) = {} BY <1>1
<1>3. Filled(m, x, 2, 1) = [n \in {} |-> n] BY <1>2 DEF Filled
<1> QED BY <1>3 DEF Partial, EmptyMsg

LEMMA DoneAll ==
    ASSUME NEW m \in Message, m.type # AnyType, Convertible[m]
    PROVE  LET x == Pb2json[m] IN Partial(m, x, Len(x.v) + 1, 1) = m
<1> DEFINE x == Pb2json[m]
           N == {x.v[q].name : q \in 2..(Len(x.v) + 1) - 1} \cup (IF 1 > 1 THEN {x.v[Len(x.v) + 1].name} ELSE {})
<1>1. /\ Len(x.v) \in Nat \ {0}
      /\ \A j \in 2..Len(x.v) : x.v[j].name \in DOMAIN m.f
      /\ \A n \in DOMAIN m.f : \E j \in 2..Len(x.v) : x.v[j].name = n
  BY WrittenMembers
<1> HIDE DEF x
<1>2. (Len(x.v) + 1) - 1 = Len(x.v) BY <1>1
<1>3. N = DOMAIN m.f
  <2>1. N = {x.v[q].name : q \in 2..Len(x.v)} BY <1>2
  <2> HIDE DEF N
  <2> QED BY <1>1, <2>1
<1>4. Filled(m, x, Len(x.v) + 1, 1) = [n \in N |-> m.f[n]] BY DEF Filled
<1>5. m = [type |-> m.type, f |-> [n \in DOMAIN m.f |-> m.f[n]]]
  BY DataAssumption DEF MessageAssumption, IsMessage
<1> HIDE DEF N
<1>6. Partial(m, x, Len(x.v) + 1, 1) = [type |-> m.type, f |-> [n \in DOMAIN m.f |-> m.f[n]]]
  BY <1>3, <1>4 DEF Partial
<1> QED BY <1>5, <1>6 DEF x

\* The names of the members before the one at j, of which it is none.
LEMMA NamesBefore ==
    ASSUME NEW m \in Message, m.type # AnyType, Convertible[m], NEW j \in 2..Len(Pb2json[m].v)
    PROVE  LET x == Pb2json[m]
               N == {x.v[q].name : q \in 2..j - 1} IN
           /\ x.v[j].name \notin N
           /\ {x.v[q].name : q \in 2..(j + 1) - 1} = N \cup {x.v[j].name}
           /\ j \in Nat
<1> DEFINE x == Pb2json[m]
           N == {x.v[q].name : q \in 2..j - 1}
<1>1. /\ Len(x.v) \in Nat \ {0}
      /\ \A h, g \in 2..Len(x.v) : x.v[h].name = x.v[g].name => h = g
  BY WrittenMembers
<1> HIDE DEF x
<1>2. j \in 2..Len(x.v) BY DEF x
<1>3. \A q \in 2..j - 1 : q \in 2..Len(x.v) /\ q # j BY <1>1, <1>2
<1>4. x.v[j].name \notin N BY <1>1, <1>2, <1>3
<1>5. \A q : q \in 2..(j + 1) - 1 <=> q \in 2..j - 1 \/ q = j BY <1>1, <1>2
<1>6. {x.v[q].name : q \in 2..(j + 1) - 1} = N \cup {x.v[j].name} BY <1>5
<1>7. j \in Nat BY <1>1, <1>2
<1> QED BY <1>4, <1>6, <1>7 DEF x

\* A value that is set, an element that is added, and an array at its end.
LEMMA DoneValue ==
    ASSUME NEW m \in Message, m.type # AnyType, Convertible[m], NEW j \in 2..Len(Pb2json[m].v)
    PROVE  LET x == Pb2json[m]
               n == x.v[j].name
               fd == FieldOf(m.type, n) IN
           ~fd.repeated => With(Partial(m, x, j, 1), fd, m.f[n]) = Partial(m, x, j + 1, 1)
<1> DEFINE x == Pb2json[m]
           n == x.v[j].name
           fd == FieldOf(m.type, n)
           N == {x.v[q].name : q \in 2..j - 1}
<1>1. /\ n \notin N /\ {x.v[q].name : q \in 2..(j + 1) - 1} = N \cup {n} BY NamesBefore
<1>2. fd.name = n
  <2>1. n \in DOMAIN m.f BY WrittenMembers
  <2>2. FieldWritten(n, fd, m.f[n], FieldValue(fd, m.f[n], Pb2json)) BY <2>1, WrittenField
  <2> HIDE DEF n, fd
  <2> QED BY <2>2 DEF FieldWritten
<1> HIDE DEF x, fd
<1>3. Filled(m, x, j, 1) = [k \in N |-> m.f[k]] BY DEF Filled
<1>4. Filled(m, x, j + 1, 1) = [k \in N \cup {n} |-> m.f[k]] BY <1>1 DEF Filled
<1> HIDE DEF N, n
<1> SUFFICES ASSUME ~fd.repeated PROVE With(Partial(m, x, j, 1), fd, m.f[n]) = Partial(m, x, j + 1, 1)
    BY DEF x, n, fd
<1> DEFINE g == [k \in N |-> m.f[k]]
           p == [type |-> m.type, f |-> g]
           h == [k \in DOMAIN p.f \cup {fd.name} |-> IF k = fd.name THEN m.f[n] ELSE p.f[k]]
<1>5. With(p, fd, m.f[n]) = [p EXCEPT !.f = h] BY DEF With
<1>6. h = [k \in N \cup {n} |-> m.f[k]]
  <2>1. p.f = g /\ DOMAIN g = N /\ \A k \in N : g[k] = m.f[k] OBVIOUS
  <2> HIDE DEF p, g
  <2> QED BY <2>1, <1>2
<1> HIDE DEF h, g
<1>7. [p EXCEPT !.f = h] = [type |-> m.type, f |-> h] OBVIOUS
<1>8. Partial(m, x, j, 1) = p BY <1>3 DEF Partial, g
<1>9. Partial(m, x, j + 1, 1) = [type |-> m.type, f |-> h] BY <1>4, <1>6 DEF Partial
<1> HIDE DEF p
<1> QED BY <1>5, <1>7, <1>8, <1>9

LEMMA DoneElement ==
    ASSUME NEW m \in Message, m.type # AnyType, Convertible[m], NEW j \in 2..Len(Pb2json[m].v), NEW k
    PROVE  LET x == Pb2json[m]
               n == x.v[j].name
               fd == FieldOf(m.type, n) IN
           fd.repeated /\ k \in 1..Len(m.f[n]) =>
              With(Partial(m, x, j, k), fd, m.f[n][k]) = Partial(m, x, j, k + 1)
<1> DEFINE x == Pb2json[m]
           n == x.v[j].name
           fd == FieldOf(m.type, n)
           N == {x.v[q].name : q \in 2..j - 1}
           v == m.f[n]
<1> SUFFICES ASSUME fd.repeated, k \in 1..Len(v)
             PROVE  With(Partial(m, x, j, k), fd, v[k]) = Partial(m, x, j, k + 1) OBVIOUS
<1>1. n \notin N BY NamesBefore
<1>2. fd.name = n /\ fd.repeated = TRUE /\ v \in Seq({v[h] : h \in DOMAIN v}) /\ Len(v) \in Nat
  <2>1. n \in DOMAIN m.f BY WrittenMembers
  <2>2. FieldWritten(n, fd, v, FieldValue(fd, v, Pb2json)) BY <2>1, WrittenField
  <2> HIDE DEF n, fd, v
  <2> QED BY <2>2 DEF FieldWritten, IsSequence
<1> HIDE DEF x, fd
<1> DEFINE e == v[k]
           M == IF k > 1 THEN {n} ELSE {}
           g == [y \in N \cup M |-> IF k > 1 /\ y = n THEN SubSeq(m.f[y], 1, k - 1) ELSE m.f[y]]
           p == [type |-> m.type, f |-> g]
           old == IF fd.name \in DOMAIN p.f THEN p.f[fd.name] ELSE <<>>
           h == [y \in DOMAIN p.f \cup {fd.name} |-> IF y = fd.name THEN Append(old, e) ELSE p.f[y]]
           r == [y \in N \cup {n} |-> IF y = n THEN SubSeq(m.f[y], 1, k) ELSE m.f[y]]
<1>3. Filled(m, x, j, k) = g BY DEF Filled
<1>4. Filled(m, x, j, k + 1) = r
  <2>1. k + 1 > 1 /\ (k + 1) - 1 = k BY <1>2
  <2> QED BY <2>1 DEF Filled
<1>5. With(p, fd, e) = [p EXCEPT !.f = h]
  <2>1. fd.repeated = TRUE BY <1>2
  <2> HIDE DEF p, e
  <2> QED BY <2>1 DEF With
<1>6. p.f = g /\ DOMAIN g = N \cup M OBVIOUS
<1>7. Append(old, e) = SubSeq(v, 1, k)
  <2> DEFINE S == {v[y] : y \in DOMAIN v}
  <2>1. v \in Seq(S) BY <1>2
  <2> HIDE DEF S, v, p, g
  <2>2. 1 \in 1..Len(v) /\ k \in 1..Len(v) BY <1>2
  <2>3. SubSeq(v, 1, k) = SubSeq(v, 1, k - 1) \o <<v[k]>> BY <2>1, <2>2, SubSeqRecursiveSecond
  <2>4. old = SubSeq(v, 1, k - 1)
    <3>1. CASE k = 1
      <4>1. M = {} BY <3>1
      <4>2. old = <<>> BY <1>1, <1>2, <1>6, <4>1
      <4>3. k - 1 \in Int /\ k - 1 < 1 BY <3>1
      <4>4. SubSeq(v, 1, k - 1) = <<>> BY <4>3, SubSeqEmpty
      <4> QED BY <4>2, <4>4
    <3>2. CASE k # 1
      <4>1. k > 1 BY <1>2, <3>2
      <4>2. n \in N \cup M /\ g[n] = SubSeq(v, 1, k - 1) BY <4>1 DEF g, v
      <4> QED BY <1>2, <1>6, <4>2
    <3> QED BY <3>1, <3>2
  <2>5. SubSeq(v, 1, k - 1) \in Seq(S) /\ v[k] \in S
    <3>1. \A y \in 1..k - 1 : v[y] \in S BY <2>1, <2>2, <1>2
    <3>2. k - 1 \in Int BY <1>2
    <3> QED BY <2>1, <2>2, <3>1, <3>2, SubSeqProperties
  <2>6. Append(SubSeq(v, 1, k - 1), v[k]) = SubSeq(v, 1, k - 1) \o <<v[k]>>
    BY <2>5, AppendIsConcat
  <2> HIDE DEF old
  <2> QED BY <2>3, <2>4, <2>6
<1>8. \A y \in N : y # n /\ y \in DOMAIN g /\ g[y] = m.f[y] BY <1>1
<1>9. DOMAIN g \cup {fd.name} = N \cup {n} BY <1>2, <1>6
<1>10. h = r
  <2> HIDE DEF g, p, old, e, N, M, n
  <2> QED BY <1>2, <1>6, <1>7, <1>8, <1>9 DEF v
<1> HIDE DEF h, r, g
<1>11. [p EXCEPT !.f = h] = [type |-> m.type, f |-> h] OBVIOUS
<1> QED BY <1>3, <1>4, <1>5, <1>10, <1>11 DEF Partial

LEMMA DoneArray ==
    ASSUME NEW m \in Message, m.type # AnyType, Convertible[m], NEW j \in 2..Len(Pb2json[m].v)
    PROVE  LET x == Pb2json[m]
               n == x.v[j].name IN
           FieldOf(m.type, n).repeated => Partial(m, x, j, Len(m.f[n]) + 1) = Partial(m, x, j + 1, 1)
<1> DEFINE x == Pb2json[m]
           n == x.v[j].name
           N == {x.v[q].name : q \in 2..j - 1}
           v == m.f[n]
<1> SUFFICES ASSUME FieldOf(m.type, n).repeated
             PROVE  Filled(m, x, j, Len(v) + 1) = Filled(m, x, j + 1, 1) BY DEF Partial
<1>1. /\ n \notin N /\ {x.v[q].name : q \in 2..(j + 1) - 1} = N \cup {n} BY NamesBefore
<1>2. v \in Seq({v[h] : h \in DOMAIN v}) /\ Len(v) \in Nat \ {0}
  <2>1. n \in DOMAIN m.f BY WrittenMembers
  <2> DEFINE fd == FieldOf(m.type, n)
  <2>2. FieldWritten(n, fd, v, FieldValue(fd, v, Pb2json)) BY <2>1, WrittenField
  <2>3. fd.repeated OBVIOUS
  <2> HIDE DEF n, fd, v
  <2> QED BY <2>2, <2>3 DEF FieldWritten, IsSequence
<1>3. SubSeq(v, 1, Len(v)) = v
  <2> HIDE DEF v
  <2> QED BY <1>2, SubSeqFull
<1> HIDE DEF x
<1> DEFINE k == Len(v) + 1
<1>4. k > 1 /\ k - 1 = Len(v)
  <2> HIDE DEF v
  <2> QED BY <1>2
<1> HIDE DEF k
<1>5. Filled(m, x, j, k) = [y \in N \cup {n} |-> IF y = n THEN SubSeq(m.f[y], 1, Len(v)) ELSE m.f[y]]
  BY <1>4 DEF Filled
<1>6. Filled(m, x, j + 1, 1) = [y \in N \cup {n} |-> m.f[y]] BY <1>1 DEF Filled
<1>7. Filled(m, x, j, k) = Filled(m, x, j + 1, 1)
  <2> HIDE DEF N, n
  <2>1. \A y \in N \cup {n} :
           (IF y = n THEN SubSeq(m.f[y], 1, Len(v)) ELSE m.f[y]) = m.f[y]
    BY <1>3 DEF v
  <2> QED BY <1>5, <1>6, <2>1
<1> QED BY <1>7 DEF k

-----------------------------------------------------------------------------
(* The walk of a document that was written                                 *)

\* Where the member or element that the container at n is at goes: to the
\* object at TakerAt, whose message is then Taken.
TakerAt(w, n) == IF w[n].x.t = "array" THEN n - 1 ELSE n
Taken(w, s, n) ==
    IF w[n].x.t = "array"
    THEN Partial(s[n - 1], w[n - 1].x, w[n - 1].at, w[n].at + 1)
    ELSE Partial(s[n], w[n].x, w[n].at + 1, 1)

LEMMA InsideKept ==
    ASSUME NEW w, NEW s, NEW a, NEW r, NEW d, a[d] = w[d], r[d] = s[d],
           w[d].x.t = "array" => a[d - 1] = w[d - 1]
    PROVE  Inside(a, r, d) = Inside(w, s, d)
BY DEF Inside

\* w is left and goes on as a at n, and its entry there takes its part.
Moves(w, n, a) ==
    /\ n \in 1..Len(w) /\ Len(a) = n /\ \A d \in 1..n - 1 : a[d] = w[d]
    /\ a[n].x = w[n].x /\ a[n].at = w[n].at + 1
Takes(w, p, s, n, q) ==
    /\ \A d \in 1..n : d # TakerAt(w, n) => q[d].msg = p[d].msg
    /\ q[TakerAt(w, n)].msg = Taken(w, s, n)

LEMMA RestoredNext ==
    ASSUME NEW w, Shape(w), NEW p, NEW s, Restored(w, p, s),
           NEW n, NEW a, Moves(w, n, a), NEW q, Takes(w, p, s, n, q)
    PROVE  \E r : Restored(a, q, r)
<1> USE DEF Moves, Takes
<1> DEFINE r == SubSeq(s, 1, n)
           t == TakerAt(w, n)
<1>0. /\ t = IF w[n].x.t = "array" THEN n - 1 ELSE n
      /\ q[t].msg = IF w[n].x.t = "array"
                    THEN Partial(s[n - 1], w[n - 1].x, w[n - 1].at, w[n].at + 1)
                    ELSE Partial(s[n], w[n].x, w[n].at + 1, 1)
      /\ \A d \in 1..n : d # t => q[d].msg = p[d].msg
  BY DEF TakerAt, Taken
<1>1. Len(w) \in Nat \ {0} /\ n \in Nat BY ShapeAt
<1>2. s \in Seq(Message) /\ Len(s) = Len(w) BY DEF Restored
<1>3. r \in Seq(Message) /\ Len(r) = n /\ \A d \in 1..n : r[d] = s[d]
  <2>1. \A d \in 1..n : s[d] \in Message BY <1>1, <1>2
  <2>2. /\ r \in Seq(Message) /\ Len(r) = IF 1 <= n THEN n - 1 + 1 ELSE 0
        /\ \A d \in 1..n - 1 + 1 : r[d] = s[1 + d - 1]
    BY <1>1, <2>1, SubSeqProperties
  <2> HIDE DEF r
  <2>3. \A d \in 1..n : d \in 1..n - 1 + 1 /\ 1 + d - 1 = d BY <1>1
  <2>4. Len(r) = n BY <1>1, <2>2
  <2> QED BY <2>2, <2>3, <2>4
<1> HIDE DEF r, t
<1>4. ASSUME NEW d \in 1..n PROVE Origin(a, r, d)
  <2>1. d \in 1..Len(w) /\ Origin(w, s, d) /\ a[d].x = w[d].x /\ r[d] = s[d]
    <3>1. d \in 1..Len(w) BY <1>1
    <3>2. d # n => d \in 1..n - 1 BY <1>1
    <3> QED BY <1>3, <3>1, <3>2 DEF Restored
  <2>2. CASE d = 1 BY <2>1, <2>2 DEF Origin
  <2>3. CASE d # 1
    <3>1. d - 1 \in 1..n - 1 /\ d - 1 \in 1..n /\ d - 1 \in 1..Len(w) BY <1>1, <2>3
    <3>2. a[d - 1] = w[d - 1] /\ r[d - 1] = s[d - 1] BY <1>3, <3>1
    <3>3. ASSUME w[d - 1].x.t = "array" PROVE a[(d - 1) - 1] = w[(d - 1) - 1]
      <4>1. d - 1 > 1 BY <3>1, <3>3, ShapeAt
      <4>2. (d - 1) - 1 \in 1..n - 1 BY <1>1, <4>1
      <4> QED BY <4>2
    <3>4. Inside(a, r, d - 1) = Inside(w, s, d - 1) BY <3>2, <3>3, InsideKept
    <3> QED BY <2>1, <3>2, <3>4 DEF Origin
  <2> QED BY <2>2, <2>3
<1>5. ASSUME NEW d \in 1..n PROVE Received(a, q, r, d)
  <2>1. d \in 1..Len(w) /\ a[d].x = w[d].x /\ r[d] = s[d] /\ (d # n => a[d] = w[d])
    <3>1. d \in 1..Len(w) BY <1>1
    <3>2. d # n => d \in 1..n - 1 BY <1>1
    <3> QED BY <1>3, <3>1, <3>2
  <2> SUFFICES ASSUME w[d].x.t = "object"
               PROVE  /\ a[d].x = Pb2json[r[d]]
                      /\ a[d].at > 1 => q[d].msg = Partial(r[d], a[d].x, a[d].at, OpenAt(a, d))
      BY <2>1 DEF Received
  <2>2. /\ w[d].x = Pb2json[s[d]]
        /\ w[d].at > 1 => p[d].msg = Partial(s[d], w[d].x, w[d].at, OpenAt(w, d))
    BY <2>1 DEF Restored, Received
  <2>3. CASE d # t
    <3>1. d # n /\ d + 1 <= n
      <4>1. d # n
        <5> SUFFICES ASSUME d = n PROVE FALSE OBVIOUS
        <5>1. w[n].x.t # "array" OBVIOUS
        <5> QED BY <1>0, <2>3, <5>1
      <4> QED BY <1>1, <4>1
    <3>2. OpenAt(a, d) = OpenAt(w, d)
      <4>1. d < Len(a) /\ d < Len(w) BY <1>1, <3>1
      <4>2. CASE d + 1 = n
        <5>1. w[d + 1].x.t # "array"
          <6> SUFFICES ASSUME w[n].x.t = "array" PROVE FALSE BY <4>2
          <6>1. t = n - 1 BY <1>0
          <6> QED BY <1>1, <2>3, <4>2, <6>1
        <5>2. a[d + 1].x.t # "array" BY <4>2, <5>1
        <5> QED BY <5>1, <5>2 DEF OpenAt
      <4>3. CASE d + 1 # n
        <5>1. d + 1 \in 1..n - 1 BY <1>1, <3>1, <4>3
        <5>2. a[d + 1] = w[d + 1] BY <5>1
        <5> QED BY <4>1, <5>2 DEF OpenAt
      <4> QED BY <4>2, <4>3
    <3>3. q[d].msg = p[d].msg /\ a[d] = w[d] BY <1>0, <2>1, <2>3, <3>1
    <3> QED BY <2>1, <2>2, <3>2, <3>3
  <2>4. CASE d = t /\ w[n].x.t = "array"
    <3>1. d = n - 1 /\ d + 1 = n /\ d < n /\ d # n BY <1>0, <1>1, <2>4
    <3>2. a[d + 1].x.t = "array" /\ a[d + 1].at = w[n].at + 1 BY <3>1, <2>4
    <3>3. OpenAt(a, d) = w[n].at + 1 BY <3>1, <3>2 DEF OpenAt
    <3> QED BY <1>0, <2>1, <2>2, <2>4, <3>1, <3>3
  <2>5. CASE d = t /\ w[n].x.t # "array"
    <3>1. d = n /\ ~(d < Len(a)) BY <1>0, <1>1, <2>5
    <3>2. OpenAt(a, d) = 1 BY <3>1 DEF OpenAt
    <3> QED BY <1>0, <2>1, <2>2, <2>5, <3>1, <3>2
  <2> QED BY <2>3, <2>4, <2>5
<1>6. Restored(a, q, r) BY <1>3, <1>4, <1>5 DEF Restored
<1> QED BY <1>6

\* A container that begins, written from the message m.
LEMMA RestoredEnter ==
    ASSUME NEW w, Shape(w), NEW p, NEW s, Restored(w, p, s), NEW c, NEW q, NEW m \in Message,
           c.at = 1, c.x.t \in {"object", "array"}, \A d \in 1..Len(w) : q[d].msg = p[d].msg,
           m.type # AnyType, Convertible[m], c.x.t = "object" => c.x = Pb2json[m],
           IF w = <<>> THEN m = source
           ELSE LET n == Len(w) IN
                m = IF c.x.t = "array" THEN s[n] ELSE Inside(w, s, n)
    PROVE  \E r : Restored(Append(w, c), q, r)
<1> DEFINE n == Len(w)
           a == Append(w, c)
           r == Append(s, m)
           E == [x : JsonValue, at : Nat]
<1>1. w \in Seq(E) BY DEF Shape
<1>2. n \in Nat /\ (n = 0 <=> w = <<>>) /\ DOMAIN w = 1..n
      /\ Len(a) = n + 1 /\ a[n + 1] = c /\ \A d \in 1..n : a[d] = w[d]
  <2> HIDE DEF E
  <2>1. w = [d \in 1..Len(w) |-> w[d]] /\ Len(w) \in Nat BY <1>1
  <2> QED BY <1>1, <2>1
<1>3. s \in Seq(Message) /\ Len(s) = n BY DEF Restored
<1>4. r \in Seq(Message) /\ Len(r) = n + 1 /\ r[n + 1] = m /\ \A d \in 1..n : r[d] = s[d]
  BY <1>2, <1>3
<1> HIDE DEF a, r
<1>5. ASSUME NEW d \in 1..n PROVE Origin(a, r, d) /\ Received(a, q, r, d)
  <2>1. Origin(w, s, d) /\ Received(w, p, s, d) /\ a[d] = w[d] /\ r[d] = s[d] /\ q[d].msg = p[d].msg
    BY <1>2, <1>4 DEF Restored
  <2>2. d > 1 => d - 1 \in 1..n /\ a[d - 1] = w[d - 1] /\ r[d - 1] = s[d - 1]
    <3>1. d > 1 => d - 1 \in 1..n BY <1>2
    <3> QED BY <1>2, <1>4, <3>1
  <2>3. ASSUME d > 1 PROVE Inside(a, r, d - 1) = Inside(w, s, d - 1)
    <3>1. ASSUME w[d - 1].x.t = "array" PROVE a[(d - 1) - 1] = w[(d - 1) - 1]
      <4>1. d - 1 > 1 BY <2>2, <2>3, <3>1, ShapeAt
      <4>2. (d - 1) - 1 \in 1..n BY <1>2, <4>1
      <4> QED BY <1>2, <4>2
    <3> QED BY <2>2, <2>3, <3>1, InsideKept
  <2>4. Origin(a, r, d) BY <2>1, <2>2, <2>3 DEF Origin
  <2>5. OpenAt(a, d) = OpenAt(w, d)
    <3>1. CASE d = n
      <4>1. OpenAt(w, d) = 1 BY <1>2, <3>1 DEF OpenAt
      <4>2. d < Len(a) /\ a[d + 1] = c BY <1>2, <3>1
      <4> QED BY <4>1, <4>2 DEF OpenAt
    <3>2. CASE d # n
      <4>1. d < n /\ d < Len(a) /\ d + 1 \in 1..n BY <1>2, <3>2
      <4>2. a[d + 1] = w[d + 1] BY <1>2, <4>1
      <4> QED BY <4>1, <4>2 DEF OpenAt
    <3> QED BY <3>1, <3>2
  <2> QED BY <2>1, <2>4, <2>5 DEF Received
<1>6. Origin(a, r, n + 1) /\ Received(a, q, r, n + 1)
  <2>1. a[n + 1] = c /\ r[n + 1] = m BY <1>2, <1>4
  <2>2. CASE n = 0 BY <1>2, <2>1, <2>2 DEF Origin, Received
  <2>3. CASE n # 0
    <3>1. n + 1 > 1 /\ n + 1 # 1 /\ (n + 1) - 1 = n /\ n \in 1..n /\ w # <<>> BY <1>2, <2>3
    <3>2. a[n] = w[n] /\ r[n] = s[n] BY <1>2, <1>4, <3>1
    <3>3. ASSUME w[n].x.t = "array" PROVE a[n - 1] = w[n - 1]
      <4>1. n > 1 BY <3>1, <3>3, ShapeAt
      <4>2. n - 1 \in 1..n BY <1>2, <4>1
      <4> QED BY <1>2, <4>2
    <3>4. m = IF c.x.t = "array" THEN s[n] ELSE Inside(w, s, n) BY <3>1
    <3> HIDE DEF n
    <3>5. Origin(a, r, n + 1)
      <4>1. Inside(a, r, n) = Inside(w, s, n) BY <3>2, <3>3, InsideKept
      <4> QED BY <2>1, <3>1, <3>2, <3>4, <4>1 DEF Origin
    <3>6. Received(a, q, r, n + 1) BY <2>1 DEF Received
    <3> QED BY <3>5, <3>6
  <2> QED BY <2>2, <2>3
<1>7. \A d \in 1..n + 1 : d \in 1..n \/ d = n + 1 BY <1>2
<1>8. Restored(a, q, r) BY <1>2, <1>4, <1>5, <1>6, <1>7 DEF Restored
<1> QED BY <1>8 DEF a

\* The member at j of the object x that the message m was written to: its
\* field, what that has in m, and of it a value y, written as z.
NameAt(x, j) == x.v[j].name
FieldAt(m, x, j) == FieldOf(m.type, NameAt(x, j))
ValueAt(m, x, j) == m.f[NameAt(x, j)]
Gives(m, x, j, y, z) ==
    y \in Elements(FieldAt(m, x, j), ValueAt(m, x, j)) /\ z = Field2json(FieldAt(m, x, j), y, Pb2json)
Written(m, x, j) ==
    /\ m \in Message /\ m.type # AnyType /\ Convertible[m] /\ x = Pb2json[m]
    /\ RootType(x) = m.type /\ j \in 2..Len(x.v)
    /\ NameAt(x, j) \in DOMAIN m.f /\ NameAt(x, j) \in FieldNames(m.type)
    /\ NameAt(x, j) \notin AtNames
    /\ FieldAt(m, x, j).name = NameAt(x, j) /\ FieldAt(m, x, j).repeated \in BOOLEAN
Single(m, x, j) ==
    ~FieldAt(m, x, j).repeated => x.v[j].val.t # "array" /\ Gives(m, x, j, ValueAt(m, x, j), x.v[j].val)
Several(m, x, j) ==
    FieldAt(m, x, j).repeated =>
       /\ x.v[j].val.t = "array" /\ Len(x.v[j].val.v) = Len(ValueAt(m, x, j))
       /\ Len(ValueAt(m, x, j)) \in Nat \ {0}
       /\ \A h \in 1..Len(ValueAt(m, x, j)) : Gives(m, x, j, ValueAt(m, x, j)[h], x.v[j].val.v[h])

LEMMA WrittenAt ==
    ASSUME NEW m \in Message, m.type # AnyType, Convertible[m], NEW j \in 2..Len(Pb2json[m].v)
    PROVE  Written(m, Pb2json[m], j) /\ Single(m, Pb2json[m], j) /\ Several(m, Pb2json[m], j)
<1> DEFINE x == Pb2json[m]
           n == NameAt(x, j)
           z == x.v[j].val
           fd == FieldAt(m, x, j)
           v == ValueAt(m, x, j)
<1>1. /\ x.v[1] = Member(TypeName, [t |-> "string", v |-> m.type])
      /\ n \in DOMAIN m.f /\ n \in FieldNames(m.type) /\ n \notin AtNames
      /\ z = FieldValue(fd, v, Pb2json)
  BY WrittenMembers DEF NameAt, FieldAt, ValueAt
<1>2. RootType(x) = m.type BY <1>1 DEF RootType, Member
<1>3. /\ fd.repeated \in BOOLEAN /\ fd.name = n
      /\ ~fd.repeated => v \in Elements(fd, v) /\ z = Field2json(fd, v, Pb2json)
      /\ fd.repeated =>
            /\ z.t = "array" /\ Len(z.v) = Len(v) /\ Len(v) \in Nat \ {0}
            /\ \A h \in 1..Len(v) : v[h] \in Elements(fd, v) /\ z.v[h] = Field2json(fd, v[h], Pb2json)
  <2>1. FieldWritten(n, fd, v, FieldValue(fd, v, Pb2json))
    BY <1>1, WrittenField DEF FieldAt, ValueAt
  <2> HIDE DEF n, z, fd, v
  <2> QED BY <1>1, <2>1 DEF FieldWritten
<1>4. ~fd.repeated => z.t # "array"
  <2> SUFFICES ASSUME ~fd.repeated PROVE z.t # "array" OBVIOUS
  <2>1. v \in Elements(fd, v) /\ z = Field2json(fd, v, Pb2json) BY <1>3
  <2>2. Field2json(fd, v, Pb2json).t \in {"object", "string", "true", "false", "number"}
    <3>1. ValueWritten(m, fd, v, Field2json(fd, v, Pb2json))
      BY <1>1, <2>1, WrittenValue DEF FieldAt, ValueAt
    <3> HIDE DEF fd, v
    <3> QED BY <3>1 DEF ValueWritten
  <2> QED BY <2>1, <2>2
<1> HIDE DEF n, z, fd, v
<1>5. Written(m, x, j)
  <2>1. j \in 2..Len(x.v) OBVIOUS
  <2> HIDE DEF x
  <2> QED BY <1>1, <1>2, <1>3, <2>1 DEF Written, n, fd, x
<1> HIDE DEF x
<1>6. Single(m, x, j) BY <1>3, <1>4 DEF Single, Gives, fd, v, z
<1>7. Several(m, x, j)
  <2>1. ASSUME fd.repeated PROVE \A h \in 1..Len(v) : Gives(m, x, j, v[h], z.v[h])
    BY <1>3, <2>1 DEF Gives, fd, v, z
  <2> QED BY <1>3, <2>1 DEF Several, fd, v, z
<1> QED BY <1>5, <1>6, <1>7 DEF x

\* The value an object that was written is at, and what its message is then.
LEMMA MemberFrom ==
    ASSUME NEW w, Shape(w), NEW p, NEW s, Restored(w, p, s), NEW d \in 1..Len(w),
           w[d].x.t = "object", w[d].at \in 2..Len(w[d].x.v)
    PROVE  /\ Written(s[d], w[d].x, w[d].at) /\ Single(s[d], w[d].x, w[d].at)
           /\ Several(s[d], w[d].x, w[d].at) /\ Item(w[d]) = w[d].x.v[w[d].at]
           /\ p[d].msg = Partial(s[d], w[d].x, w[d].at, OpenAt(w, d))
<1> DEFINE m == s[d]
           x == w[d].x
           j == w[d].at
<1>1. /\ m \in Message /\ m.type # AnyType /\ Convertible[m] /\ x = Pb2json[m]
      /\ j > 1 => p[d].msg = Partial(m, x, j, OpenAt(w, d))
  BY DEF Restored, Origin, Received
<1>2. Item(w[d]) = x.v[j] BY DEF Item
<1>3. Len(x.v) \in Nat /\ j > 1
  <2>1. Len(x.v) \in Nat BY ShapeAt
  <2> QED BY <2>1
<1>4. j \in 2..Len(x.v) OBVIOUS
<1> HIDE DEF m, x, j
<1>5. Written(m, x, j) /\ Single(m, x, j) /\ Several(m, x, j) BY <1>1, <1>4, WrittenAt
<1>6. p[d].msg = Partial(m, x, j, OpenAt(w, d)) BY <1>1, <1>3
<1> QED BY <1>2, <1>5, <1>6 DEF m, x, j

\* An array of one that was written, and what the message of its object is.
LEMMA ArrayFrom ==
    ASSUME NEW w, NEW p, NEW fl, NEW s, Shape(w), Stack(w, p, fl), Restored(w, p, s),
           NEW d \in 1..Len(w), w[d].x.t = "array"
    PROVE  LET m == s[d - 1]
               x == w[d - 1].x
               j == w[d - 1].at IN
           /\ d - 1 \in 1..Len(w) /\ d - 1 < Len(w) /\ x.t = "object" /\ s[d] = m
           /\ Written(m, x, j) /\ FieldAt(m, x, j).repeated /\ Item(w[d - 1]).name = NameAt(x, j)
           /\ Len(w[d].x.v) = Len(ValueAt(m, x, j)) /\ Len(ValueAt(m, x, j)) \in Nat \ {0}
           /\ w[d].at \in 1..Len(ValueAt(m, x, j)) =>
                 Gives(m, x, j, ValueAt(m, x, j)[w[d].at], Item(w[d]).val)
           /\ p[d - 1].msg = Partial(m, x, j, w[d].at)
<1> DEFINE e == d - 1
           m == s[e]
           x == w[e].x
           j == w[e].at
<1>1. /\ d > 1 /\ e \in 1..Len(w) /\ e < Len(w) /\ x.t = "object" /\ j \in 2..Len(x.v)
  BY ArrayAt
<1>2. w[e + 1].x = Item(w[e]).val BY <1>1, ShapeAt
<1>3. e + 1 = d OBVIOUS
<1>4. OpenAt(w, e) = w[d].at BY <1>1, <1>3 DEF OpenAt
<1>5. s[d] = m
  <2>1. Origin(w, s, d) BY DEF Restored
  <2> QED BY <1>1, <2>1 DEF Origin
<1>6. Item(w[d]).val = w[d].x.v[w[d].at] BY DEF Item, Member
<1>7. /\ Written(m, x, j) /\ Single(m, x, j) /\ Several(m, x, j) /\ Item(w[e]) = x.v[j]
      /\ p[e].msg = Partial(m, x, j, OpenAt(w, e))
  BY <1>1, MemberFrom
<1>8. x.v[j].val = w[d].x BY <1>2, <1>3, <1>7
<1> HIDE DEF m, x, j, e
<1>9. FieldAt(m, x, j).repeated BY <1>7, <1>8 DEF Single, Written
<1>10. /\ Len(w[d].x.v) = Len(ValueAt(m, x, j)) /\ Len(ValueAt(m, x, j)) \in Nat \ {0}
       /\ \A h \in 1..Len(ValueAt(m, x, j)) : Gives(m, x, j, ValueAt(m, x, j)[h], w[d].x.v[h])
  BY <1>7, <1>8, <1>9 DEF Several
<1>11. Item(w[e]).name = NameAt(x, j) BY <1>7 DEF NameAt
<1>12. p[e].msg = Partial(m, x, j, w[d].at) BY <1>4, <1>7
<1>13. w[d].at \in 1..Len(ValueAt(m, x, j)) =>
          Gives(m, x, j, ValueAt(m, x, j)[w[d].at], Item(w[d]).val) BY <1>6, <1>10
<1> QED BY <1>1, <1>5, <1>7, <1>9, <1>10, <1>11, <1>12, <1>13 DEF m, x, j, e

\* Where ForEach has come to in a document that was written: a value of the
\* field that the message of the object at TargetAt is to take next.
LEMMA TakenFrom ==
    ASSUME WalkInv, TypedState, NEW kinds, Comes(kinds), walk # <<>>, NEW s,
           Restored(walk, pbMsgs, s), Inner.x.t = "array" \/ Inner.at # 1
    PROVE  LET t == TargetAt
               m == s[t]
               x == walk[t].x
               j == walk[t].at IN
           /\ t \in 1..Len(walk) /\ Written(m, x, j) /\ Key = NameAt(x, j)
           /\ Target = pbMsgs[t].msg /\ Target # NoMessage /\ Target.type = m.type
           /\ Inner.x.t = "array" =>
                 /\ t = Len(walk) - 1 /\ s[Len(walk)] = m /\ FieldAt(m, x, j).repeated
                 /\ Inner.at \in 1..Len(ValueAt(m, x, j)) /\ Target = Partial(m, x, j, Inner.at)
                 /\ Gives(m, x, j, ValueAt(m, x, j)[Inner.at], Cur.val)
           /\ Inner.x.t # "array" =>
                 /\ t = Len(walk) /\ Target = Partial(m, x, j, 1)
                 /\ Cur.val.t # "array" => /\ ~FieldAt(m, x, j).repeated
                                           /\ Gives(m, x, j, ValueAt(m, x, j), Cur.val)
<1> DEFINE t == TargetAt
           l == Len(walk)
           m == s[t]
           x == walk[t].x
           j == walk[t].at
<1>1. /\ t \in 1..l /\ x.t = "object" /\ j \in 2..Len(x.v)
      /\ Target = pbMsgs[t].msg /\ Target # NoMessage /\ Target.type = RootType(x)
      /\ Key = Item(walk[t]).name
      /\ t = IF Inner.x.t = "array" THEN l - 1 ELSE l
  BY ComesLater
<1>2. /\ l \in 1..l /\ Inner = walk[l] /\ Cur = Item(walk[l])
      /\ Inner.at \in 1..Len(Inner.x.v)
  BY ComesTo
<1>3. Shape(walk) /\ Stack(walk, pbMsgs, fails) BY DEF WalkInv, TypedState
<1>4. /\ Written(m, x, j) /\ Single(m, x, j) /\ Several(m, x, j) /\ Item(walk[t]) = x.v[j]
      /\ pbMsgs[t].msg = Partial(m, x, j, OpenAt(walk, t))
  <2>1. t \in 1..Len(walk) /\ Restored(walk, pbMsgs, s) /\ walk[t].x.t = "object"
        /\ walk[t].at \in 2..Len(walk[t].x.v)
    BY <1>1
  <2> HIDE DEF t, l
  <2> QED BY <1>3, <2>1, MemberFrom
<1> HIDE DEF t, l, m, x, j
<1>5. Key = NameAt(x, j) /\ Target.type = m.type BY <1>1, <1>4 DEF NameAt, Written
<1>6. ASSUME Inner.x.t = "array"
      PROVE  /\ t = l - 1 /\ s[l] = m /\ FieldAt(m, x, j).repeated
             /\ Inner.at \in 1..Len(ValueAt(m, x, j)) /\ Target = Partial(m, x, j, Inner.at)
             /\ Gives(m, x, j, ValueAt(m, x, j)[Inner.at], Cur.val)
  <2>1. t = l - 1 BY <1>1, <1>6
  <2>2. m = s[l - 1] /\ x = walk[l - 1].x /\ j = walk[l - 1].at BY <2>1 DEF m, x, j
  <2>3. /\ s[l] = m /\ FieldAt(m, x, j).repeated
        /\ Len(walk[l].x.v) = Len(ValueAt(m, x, j))
        /\ walk[l].at \in 1..Len(ValueAt(m, x, j)) =>
              Gives(m, x, j, ValueAt(m, x, j)[walk[l].at], Item(walk[l]).val)
        /\ pbMsgs[l - 1].msg = Partial(m, x, j, walk[l].at)
    BY <1>2, <1>3, <1>6, <2>2, ArrayFrom DEF l
  <2>4. Inner.at \in 1..Len(ValueAt(m, x, j)) BY <1>2, <2>3
  <2>5. Gives(m, x, j, ValueAt(m, x, j)[Inner.at], Cur.val) BY <1>2, <2>3, <2>4
  <2>6. Target = Partial(m, x, j, Inner.at) BY <1>1, <1>2, <2>1, <2>3
  <2> QED BY <2>1, <2>3, <2>4, <2>5, <2>6
<1>7. ASSUME Inner.x.t # "array"
      PROVE  /\ t = l /\ Target = Partial(m, x, j, 1)
             /\ Cur.val.t # "array" => ~FieldAt(m, x, j).repeated /\ Gives(m, x, j, ValueAt(m, x, j), Cur.val)
  <2>1. t = l BY <1>1, <1>7
  <2>2. OpenAt(walk, t) = 1
    <3>1. ~(t < Len(walk)) BY <1>2, <2>1 DEF l
    <3> QED BY <3>1 DEF OpenAt
  <2>3. Cur.val = x.v[j].val BY <1>2, <1>4, <2>1
  <2>4. Cur.val.t # "array" => ~FieldAt(m, x, j).repeated BY <1>4, <2>3 DEF Several, Written
  <2>5. ~FieldAt(m, x, j).repeated => Gives(m, x, j, ValueAt(m, x, j), Cur.val)
    BY <1>4, <2>3 DEF Single
  <2> QED BY <1>1, <1>4, <2>1, <2>2, <2>4, <2>5
<1> QED BY <1>1, <1>4, <1>5, <1>6, <1>7 DEF m, x, j, t, l

\* What taking it does: a value that is set, an element that is added, and an
\* array at its end.
LEMMA WrittenDone ==
    ASSUME NEW m, NEW x, NEW j, Written(m, x, j)
    PROVE  /\ ~FieldAt(m, x, j).repeated =>
                 With(Partial(m, x, j, 1), FieldAt(m, x, j), ValueAt(m, x, j)) = Partial(m, x, j + 1, 1)
           /\ FieldAt(m, x, j).repeated =>
                 /\ \A k \in 1..Len(ValueAt(m, x, j)) :
                       With(Partial(m, x, j, k), FieldAt(m, x, j), ValueAt(m, x, j)[k]) = Partial(m, x, j, k + 1)
                 /\ Partial(m, x, j, Len(ValueAt(m, x, j)) + 1) = Partial(m, x, j + 1, 1)
<1>1. /\ m \in Message /\ m.type # AnyType /\ Convertible[m] /\ x = Pb2json[m] /\ j \in 2..Len(Pb2json[m].v)
  BY DEF Written
<1> QED BY <1>1, DoneValue, DoneElement, DoneArray DEF FieldAt, ValueAt, NameAt

LEMMA WrittenGives ==
    ASSUME NEW m, NEW x, NEW j, Written(m, x, j), NEW y, NEW z, Gives(m, x, j, y, z)
    PROVE  LET fd == FieldAt(m, x, j) IN
           /\ fd.cpp = "message" => /\ y \in Message /\ y.type = fd.type /\ Convertible[y]
                                    /\ z = Pb2json[y] /\ z.t = "object"
           /\ fd.cpp = "string" => z.t = "string" /\ z.v = y
           /\ fd.cpp = "bool" => z.t \in {"true", "false"} /\ y = (z.t = "true")
           /\ fd.cpp \notin {"message", "string", "bool"} =>
                 fd.cpp \in DOMAIN Admits /\ z.t = "number" /\ z.v = y /\ y \in Admits[fd.cpp]
           /\ z.t \in {"object", "string", "true", "false", "number"}
           /\ z.t = "object" => fd.cpp = "message"
<1> DEFINE fd == FieldAt(m, x, j)
           n == NameAt(x, j)
<1>1. /\ m \in Message /\ m.type # AnyType /\ Convertible[m] /\ n \in DOMAIN m.f
      /\ fd = FieldOf(m.type, n) /\ y \in Elements(fd, m.f[n]) /\ z = Field2json(fd, y, Pb2json)
  BY DEF Written, Gives, FieldAt, ValueAt
<1> HIDE DEF fd, n
<1>2. /\ fd.cpp = "message" => /\ y \in Message /\ y.type = fd.type
                               /\ Convertible[y] /\ z = Pb2json[y] /\ z.t = "object"
      /\ fd.cpp = "string" => z = [t |-> "string", v |-> y]
      /\ fd.cpp = "bool" => z.t \in {"true", "false"} /\ y = (z.t = "true")
      /\ fd.cpp \notin {"message", "string", "bool"} =>
            fd.cpp \in DOMAIN Admits /\ z = [t |-> "number", v |-> y] /\ y \in Admits[fd.cpp]
      /\ z.t \in {"object", "string", "true", "false", "number"}
      /\ z.t = "object" => fd.cpp = "message"
  <2>1. ValueWritten(m, fd, y, z) BY <1>1, WrittenValue
  <2> QED BY <2>1 DEF ValueWritten
<1> QED BY <1>2 DEF fd

LEMMA RoundNext ==
    ASSUME source' = source, ~fails', walk' # <<>>, pbRet' = "none",
           \E s : Restored(walk', pbMsgs', s)
    PROVE  RoundInv'
<1>1. PICK s : Restored(walk', pbMsgs', s) OBVIOUS
<1>2. ASSUME NEW d \in 1..Len(walk'), Origin(walk', s, d) PROVE (Origin(walk, s, d))'
  <2>1. Inside(walk', s, d - 1) = (Inside(walk, s, d - 1))' BY DEF Inside, Item, Content
  <2> QED BY <1>2, <2>1 DEF Origin
<1>3. ASSUME NEW d \in 1..Len(walk'), Received(walk', pbMsgs', s, d)
      PROVE  (Received(walk, pbMsgs, s, d))'
  BY <1>3 DEF Received, OpenAt, Partial, Filled
<1>4. (Restored(walk, pbMsgs, s))' BY <1>1, <1>2, <1>3 DEF Restored
<1> QED BY <1>4 DEF RoundInv, RoundState

LEMMA CreateMessageRound ==
    ASSUME WalkInv, TypedState, RoundState, CreateMessage PROVE RoundInv'
<1> DEFINE n == Len(walk)
           a == Advance(walk)
<1>1. /\ Comes({"string"}) /\ Cur.val.t = "string"
      /\ Key \in AtNames /\ Cur.val.v \in DOMAIN Field
  BY DEF CreateMessage, NamesType, Comes
<1>2. walk # <<>> /\ Inner = walk[n] /\ n \in 1..n /\ Inner.at <= Len(Inner.x.v) BY <1>1, ComesTo
<1>3. Inner.x.t = "object" /\ Inner.at = 1
  <2>1. Inner.x.t \in {"object", "array"} BY <1>1, <1>2, ComesTo
  <2> QED BY <1>1, <1>2, <2>1, ComesLater
<1>4. Len(pbMsgs) = n /\ IsStack(pbMsgs) /\ Cur.val.v = RootType(Inner.x)
  BY <1>1, <1>2, <1>3, ComesFirst
<1>5. PICK s : Restored(walk, pbMsgs, s) BY <1>2 DEF RoundState
<1>6. Shape(walk) /\ walk \in Seq([x : JsonValue, at : Nat]) BY DEF WalkInv, Shape
<1>7. Len(a) = n /\ a[n].x = walk[n].x /\ a[n].at = walk[n].at + 1 /\ \A d \in 1..n - 1 : a[d] = walk[d]
  BY <1>2, <1>6, AdvanceIs
<1> DEFINE e == [flag |-> 0, msg |-> EmptyMsg(Cur.val.v),
                 key |-> IF pbMsgs[n].key # NoName THEN pbMsgs[n].key
                         ELSE IF Len(pbMsgs) >= 2 THEN Below.key ELSE Cur.val.v]
           q == PutAt(pbMsgs, n, e)
<1>8. pbMsgs' = q BY <1>4 DEF CreateMessage, PutAt
<1>9. IsPbMsg(e) /\ e.msg = EmptyMsg(Cur.val.v) BY DEF IsPbMsg
<1>10. q[n] = e /\ \A d \in 1..n : d # n => q[d] = pbMsgs[d]
  <2> HIDE DEF e, n
  <2>1. n \in 1..Len(pbMsgs) /\ IsStack(pbMsgs) /\ IsPbMsg(e) BY <1>2, <1>4, <1>9
  <2>2. /\ PutAt(pbMsgs, n, e)[n] = e
        /\ \A d \in 1..Len(pbMsgs) : d # n => PutAt(pbMsgs, n, e)[d] = pbMsgs[d]
    BY <2>1, StackReplace
  <2> QED BY <2>2, <1>4
<1>11. walk[n].at + 1 = 2 /\ RootType(walk[n].x) = s[n].type
  <2>1. s[n] \in Message /\ s[n].type # AnyType /\ Convertible[s[n]] /\ walk[n].x = Pb2json[s[n]]
    BY <1>2, <1>3, <1>5 DEF Restored, Origin, Received
  <2>2. Pb2json[s[n]].v[1] = Member(TypeName, [t |-> "string", v |-> s[n].type])
    BY <2>1, WrittenMembers
  <2> QED BY <1>2, <1>3, <2>1, <2>2 DEF RootType, Member
<1>12. q[n].msg = Partial(s[n], walk[n].x, walk[n].at + 1, 1)
  <2>1. Partial(s[n], walk[n].x, 2, 1) = EmptyMsg(s[n].type) BY DoneFirst
  <2> QED BY <1>2, <1>4, <1>9, <1>10, <1>11, <2>1
<1>13. walk' = a /\ fails' = fails /\ pbRet' = pbRet /\ source' = source BY DEF CreateMessage, Same
<1>14. walk[n].x.t # "array" BY <1>2, <1>3
<1> HIDE DEF a, q, e
<1>15. \E r : Restored(a, q, r)
  <2> HIDE DEF n
  <2>1. \A d \in 1..n : d # n => q[d].msg = pbMsgs[d].msg BY <1>10
  <2>2. n \in 1..Len(walk) BY <1>2 DEF n
  <2>3. TakerAt(walk, n) = n BY <1>14 DEF TakerAt
  <2>4. q[n].msg = Taken(walk, s, n) BY <1>12, <1>14 DEF Taken
  <2>5. Shape(walk) /\ Restored(walk, pbMsgs, s) BY <1>5, <1>6
  <2>6. Moves(walk, n, a) BY <1>7, <2>2 DEF Moves
  <2>7. Takes(walk, pbMsgs, s, n, q) BY <2>1, <2>3, <2>4 DEF Takes
  <2> QED BY <2>5, <2>6, <2>7, RestoredNext
<1>16. a # <<>> BY <1>2, <1>6, ShapeAdvance DEF a
<1>17. ~fails /\ pbRet = "none" BY <1>1 DEF RoundState, Comes, Running
<1> QED BY <1>8, <1>13, <1>15, <1>16, <1>17, RoundNext

LEMMA SetMessageRound ==
    ASSUME WalkInv, TypedState, RoundState, SetMessage PROVE RoundInv'
<1> DEFINE kinds == {"string", "number", "true", "false", "null"}
           n == Len(walk)
           a == Advance(walk)
           t == TargetAt
           z == Cur.val
           x == IF z.t \in {"true", "false"} THEN z.t = "true" ELSE z.v
<1>1. Comes(kinds) /\ ~NamesType BY DEF SetMessage, Scalar
<1>2. walk # <<>> /\ Inner = walk[n] /\ n \in 1..n /\ Inner.at <= Len(Inner.x.v)
      /\ Inner.x.t \in {"object", "array"} /\ z.t \in kinds BY <1>1, ComesTo
<1>3. Inner.x.t = "array" \/ Inner.at # 1
  <2> SUFFICES ASSUME Inner.x.t # "array", Inner.at = 1 PROVE FALSE OBVIOUS
  <2>1. Inner.x.t = "object" BY <1>1, <1>2, ComesTo
  <2>2. Cur.val.t = "string" /\ Cur.val.v \in DOMAIN Field /\ Key \in AtNames
    BY <1>1, <1>2, <2>1, ComesFirst
  <2>3. Comes({"string"}) BY <1>1, <2>2 DEF Comes
  <2> QED BY <1>1, <2>2, <2>3 DEF NamesType
<1>4. PICK s : Restored(walk, pbMsgs, s) BY <1>2 DEF RoundState
<1> DEFINE m == s[t]
           o == walk[t].x
           j == walk[t].at
           fd == FieldAt(m, o, j)
           y == IF Inner.x.t = "array" THEN ValueAt(m, o, j)[Inner.at] ELSE ValueAt(m, o, j)
           k == IF Inner.x.t = "array" THEN Inner.at ELSE 1
<1>5. /\ t \in 1..n /\ Written(m, o, j) /\ Key = NameAt(o, j)
      /\ Target = pbMsgs[t].msg /\ Target # NoMessage /\ Target.type = m.type
      /\ Inner.x.t = "array" =>
            /\ t = n - 1 /\ s[n] = m /\ fd.repeated
            /\ Inner.at \in 1..Len(ValueAt(m, o, j)) /\ Target = Partial(m, o, j, Inner.at)
            /\ Gives(m, o, j, ValueAt(m, o, j)[Inner.at], z)
      /\ Inner.x.t # "array" =>
            /\ t = n /\ Target = Partial(m, o, j, 1)
            /\ z.t # "array" => ~fd.repeated /\ Gives(m, o, j, ValueAt(m, o, j), z)
  BY <1>1, <1>2, <1>3, <1>4, TakenFrom
<1>6. z.t # "array" /\ z.t # "object" BY <1>2
<1>7. Shape(walk) /\ Stack(walk, pbMsgs, fails) /\ walk \in Seq([x : JsonValue, at : Nat])
  BY DEF WalkInv, TypedState, Shape
<1> HIDE DEF z, m, o, j, fd, k, t, kinds
<1>8. Gives(m, o, j, y, z) BY <1>5, <1>6
<1>9. /\ fd.cpp # "message"
      /\ fd.cpp = "string" => z.t = "string" /\ z.v = y
      /\ fd.cpp = "bool" => z.t \in {"true", "false"} /\ y = (z.t = "true")
      /\ fd.cpp \notin {"string", "bool"} =>
            fd.cpp \in DOMAIN Admits /\ z.t = "number" /\ z.v = y /\ y \in Admits[fd.cpp]
  <2> HIDE DEF y
  <2>1. /\ fd.cpp = "message" => z.t = "object"
        /\ fd.cpp = "string" => z.t = "string" /\ z.v = y
        /\ fd.cpp = "bool" => z.t \in {"true", "false"} /\ y = (z.t = "true")
        /\ fd.cpp \notin {"message", "string", "bool"} =>
              fd.cpp \in DOMAIN Admits /\ z.t = "number" /\ z.v = y /\ y \in Admits[fd.cpp]
    BY <1>5, <1>8, WrittenGives DEF fd
  <2> QED BY <1>6, <2>1
<1>10. FieldOf(Target.type, Key) = fd /\ Key \notin AtNames /\ Key \in FieldNames(Target.type)
  BY <1>5 DEF fd, FieldAt, Written
<1>11. Outcome = "ok" /\ x = y
  <2> HIDE DEF y
  <2>1. CASE fd.cpp = "string" BY <1>5, <1>9, <1>10, <2>1 DEF Outcome, Takers, z
  <2>2. CASE fd.cpp = "bool" BY <1>5, <1>9, <1>10, <2>2 DEF Outcome, Takers, z
  <2>3. CASE fd.cpp \notin {"string", "bool"} BY <1>5, <1>9, <1>10, <2>3 DEF Outcome, Takers, z
  <2> QED BY <2>1, <2>2, <2>3
<1>12. With(Target, fd, y) = IF Inner.x.t = "array" THEN Partial(m, o, j, Inner.at + 1)
                             ELSE Partial(m, o, j + 1, 1)
  BY <1>5, <1>6, WrittenDone DEF fd
<1> HIDE DEF y
<1> DEFINE v == With(Target, fd, y)
           q == [pbMsgs EXCEPT ![t].msg = v]
<1>13. pbMsgs' = q BY <1>5, <1>10, <1>11 DEF SetMessage, t, z
<1>14. q[t].msg = v /\ \A d \in 1..n : d # t => q[d] = pbMsgs[d]
  <2>1. IsStack(pbMsgs) /\ Len(pbMsgs) = n BY <1>2, <1>7 DEF Stack
  <2> HIDE DEF v
  <2> QED BY <1>5, <2>1, StackExcept
<1>15. Len(a) = n /\ a[n].x = walk[n].x /\ a[n].at = walk[n].at + 1 /\ \A d \in 1..n - 1 : a[d] = walk[d]
  BY <1>2, <1>7, AdvanceIs
<1>16. walk' = a /\ fails' = FALSE /\ pbRet' = pbRet /\ source' = source
  BY <1>11 DEF SetMessage, Same
<1> HIDE DEF v, q, a
<1>17. \E r : Restored(a, q, r)
  <2>1. \A d \in 1..n : d # t => q[d].msg = pbMsgs[d].msg BY <1>14
  <2>2. TakerAt(walk, n) = t BY <1>2, <1>5 DEF TakerAt
  <2>3. q[t].msg = Taken(walk, s, n)
    <3>1. v = IF Inner.x.t = "array" THEN Partial(m, o, j, Inner.at + 1) ELSE Partial(m, o, j + 1, 1)
      BY <1>12 DEF v
    <3> QED BY <1>2, <1>5, <1>14, <3>1 DEF Taken, m, o, j
  <2>4. Shape(walk) /\ Restored(walk, pbMsgs, s) /\ n \in 1..Len(walk) BY <1>2, <1>4, <1>7
  <2> HIDE DEF n
  <2>5. Moves(walk, n, a) BY <1>15, <2>4 DEF Moves
  <2>6. Takes(walk, pbMsgs, s, n, q) BY <2>1, <2>2, <2>3 DEF Takes
  <2> QED BY <2>4, <2>5, <2>6, RestoredNext
<1>18. a # <<>> BY <1>2, <1>7, ShapeAdvance DEF a
<1>19. pbRet = "none" BY <1>1 DEF Comes, Running
<1> QED BY <1>13, <1>16, <1>17, <1>18, <1>19, RoundNext

LEMMA BeginRound ==
    ASSUME WalkInv, TypedState, RoundState, Kept(source), ArrayBegin \/ ObjectBegin
    PROVE  RoundInv'
<1> DEFINE kinds == {"object", "array"}
           n == Len(walk)
           z == Cur.val
           c == [x |-> z, at |-> 1]
           e == IF ArrayBegin THEN [flag |-> 1, msg |-> Garbage, key |-> Cur.name]
                ELSE [flag |-> 0, msg |-> NoMessage, key |-> Cur.name]
           q == Append(pbMsgs, e)
           a == Append(walk, c)
<1>1. /\ Comes(kinds) /\ Enter /\ pbMsgs' = q
      /\ fails' = fails /\ source' = source /\ pbRet' = pbRet
  BY DEF ArrayBegin, ObjectBegin, Comes, Same
<1>2. IsPbMsg(e) BY DEF IsPbMsg
<1>3. walk' = a BY <1>1 DEF Enter
<1>4. c.x = z /\ c.at = 1 /\ z \in JsonValue /\ z.t \in {"object", "array"} BY <1>1, ComesTo
<1>5. Shape(walk) /\ Stack(walk, pbMsgs, fails) BY DEF WalkInv, TypedState
<1>6. \A d \in 1..n : q[d].msg = pbMsgs[d].msg
  <2> HIDE DEF e
  <2>1. CASE walk = <<>> BY <2>1
  <2>2. CASE walk # <<>>
    <3>1. IsStack(pbMsgs) /\ Len(pbMsgs) = n BY <1>5, <2>2 DEF Stack
    <3> QED BY <1>2, <3>1, StackIs
  <2> QED BY <2>1, <2>2
<1> HIDE DEF kinds, z, c, e, q, a
<1>7. \E r : Restored(a, q, r)
  <2>1. CASE walk = <<>>
    <3>1. z = doc /\ source # NoMessage BY <1>1, <2>1, ComesTo DEF Kept, z
    <3>2. source \in Message /\ doc = Pb2json[source] BY <3>1 DEF WalkInv
    <3>3. source.type # AnyType /\ Convertible[source] BY DEF Kept
    <3>4. Restored(walk, pbMsgs, <<>>)
      <4>1. <<>> \in Seq(Message) /\ Len(<<>>) = 0 OBVIOUS
      <4> QED BY <2>1, <4>1 DEF Restored
    <3> QED BY <1>4, <1>5, <1>6, <2>1, <3>1, <3>2, <3>3, <3>4, RestoredEnter DEF a
  <2>2. CASE walk # <<>>
    <3>1. PICK s : Restored(walk, pbMsgs, s) BY <2>2 DEF RoundState
    <3>2. /\ Inner = walk[n] /\ n \in 1..n /\ Inner.x.t \in {"object", "array"}
      BY <1>1, <2>2, ComesTo
    <3>3. Inner.x.t = "array" \/ Inner.at # 1
      <4>1. z.t # "string" BY <1>4
      <4> QED BY <1>1, <2>2, <3>2, <4>1, ComesFirst DEF z
    <3> DEFINE t == TargetAt
               m == s[t]
               x == walk[t].x
               j == walk[t].at
               y == IF Inner.x.t = "array" THEN ValueAt(m, x, j)[Inner.at] ELSE ValueAt(m, x, j)
               g == IF z.t = "array" THEN m ELSE Content(y)
    <3>4. /\ Written(m, x, j) /\ Key = NameAt(x, j)
          /\ Inner.x.t = "array" =>
                /\ t = n - 1 /\ s[n] = m /\ Gives(m, x, j, ValueAt(m, x, j)[Inner.at], z)
          /\ Inner.x.t # "array" =>
                /\ t = n
                /\ z.t # "array" => Gives(m, x, j, ValueAt(m, x, j), z)
      BY <1>1, <2>2, <3>1, <3>3, TakenFrom DEF z
    <3>5. Key = Item(walk[t]).name BY <1>1, <2>2, <3>3, ComesLater
    <3> HIDE DEF t, m, x, j
    <3>6. Inner.x.t = "array" => z.t # "array"
      <4> SUFFICES ASSUME Inner.x.t = "array" PROVE z.t # "array" OBVIOUS
      <4>1. Gives(m, x, j, ValueAt(m, x, j)[Inner.at], z) BY <3>4
      <4>2. z.t \in {"object", "string", "true", "false", "number"} BY <3>4, <4>1, WrittenGives
      <4> QED BY <4>2
    <3>7. /\ g \in Message /\ g.type # AnyType /\ Convertible[g] /\ (z.t = "object" => z = Pb2json[g])
      <4>1. CASE z.t = "array" BY <3>4, <4>1 DEF Written
      <4>2. CASE z.t = "object"
        <5>1. Gives(m, x, j, y, z) BY <3>4, <4>2
        <5> HIDE DEF y
        <5>2. y \in Message /\ Convertible[y] /\ z = Pb2json[y]
          <6>1. z.t = "object" => FieldAt(m, x, j).cpp = "message" BY <3>4, <5>1, WrittenGives
          <6>2. FieldAt(m, x, j).cpp = "message" => y \in Message /\ Convertible[y] /\ z = Pb2json[y]
            BY <3>4, <5>1, WrittenGives
          <6> QED BY <4>2, <6>1, <6>2
        <5>3. /\ Content(y) \in Message /\ Content(y).type # AnyType /\ Convertible[Content(y)]
              /\ Pb2json[Content(y)] = Pb2json[y]
          BY <5>2, ContentWritten
        <5> QED BY <4>2, <5>2, <5>3
      <4> QED BY <1>4, <4>1, <4>2
    <3>8. g = IF z.t = "array" THEN s[n] ELSE Inside(walk, s, n)
      <4>1. CASE Inner.x.t = "array"
        <5>1. t = n - 1 /\ s[n] = m /\ z.t # "array" BY <3>4, <3>6, <4>1
        <5>2. y = m.f[Item(walk[n - 1]).name][walk[n].at] BY <3>2, <3>4, <3>5, <4>1, <5>1 DEF ValueAt
        <5> HIDE DEF y
        <5> QED BY <3>2, <4>1, <5>1, <5>2 DEF Inside
      <4>2. CASE Inner.x.t # "array"
        <5>1. t = n /\ s[n] = m BY <3>4, <4>2 DEF m
        <5>2. y = m.f[Item(walk[n]).name] BY <3>4, <3>5, <4>2, <5>1 DEF ValueAt
        <5> HIDE DEF y
        <5> QED BY <3>2, <4>2, <5>1, <5>2 DEF Inside
      <4> QED BY <4>1, <4>2
    <3> HIDE DEF g
    <3> QED BY <1>4, <1>5, <1>6, <2>2, <3>1, <3>7, <3>8, RestoredEnter DEF a
  <2> QED BY <2>1, <2>2
<1>8. a # <<>>
  <2> DEFINE E == [x : JsonValue, at : Nat]
  <2>1. walk \in Seq(E) BY <1>5 DEF Shape
  <2> HIDE DEF E
  <2>2. Len(Append(walk, c)) = Len(walk) + 1 /\ Len(walk) \in Nat BY <2>1
  <2> QED BY <2>2 DEF a
<1>9. ~fails /\ pbRet = "none" BY <1>1 DEF RoundState, Comes, Running
<1> QED BY <1>1, <1>3, <1>7, <1>8, <1>9, RoundNext

\* A container that ends, of which an object has taken its part.
Outer(w) == Len(w) - 1
LEMMA LeaveRound ==
    ASSUME WalkInv, walk # <<>>, Len(walk) # 1, Leave, source' = source, ~fails', pbRet' = "none",
           NEW s, Restored(walk, pbMsgs, s), NEW k, k = Outer(walk),
           NEW q, pbMsgs' = q, Takes(walk, pbMsgs, s, k, q)
    PROVE  RoundInv'
<1> DEFINE f == Front(walk)
           a == Advance(f)
           E == [x : JsonValue, at : Nat]
<1>1. Shape(walk) /\ walk \in Seq(E) BY DEF WalkInv, Shape
<1>2. /\ f \in Seq(E) /\ Len(f) = k /\ Len(walk) \in Nat \ {0}
      /\ \A d \in 1..k : f[d] = walk[d]
  <2> HIDE DEF E
  <2> QED BY <1>1, FrontIs DEF Outer
<1>3. Shape(f) /\ f # <<>> /\ f[Len(f)].at <= Len(f[Len(f)].x.v) BY <1>1, ShapeFront
<1> HIDE DEF f
<1>4. k \in 1..k /\ k \in 1..Len(walk) BY <1>2 DEF Outer
<1>5. Len(a) = k /\ a[k].x = walk[k].x /\ a[k].at = walk[k].at + 1 /\ \A d \in 1..k - 1 : a[d] = walk[d]
  <2>1. /\ Len(a) = Len(f) /\ a[Len(f)].x = f[Len(f)].x /\ a[Len(f)].at = f[Len(f)].at + 1
        /\ \A d \in 1..Len(f) - 1 : a[d] = f[d]
    BY <1>2, <1>3, AdvanceIs
  <2> HIDE DEF a
  <2>2. \A d \in 1..k - 1 : d \in 1..k BY <1>4
  <2> QED BY <1>2, <1>4, <2>1, <2>2
<1>6. a # <<>> BY <1>3, ShapeAdvance
<1> HIDE DEF a
<1>7. \E r : Restored(a, q, r)
  <2>1. Moves(walk, k, a) BY <1>4, <1>5 DEF Moves
  <2> QED BY <1>1, <2>1, RestoredNext
<1>8. walk' = a BY DEF Leave, a, f
<1> QED BY <1>6, <1>7, <1>8, RoundNext

LEMMA ArrayEndRound ==
    ASSUME WalkInv, TypedState, RoundState, ArrayEnd PROVE RoundInv'
<1> DEFINE n == Len(walk)
           k == n - 1
           q == Front(pbMsgs)
<1>1. Ends("array") /\ pbRet = "none" BY DEF ArrayEnd, Ends, Running
<1>2. ~fails BY DEF RoundState
<1>3. /\ walk # <<>> /\ n \in 1..n /\ Inner = walk[n] /\ walk[n].x.t = "array"
      /\ walk[n].at = Len(walk[n].x.v) + 1
  BY <1>1, <1>2, EndsAt
<1>4. Shape(walk) /\ Stack(walk, pbMsgs, fails) BY DEF WalkInv, TypedState
<1>5. PICK s : Restored(walk, pbMsgs, s) BY <1>3 DEF RoundState
<1> DEFINE m == s[k]
           x == walk[k].x
           j == walk[k].at
<1>6. /\ k \in 1..n /\ k < n /\ x.t = "object"
      /\ Written(m, x, j) /\ FieldAt(m, x, j).repeated
      /\ Len(walk[n].x.v) = Len(ValueAt(m, x, j))
      /\ pbMsgs[k].msg = Partial(m, x, j, walk[n].at)
  BY <1>3, <1>4, <1>5, ArrayFrom
<1>7. \A d \in 1..k : q[d] = pbMsgs[d]
  <2>1. IsStack(pbMsgs) /\ Len(pbMsgs) = n BY <1>3, <1>4 DEF Stack
  <2>2. pbMsgs # <<>> BY <2>1, <1>3, StackIs
  <2> QED BY <2>1, <2>2, StackIs
<1>8. /\ Leave /\ pbMsgs' = q /\ source' = source /\ fails' = fails /\ pbRet' = "none"
  BY <1>1 DEF ArrayEnd, Same
<1> HIDE DEF m, x, j, q
<1>9. pbMsgs[k].msg = Partial(m, x, j + 1, 1)
  <2>1. walk[n].at = Len(ValueAt(m, x, j)) + 1 BY <1>3, <1>6
  <2>2. Partial(m, x, j, Len(ValueAt(m, x, j)) + 1) = Partial(m, x, j + 1, 1) BY <1>6, WrittenDone
  <2> QED BY <1>6, <2>1, <2>2
<1>10. k \in 1..k /\ n # 1 BY <1>6
<1>11. walk[k].x.t # "array" BY <1>6 DEF x
<1>12. q[k].msg = Partial(s[k], walk[k].x, walk[k].at + 1, 1)
  BY <1>7, <1>9, <1>10 DEF m, x, j
<1>13. TakerAt(walk, k) = k BY <1>11 DEF TakerAt
<1>14. q[k].msg = Taken(walk, s, k) BY <1>11, <1>12 DEF Taken
<1>15. \A d \in 1..k : d # k => q[d].msg = pbMsgs[d].msg BY <1>7
<1>16. Len(walk) # 1 /\ k = Outer(walk) BY <1>10 DEF Outer
<1>17. Takes(walk, pbMsgs, s, k, q) BY <1>13, <1>14, <1>15 DEF Takes
<1> HIDE DEF k
<1> QED BY <1>2, <1>3, <1>5, <1>8, <1>16, <1>17, LeaveRound

\* The message of an object that ends is that of its origin, and a value of
\* the field that its owner is to take next.
LEMMA OwnerFrom ==
    ASSUME WalkInv, TypedState, ~fails, Ends("object"), Len(pbMsgs) > 1,
           NEW s, Restored(walk, pbMsgs, s)
    PROVE  LET n == Len(walk)
               k == Outer(walk)
               o == ParentAt
               m == s[o]
               x == walk[o].x
               j == walk[o].at IN
           /\ n \in Nat /\ n > 1 /\ k = n - 1 /\ k \in 1..k /\ o \in 1..k /\ TakerAt(walk, k) = o
           /\ Written(m, x, j) /\ Top.key = NameAt(x, j)
           /\ Parent = pbMsgs[o].msg /\ Parent.type = m.type
           /\ \E y : /\ Gives(m, x, j, y, walk[n].x) /\ Top.msg = Content(y)
                     /\ With(Parent, FieldAt(m, x, j), y) = Taken(walk, s, k)
<1> DEFINE n == Len(walk)
           k == Outer(walk)
           o == ParentAt
           m == s[o]
           x == walk[o].x
           j == walk[o].at
<1>1. /\ walk # <<>> /\ n \in 1..n /\ walk[n].x.t = "object" /\ walk[n].at > 1
      /\ Shape(walk) /\ Stack(walk, pbMsgs, fails) /\ Len(pbMsgs) = n /\ Top = pbMsgs[n]
  BY EndsTyped
<1>2. /\ n > 1 /\ o = OwnerAt(walk, n) /\ o \in 1..n - 1 /\ x.t = "object"
      /\ j \in 2..Len(x.v) /\ Top.key = Item(walk[o]).name
      /\ Parent = pbMsgs[o].msg /\ Parent.type = RootType(x)
  BY ParentTyped
<1>3. walk[n].at = Len(walk[n].x.v) + 1 BY EndsAt
<1>4. n \in Nat /\ k = n - 1 /\ k \in 1..k /\ k \in 1..n /\ k + 1 = n /\ o \in 1..k /\ k < n
  BY <1>1, <1>2 DEF Outer
<1>5. Top.msg = s[n]
  <2>1. Origin(walk, s, n) /\ Received(walk, pbMsgs, s, n) BY <1>1 DEF Restored
  <2>2. OpenAt(walk, n) = 1 BY <1>4 DEF OpenAt
  <2>3. /\ s[n] \in Message /\ s[n].type # AnyType /\ Convertible[s[n]]
        /\ walk[n].x = Pb2json[s[n]]
        /\ Top.msg = Partial(s[n], walk[n].x, walk[n].at, 1)
    BY <1>1, <2>1, <2>2 DEF Origin, Received
  <2>4. Partial(s[n], walk[n].x, Len(walk[n].x.v) + 1, 1) = s[n] BY <2>3, DoneAll
  <2> QED BY <1>3, <2>3, <2>4
<1>6. walk[n].x = Item(walk[k]).val /\ walk[k].at <= Len(walk[k].x.v)
  <2>1. walk[n - 1].at <= Len(walk[n - 1].x.v) /\ walk[n].x = Item(walk[n - 1]).val
    BY <1>1, <1>2 DEF Shape
  <2> QED BY <1>4, <2>1
<1>7. s[n] = IF walk[k].x.t = "array"
             THEN Content(s[k].f[Item(walk[k - 1]).name][walk[k].at])
             ELSE Content(s[k].f[Item(walk[k]).name])
  <2>1. Origin(walk, s, n) BY <1>1 DEF Restored
  <2>2. s[n] = Inside(walk, s, n - 1) BY <1>1, <1>2, <2>1 DEF Origin
  <2>3. n - 1 = k BY <1>4
  <2> HIDE DEF k, n
  <2>4. s[n] = Inside(walk, s, k) BY <2>2, <2>3
  <2> QED BY <2>4 DEF Inside
<1> HIDE DEF k
<1>8. CASE walk[k].x.t = "object"
  <2>1. o = k BY <1>2, <1>4, <1>8 DEF OwnerAt
  <2>2. TakerAt(walk, k) = o BY <1>8, <2>1 DEF TakerAt
  <2>3. OpenAt(walk, k) = 1 BY <1>1, <1>4 DEF OpenAt
  <2> HIDE DEF o
  <2>4. /\ Written(m, x, j) /\ Single(m, x, j) /\ Several(m, x, j) /\ Item(walk[o]) = x.v[j]
        /\ pbMsgs[o].msg = Partial(m, x, j, 1)
    BY <1>1, <1>2, <1>4, <1>8, <2>1, <2>3, MemberFrom
  <2> HIDE DEF m, x, j
  <2>5. x.v[j].val = walk[n].x /\ Item(walk[k]).name = NameAt(x, j) BY <1>6, <2>1, <2>4 DEF NameAt
  <2>6. ~FieldAt(m, x, j).repeated BY <1>1, <2>4, <2>5 DEF Several
  <2>7. Gives(m, x, j, ValueAt(m, x, j), walk[n].x) BY <2>4, <2>5, <2>6 DEF Single
  <2>8. With(Parent, FieldAt(m, x, j), ValueAt(m, x, j)) = Partial(m, x, j + 1, 1)
    BY <1>2, <2>4, <2>6, WrittenDone
  <2>9. Taken(walk, s, k) = Partial(m, x, j + 1, 1) BY <1>8, <2>1 DEF Taken, m, x, j
  <2>10. Top.msg = Content(ValueAt(m, x, j)) BY <1>5, <1>7, <1>8, <2>1, <2>5 DEF ValueAt, m
  <2>11. Parent.type = m.type /\ Top.key = NameAt(x, j) BY <1>2, <2>1, <2>4, <2>5 DEF Written
  <2> QED BY <1>2, <1>4, <2>2, <2>4, <2>7, <2>8, <2>9, <2>10, <2>11 DEF k, o, m, x, j
<1>9. CASE walk[k].x.t # "object"
  <2>1. walk[k].x.t = "array" BY <1>1, <1>4, <1>9, ShapeAt
  <2>2. o = k - 1 BY <1>2, <1>4, <1>9 DEF OwnerAt
  <2>3. TakerAt(walk, k) = o BY <2>1, <2>2 DEF TakerAt
  <2> HIDE DEF o
  <2> DEFINE l == walk[k].at
  <2>4. /\ s[k] = m /\ Written(m, x, j) /\ FieldAt(m, x, j).repeated
        /\ Item(walk[o]).name = NameAt(x, j)
        /\ Len(walk[k].x.v) = Len(ValueAt(m, x, j))
        /\ l \in 1..Len(ValueAt(m, x, j)) =>
              Gives(m, x, j, ValueAt(m, x, j)[l], Item(walk[k]).val)
        /\ pbMsgs[o].msg = Partial(m, x, j, l)
    BY <1>1, <1>4, <2>1, <2>2, ArrayFrom
  <2>5. l \in 1..Len(walk[k].x.v)
    <3>1. l \in 1..Len(walk[k].x.v) + 1 /\ Len(walk[k].x.v) \in Nat BY <1>1, <1>4, ShapeAt
    <3> QED BY <1>6, <3>1
  <2> HIDE DEF m, x, j, l
  <2> DEFINE y == ValueAt(m, x, j)[l]
  <2>6. Gives(m, x, j, y, walk[n].x) BY <1>6, <2>4, <2>5
  <2>7. With(Parent, FieldAt(m, x, j), y) = Partial(m, x, j, l + 1)
    BY <1>2, <2>4, <2>5, WrittenDone
  <2>8. Taken(walk, s, k) = Partial(m, x, j, l + 1) BY <2>1, <2>2 DEF Taken, m, x, j, l
  <2>9. Top.msg = Content(y)
    <3>1. s[n] = Content(s[k].f[Item(walk[k - 1]).name][walk[k].at]) BY <1>7, <2>1
    <3>2. y = s[k].f[Item(walk[k - 1]).name][walk[k].at] BY <2>2, <2>4 DEF ValueAt, l
    <3> HIDE DEF y
    <3> QED BY <1>5, <3>1, <3>2
  <2>10. Parent.type = m.type /\ Top.key = NameAt(x, j) BY <1>2, <2>4 DEF Written
  <2> HIDE DEF y
  <2> QED BY <1>2, <1>4, <2>3, <2>4, <2>6, <2>7, <2>8, <2>9, <2>10 DEF k, o, m, x, j
<1> QED BY <1>8, <1>9

LEMMA ObjectEndRound ==
    ASSUME WalkInv, TypedState, RoundState, ObjectEnd PROVE RoundInv'
<1> DEFINE k == Outer(walk)
           o == ParentAt
           p == Front(pbMsgs)
<1>1. Ends("object") /\ Len(pbMsgs) > 1 /\ pbRet = "none" BY DEF ObjectEnd, Ends, Running
<1>2. ~fails BY DEF RoundState
<1>3. walk # <<>> /\ IsStack(pbMsgs) /\ Len(pbMsgs) = Len(walk) BY <1>1, EndsTyped DEF Stack
<1>4. PICK s : Restored(walk, pbMsgs, s) BY <1>3 DEF RoundState
<1> DEFINE m == s[o]
           x == walk[o].x
           j == walk[o].at
           fd == FieldAt(m, x, j)
<1>5. /\ Len(walk) > 1 /\ Len(walk) \in Nat /\ k = Len(walk) - 1 /\ k \in 1..k /\ o \in 1..k
      /\ TakerAt(walk, k) = o
      /\ Written(m, x, j) /\ Top.key = NameAt(x, j)
      /\ Parent = pbMsgs[o].msg /\ Parent.type = m.type
  BY <1>1, <1>2, <1>4, OwnerFrom
<1>6. PICK y : /\ Gives(m, x, j, y, walk[Len(walk)].x) /\ Top.msg = Content(y)
               /\ With(Parent, fd, y) = Taken(walk, s, k)
  BY <1>1, <1>2, <1>4, OwnerFrom
<1>7. walk[Len(walk)].x.t = "object" BY <1>1, EndsTyped
<1> HIDE DEF k, o, m, x, j, fd
<1>8. y \in Message /\ y.type = fd.type /\ Convertible[y]
  <2>1. fd.cpp = "message" BY <1>5, <1>6, <1>7, WrittenGives DEF fd
  <2> QED BY <1>5, <1>6, <2>1, WrittenGives DEF fd
<1>9. y = IF fd.type = AnyType THEN [type |-> AnyType, of |-> Top.msg] ELSE Top.msg
  <2>1. y.type = AnyType => y = [type |-> AnyType, of |-> Content(y)] BY <1>8, ContentWritten
  <2>2. y.type # AnyType => Content(y) = y BY DEF Content
  <2> QED BY <1>6, <1>8, <2>1, <2>2
<1>10. fd = FieldOf(Parent.type, Top.key) /\ Top.key \in FieldNames(Parent.type)
  BY <1>5 DEF fd, FieldAt, Written
<1>11. /\ IsStack(p) /\ Len(p) = k /\ \A d \in 1..k : p[d] = pbMsgs[d]
  <2>1. pbMsgs # <<>> BY <1>3, <1>5, StackIs
  <2> QED BY <1>3, <1>5, <2>1, StackIs
<1> HIDE DEF p
<1> DEFINE v == With(p[o].msg, fd, y)
           q == [p EXCEPT ![o].msg = v]
<1>12. pbMsgs' = q
  <2>1. pbMsgs' = [Front(pbMsgs) EXCEPT ![ParentAt].msg =
          With(@, FieldOf(Parent.type, Top.key),
               IF FieldOf(Parent.type, Top.key).type = AnyType
               THEN [type |-> AnyType, of |-> Top.msg] ELSE Top.msg)]
    BY <1>10 DEF ObjectEnd
  <2> QED BY <1>9, <1>10, <2>1 DEF p, o
<1>13. v = Taken(walk, s, k) BY <1>5, <1>6, <1>11
<1>14. q[o].msg = v /\ \A d \in 1..k : d # o => q[d] = p[d]
  <2> HIDE DEF v
  <2> QED BY <1>5, <1>11, StackExcept
<1> HIDE DEF v, q
<1>15. Takes(walk, pbMsgs, s, k, q)
  <2>1. \A d \in 1..k : d # TakerAt(walk, k) => q[d].msg = pbMsgs[d].msg BY <1>5, <1>11, <1>14
  <2>2. q[TakerAt(walk, k)].msg = Taken(walk, s, k) BY <1>5, <1>13, <1>14
  <2> QED BY <2>1, <2>2 DEF Takes
<1>16. /\ Leave /\ source' = source /\ fails' = fails /\ pbRet' = "none"
  BY <1>1 DEF ObjectEnd, Same
<1>17. Len(walk) # 1 BY <1>5
<1>18. k = Outer(walk) BY DEF k
<1> QED BY <1>2, <1>3, <1>4, <1>12, <1>15, <1>16, <1>17, <1>18, LeaveRound

LEMMA ObjectEndRootRound ==
    ASSUME WalkInv, TypedState, RoundState, ObjectEndRoot PROVE RoundInv'
<1>1. Ends("object") /\ Len(pbMsgs) = 1 /\ pbRet = "none" BY DEF ObjectEndRoot, Ends, Running
<1>2. ~fails BY DEF RoundState
<1>3. /\ walk # <<>> /\ Len(walk) = 1 /\ Shape(walk) /\ walk[1].x.t = "object" /\ walk[1].at > 1
  BY <1>1, EndsTyped
<1>4. walk[1].at = Len(walk[1].x.v) + 1 BY <1>1, <1>2, <1>3, EndsAt
<1>5. PICK s : Restored(walk, pbMsgs, s) BY <1>3 DEF RoundState
<1>6. pbMsgs[1].msg = source
  <2>1. Origin(walk, s, 1) /\ Received(walk, pbMsgs, s, 1) BY <1>3, <1>5 DEF Restored
  <2>2. OpenAt(walk, 1) = 1 BY <1>3 DEF OpenAt
  <2>3. /\ s[1] = source /\ s[1] \in Message /\ s[1].type # AnyType /\ Convertible[s[1]]
        /\ walk[1].x = Pb2json[s[1]]
        /\ pbMsgs[1].msg = Partial(s[1], walk[1].x, walk[1].at, 1)
    BY <1>3, <2>1, <2>2 DEF Origin, Received
  <2>4. Partial(s[1], walk[1].x, Len(walk[1].x.v) + 1, 1) = s[1] BY <2>3, DoneAll
  <2> QED BY <1>4, <2>3, <2>4
<1>7. walk' = <<>>
  <2> DEFINE E == [x : JsonValue, at : Nat]
  <2>1. walk \in Seq(E) BY <1>3 DEF Shape
  <2> HIDE DEF E
  <2>2. Front(walk) = <<>> BY <1>3, <2>1, FrontIs
  <2> QED BY <2>2 DEF ObjectEndRoot, Leave, Advance
<1>8. source' = source /\ fails' = fails /\ pbMsgs' = pbMsgs /\ pbRet' = "none"
  BY <1>1 DEF ObjectEndRoot, Same
<1> QED BY <1>2, <1>6, <1>7, <1>8 DEF RoundInv, RoundState

\* A document that was written is well typed.
LEMMA KeptTyped == WalkInv /\ TypedInv /\ Kept(source) => TypedState
<1> SUFFICES ASSUME WalkInv, TypedInv, Kept(source) PROVE TypedState OBVIOUS
<1>1. source \in Message /\ doc = Pb2json[source] /\ Convertible[source] BY DEF WalkInv, Kept
<1>2. WellTyped[doc] BY <1>1, WrittenWellTyped
<1> QED BY <1>2 DEF TypedInv

LEMMA RoundInit == PbInit => RoundInv
<1> SUFFICES ASSUME PbInit PROVE RoundInv OBVIOUS
<1>1. walk = <<>> /\ pbMsgs = <<>> /\ ~fails /\ pbRet = "none" BY DEF PbInit
<1> QED BY <1>1 DEF RoundInv, RoundState

LEMMA RoundStep == WalkInv /\ TypedInv /\ RoundInv /\ [PbNext]_pbVars => RoundInv'
<1> SUFFICES ASSUME WalkInv, TypedInv, RoundInv, [PbNext]_pbVars PROVE RoundInv' OBVIOUS
<1>0. source' = source
  BY DEF PbNext, pbVars, CreateMessage, SetMessage, SetMessageCrash, ArrayBegin, ArrayEnd,
         ObjectBegin, ObjectEndRoot, ObjectEnd, ObjectEndCrash, Json2pb, Same, Crash
<1>1. CASE ~Kept(source)
  <2>1. ~Kept(source') BY <1>0, <1>1
  <2> QED BY <2>1 DEF RoundInv, Kept
<1>2. CASE Kept(source)
  <2>0. TypedState /\ RoundState BY <1>2, KeptTyped DEF RoundInv
  <2>1. CASE CreateMessage BY <2>0, <2>1, CreateMessageRound
  <2>2. CASE SetMessage BY <2>0, <2>2, SetMessageRound
  <2>3. CASE SetMessageCrash BY <2>0, <2>3, SetMessageCrashNever
  <2>4. CASE ArrayBegin \/ ObjectBegin BY <1>2, <2>0, <2>4, BeginRound
  <2>5. CASE ArrayEnd BY <2>0, <2>5, ArrayEndRound
  <2>6. CASE ObjectEndRoot BY <2>0, <2>6, ObjectEndRootRound
  <2>7. CASE ObjectEnd BY <2>0, <2>7, ObjectEndRound
  <2>8. CASE ObjectEndCrash BY <2>0, <2>8, ParentTyped DEF ObjectEndCrash
  <2>9. CASE Json2pb
    <3>1. walk = <<>> /\ pbMsgs # <<>> /\ ~fails /\ pbMsgs[1].msg = source /\ Len(pbMsgs) = 1
      BY <2>0, <2>9 DEF Json2pb, RoundState, TypedState
    <3>2. pbRet' = "ZOK" /\ UNCHANGED <<source, walk, fails, pbMsgs>> BY <2>9, <3>1 DEF Json2pb
    <3> QED BY <3>1, <3>2 DEF RoundInv, RoundState
  <2>10. CASE UNCHANGED pbVars
    <3>1. UNCHANGED <<source, walk, fails, pbMsgs, pbRet>> BY <2>10 DEF pbVars
    <3>2. CASE walk = <<>> BY <2>0, <3>1, <3>2 DEF RoundInv, RoundState
    <3>3. CASE walk # <<>>
      <4>1. \E s : Restored(walk', pbMsgs', s) BY <2>0, <3>1, <3>3 DEF RoundState
      <4>2. ~fails' BY <2>0, <3>1 DEF RoundState
      <4>3. pbRet' = "none" BY <2>0, <3>1, <3>3 DEF TypedState
      <4> QED BY <3>1, <3>3, <4>1, <4>2, <4>3, RoundNext
    <3> QED BY <3>2, <3>3
  <2> QED BY <2>1, <2>2, <2>3, <2>4, <2>5, <2>6, <2>7, <2>8, <2>9, <2>10 DEF PbNext
<1> QED BY <1>1, <1>2

\* A message that Pb2json wrote is what Json2pb makes of the document, with
\* nothing lost and without a crash, for every message that can be converted.
THEOREM PbRoundTrip == PbSpec => []RoundTrip
<1>1. PbInit => WalkInv /\ TypedInv /\ RoundInv BY WalkInit, TypedInit, RoundInit
<1>2. WalkInv /\ TypedInv /\ RoundInv /\ [PbNext]_pbVars => (WalkInv /\ TypedInv /\ RoundInv)'
  BY WalkStep, TypedStep, RoundStep
<1>3. WalkInv /\ TypedInv /\ RoundInv => RoundTrip
  <2> SUFFICES ASSUME Kept(source), TypedState, RoundState
               PROVE  /\ ~crashed
                      /\ pbRet # "none" => pbRet = "ZOK" /\ pbMsgs[1].msg = source /\ leaked = 0
      BY KeptTyped DEF RoundInv, RoundTrip
  <2> QED BY DEF TypedState, RoundState
<1> QED BY <1>1, <1>2, <1>3, PTL DEF PbSpec
==============================================================================
