-------------------------- MODULE LazyPirate_proofs --------------------------
(***************************************************************************)
(* Proofs about LazyPirate, for any endpoints, tries and calls, failing    *)
(* connects or not, and whatever type of socket Reconnect opens (sock_type *)
(* is never set).  No late reply is taken for the reply to a request while *)
(* the socket is a REQ socket, conns lists the links of the socket, and a  *)
(* call that did not fail leaves it ready for the next.                    *)
(***************************************************************************)
EXTENDS LazyPirate, NatSets, SequenceTheorems, TLAPS

\* The requests and replies that can still reach the user of this socket.
Current == {p \in net \cup inbox : p.gen = gen}

SockOK == gen \in Nat /\ owed \in BOOLEAN

\* A closed socket's packets carry the number of a socket that was closed.
OfASocket == /\ \A p \in inbox : p.gen = gen
             /\ \A p \in net : p.gen \in 0..gen

\* A REQ socket has one request on its way at most, and owes its reply.
OneOnItsWay == type = "req" =>
    /\ \A p, q \in Current : p = q
    /\ net \cap inbox = {}
    /\ Current # {} => owed

\* The one that a waiting call could receive is what its latest try sent.
WaitsForLast == type = "req" /\ pc = "wait" => last.call = call /\ Current \subseteq {last}

\* No reply is stored before the call returns.
StoredLast == pc # "idle" => rep = NoPacket

LPIInv == SockOK /\ OfASocket /\ OneOnItsWay /\ WaitsForLast /\ StoredLast /\ ReplyFresh

-----------------------------------------------------------------------------
(* The steps *)

LEMMA LPInitInv == LPInit => LPIInv
<1> SUFFICES ASSUME LPInit PROVE LPIInv OBVIOUS
<1>1. SockOK /\ OfASocket BY DEF LPInit, SockOK, OfASocket
<1>2. OneOnItsWay BY DEF LPInit, OneOnItsWay, Current
<1>3. WaitsForLast /\ StoredLast /\ ReplyFresh
  BY DEF LPInit, WaitsForLast, StoredLast, ReplyFresh
<1> QED BY <1>1, <1>2, <1>3 DEF LPIInv

\* zmq_msg_send, by Send or by a try: nothing was on its way before to a REQ
\* socket.
LEMMA SentAlone ==
    ASSUME LPIInv, ~SendFails, owed' = TRUE, UNCHANGED <<type, gen, inbox>>,
           NEW k, NEW b, Transmit(k, b)
    PROVE  /\ SockOK' /\ OfASocket' /\ OneOnItsWay'
           /\ type = "req" => Current' \subseteq {last'} /\ last'.call = k
<1>1. type = "req" => Current = {} BY DEF LPIInv, OneOnItsWay, SendFails
<1>2. PICK e \in linked :
        LET p == [gen |-> gen, endp |-> e, call |-> k, body |-> b, try |-> trys]
        IN  net' = net \cup {p} /\ last' = p
  BY DEF Transmit
<1>3. net' = net \cup {last'} /\ last'.gen = gen /\ last'.call = k BY <1>2
<1>4. type = "req" => Current' = {last'} BY <1>1, <1>3 DEF Current
<1>5. SockOK' BY DEF LPIInv, SockOK
<1>6. OfASocket' BY <1>3 DEF LPIInv, SockOK, OfASocket
<1>7. OneOnItsWay'
  <2> SUFFICES ASSUME type = "req" PROVE OneOnItsWay' BY DEF OneOnItsWay
  <2>1. inbox = {} BY <1>1 DEF LPIInv, OfASocket, Current
  <2> QED BY <1>4, <2>1 DEF OneOnItsWay
<1> QED BY <1>3, <1>4, <1>5, <1>6, <1>7

LEMMA SendPreserves ==
    ASSUME LPIInv, Send \/ SendReq
    PROVE  LPIInv'
<1>1. CASE Send
  <2>1. SockOK' /\ OfASocket' /\ OneOnItsWay'
    BY <1>1, SentAlone DEF Send, sockVars
  <2> QED BY <1>1, <2>1 DEF Send, LPIInv, WaitsForLast, StoredLast, ReplyFresh
<1>2. CASE SendReq
  <2>1. /\ SockOK' /\ OfASocket' /\ OneOnItsWay' /\ type' = type
        /\ type = "req" => Current' \subseteq {last'} /\ last'.call = call
    BY <1>2, SentAlone DEF SendReq, sockVars
  <2> QED BY <1>2, <2>1 DEF SendReq, LPIInv, WaitsForLast, StoredLast, ReplyFresh
<1> QED BY <1>1, <1>2

\* A reply leaves the inbox: of a REQ socket, the one that was owed.
LEMMA TakenAlone ==
    ASSUME LPIInv, NEW p \in inbox, inbox' = inbox \ {p}, owed' = FALSE,
           UNCHANGED <<type, gen, net>>
    PROVE  /\ SockOK' /\ OfASocket' /\ OneOnItsWay'
           /\ type = "req" => Current' = {} /\ Current = {p}
<1>1. SockOK' BY DEF LPIInv, SockOK
<1>2. OfASocket' BY DEF LPIInv, OfASocket
<1>3. CASE type = "req"
  <2>1. Current = {p} BY <1>3 DEF LPIInv, OfASocket, OneOnItsWay, Current
  <2>2. inbox' = {} /\ \A q \in net : q.gen # gen
    BY <1>3, <2>1 DEF LPIInv, OfASocket, OneOnItsWay, Current
  <2>3. Current' = {} BY <2>2 DEF Current
  <2>4. OneOnItsWay' BY <2>2, <2>3 DEF OneOnItsWay
  <2> QED BY <1>1, <1>2, <2>1, <2>3, <2>4
<1>4. CASE type # "req" BY <1>1, <1>2, <1>4 DEF OneOnItsWay
<1> QED BY <1>3, <1>4

LEMMA TakePreserves ==
    ASSUME LPIInv, Recv \/ Drain \/ Reply
    PROVE  LPIInv'
<1>1. CASE Recv
  <2>1. PICK p \in inbox : inbox' = inbox \ {p} BY <1>1 DEF Recv
  <2>2. SockOK' /\ OfASocket' /\ OneOnItsWay' BY <1>1, <2>1, TakenAlone DEF Recv, sockVars
  <2> QED BY <1>1, <2>2 DEF Recv, sockVars, LPIInv, WaitsForLast, StoredLast, ReplyFresh
<1>2. CASE Drain /\ inbox # {}
  <2>1. PICK p \in inbox : inbox' = inbox \ {p} BY <1>2 DEF Drain
  <2>2. SockOK' /\ OfASocket' /\ OneOnItsWay' BY <1>2, <2>1, TakenAlone DEF Drain, sockVars
  <2> QED BY <1>2, <2>2 DEF Drain, LPIInv, WaitsForLast, StoredLast, ReplyFresh
<1>3. CASE Drain /\ inbox = {}
  BY <1>3 DEF Drain, sockVars, LPIInv, SockOK, OfASocket, OneOnItsWay, Current, WaitsForLast,
              StoredLast, ReplyFresh
\* The call returns what its latest try asked for.
<1>4. CASE Reply
  <2>1. PICK p \in inbox : inbox' = inbox \ {p} /\ rep' = p BY <1>4 DEF Reply
  <2>2. /\ SockOK' /\ OfASocket' /\ OneOnItsWay' /\ type' = type
        /\ type = "req" => Current = {p}
    BY <1>4, <2>1, TakenAlone DEF Reply, sockVars
  <2>3. type = "req" => p = last /\ last.call = call BY <1>4, <2>2 DEF Reply, LPIInv, WaitsForLast
  <2> QED BY <1>4, <2>1, <2>2, <2>3 DEF Reply, LPIInv, WaitsForLast, StoredLast, ReplyFresh
<1> QED BY <1>1, <1>2, <1>3, <1>4

\* A new socket has nothing on its way.
LEMMA ReconnectPreserves ==
    ASSUME LPIInv, Reconnect
    PROVE  LPIInv'
<1>1. pc = "reconnect" /\ pc' = "loop" /\ UNCHANGED <<net, call, rep, last>>
  BY DEF Reconnect
<1>2. WaitsForLast' /\ StoredLast' /\ ReplyFresh'
  BY <1>1 DEF LPIInv, WaitsForLast, StoredLast, ReplyFresh
<1>3. CASE conns = <<>>
  <2>1. UNCHANGED <<type, gen, owed, inbox>> BY <1>3 DEF Reconnect
  <2> QED BY <1>1, <1>2, <2>1 DEF LPIInv, SockOK, OfASocket, OneOnItsWay, Current
<1>4. CASE conns # <<>>
  <2>1. gen' = gen + 1 /\ owed' = FALSE /\ inbox' = {} BY <1>4 DEF Reconnect
  <2>2. SockOK'
    <3>1. gen' \in Nat BY <2>1 DEF LPIInv, SockOK
    <3>2. owed' \in BOOLEAN BY <2>1
    <3> QED BY <3>1, <3>2 DEF SockOK
  <2>3. \A p \in net' : p.gen \in 0..gen BY <1>1 DEF LPIInv, OfASocket
  <2>4. OfASocket' BY <2>1, <2>3 DEF LPIInv, SockOK, OfASocket
  <2>5. Current' = {} BY <2>1, <2>3 DEF LPIInv, SockOK, Current
  <2>6. OneOnItsWay' BY <2>1, <2>5 DEF OneOnItsWay
  <2> QED BY <1>2, <2>2, <2>4, <2>6 DEF LPIInv
<1> QED BY <1>3, <1>4

\* The network: a packet moves on, or is lost, or its socket is closed.
LEMMA NetworkPreserves ==
    ASSUME LPIInv, NEW p \in net, Serve(p) \/ Lose(p)
    PROVE  LPIInv'
<1>1. /\ net' = net \ {p} /\ inbox' \in {inbox, inbox \cup {p}}
      /\ inbox' # inbox => p.gen = gen
      /\ UNCHANGED <<type, gen, owed, pc, call, rep, last>>
  BY DEF Serve, Lose, sockVars
<1>2. Current' \subseteq Current BY <1>1 DEF Current
<1>3. SockOK' /\ OfASocket' BY <1>1 DEF LPIInv, SockOK, OfASocket
<1>4. OneOnItsWay' BY <1>1, <1>2 DEF LPIInv, OneOnItsWay
<1> QED BY <1>1, <1>2, <1>3, <1>4 DEF LPIInv, WaitsForLast, StoredLast, ReplyFresh

\* The steps that neither send nor receive.
LEMMA LocalPreserves ==
    ASSUME LPIInv,
           \/ \E e \in Endpoints : Connect(e) \/ Disconnect(e)
           \/ Begin \/ SendBreak \/ Timeout \/ TryAgain \/ UNCHANGED lpVars
    PROVE  LPIInv'
<1>1. UNCHANGED <<type, gen, owed, net, inbox>>
  BY DEF Connect, Disconnect, Begin, SendBreak, Timeout, TryAgain, lpVars, sockVars
<1>2. SockOK' /\ OfASocket' /\ OneOnItsWay' /\ Current' = Current
  BY <1>1 DEF LPIInv, SockOK, OfASocket, OneOnItsWay, Current
<1>3. WaitsForLast' /\ StoredLast' /\ ReplyFresh'
  BY <1>2 DEF LPIInv, WaitsForLast, StoredLast, ReplyFresh, Connect, Disconnect, Begin,
              SendBreak, Timeout, TryAgain, lpVars
<1> QED BY <1>2, <1>3 DEF LPIInv

-----------------------------------------------------------------------------
(* The theorems *)

\* The inductive invariant: one request at most can still be answered to a REQ
\* socket, and a call waits only while it is the one of its latest try.
THEOREM LPInductive == LPSpec => []LPIInv
<1>1. LPIInv /\ [LPNext]_lpVars => LPIInv'
  <2> SUFFICES ASSUME LPIInv, [LPNext]_lpVars PROVE LPIInv' OBVIOUS
  <2>1. CASE Send \/ SendReq BY <2>1, SendPreserves
  <2>2. CASE Recv \/ Drain \/ Reply BY <2>2, TakePreserves
  <2>3. CASE Reconnect BY <2>3, ReconnectPreserves
  <2>4. CASE \E p \in net : Serve(p) \/ Lose(p) BY <2>4, NetworkPreserves
  <2>5. CASE \/ \E e \in Endpoints : Connect(e) \/ Disconnect(e)
             \/ Begin \/ SendBreak \/ Timeout \/ TryAgain \/ UNCHANGED lpVars
    BY <2>5, LocalPreserves
  <2> QED BY <2>1, <2>2, <2>3, <2>4, <2>5 DEF LPNext, LazyPiratReq
<1> QED BY <1>1, LPInitInv, PTL DEF LPSpec

\* The reply that LazyPiratReq returns from a REQ socket answers the packet of
\* its latest try: no reply to an earlier try, call or Send is taken for it,
\* whatever sockets were opened before.
THEOREM ReplyIsFresh == LPSpec => []ReplyFresh
<1>1. LPIInv => ReplyFresh BY DEF LPIInv
<1> QED BY <1>1, LPInductive, PTL

-----------------------------------------------------------------------------
(* What the socket is connected to.                                        *)

\* A list of endpoints, each once.
Listed(cs) == /\ cs \in Seq(Endpoints)
              /\ \A i, j \in 1..Len(cs) : cs[i] = cs[j] => i = j

LEMMA ConnLists ==
    ASSUME NEW cs, Listed(cs), NEW e \in Endpoints
    PROVE  Listed(Conn(cs, e)) /\ ToSet(Conn(cs, e)) = ToSet(cs) \cup {e}
<1>1. CASE e \in ToSet(cs)
  BY <1>1 DEF Conn
<1>2. CASE e \notin ToSet(cs)
  <2> DEFINE ds == Append(cs, e)
  <2>1. /\ cs \in Seq(Endpoints) /\ ds \in Seq(Endpoints) /\ Len(cs) \in Nat
        /\ Len(ds) = Len(cs) + 1 /\ DOMAIN ds = 1..Len(cs) + 1 /\ DOMAIN cs = 1..Len(cs)
        /\ \A k \in 1..Len(cs) : ds[k] = cs[k]
        /\ ds[Len(cs) + 1] = e
    BY DEF Listed
  <2>2. \A k \in 1..Len(cs) : cs[k] # e BY <1>2, <2>1 DEF ToSet
  <2> HIDE DEF ds
  <2>3. Listed(ds) BY <2>1, <2>2 DEF Listed
  <2>4. ToSet(ds) = ToSet(cs) \cup {e}
    <3>1. \A k \in 1..Len(cs) + 1 : ds[k] \in ToSet(cs) \cup {e} BY <2>1 DEF ToSet
    <3>2. ToSet(ds) \subseteq ToSet(cs) \cup {e} BY <2>1, <3>1 DEF ToSet
    <3>3. \A k \in 1..Len(cs) : cs[k] \in ToSet(ds) BY <2>1 DEF ToSet
    <3>4. e \in ToSet(ds) BY <2>1 DEF ToSet
    <3> QED BY <2>1, <3>2, <3>3, <3>4 DEF ToSet
  <2> QED BY <1>2, <2>3, <2>4 DEF Conn, ds
<1> QED BY <1>1, <1>2

\* The loop of Reconnect lists what it connects to.
LEMMA RelistedLists ==
    ASSUME NEW cs \in Seq(Endpoints), NEW up \in SUBSET ToSet(cs)
    PROVE  Listed(Relisted(cs, up)) /\ ToSet(Relisted(cs, up)) = up
<1> DEFINE L == Len(cs)
           V == Seq(Endpoints)
           none == <<>>
           step == [x \in V \X Nat |-> IF x[2] \in 1..L /\ cs[L + 1 - x[2]] \in up
                                       THEN Conn(x[1], cs[L + 1 - x[2]]) ELSE x[1]]
           Is(f) == f = [n \in 0..L |-> IF n = 0 THEN <<>>
                            ELSE LET e == cs[L + 1 - n] IN
                                 IF e \in up THEN Conn(f[n - 1], e) ELSE f[n - 1]]
<1>1. L \in Nat /\ \A k \in 1..L : cs[k] \in Endpoints OBVIOUS
<1>2. step \in [V \X Nat -> V]
  <2>1. ASSUME NEW v \in V, NEW n \in Nat, n \in 1..L PROVE Conn(v, cs[L + 1 - n]) \in V
    <3>1. L + 1 - n \in 1..L BY <1>1, <2>1
    <3>2. cs[L + 1 - n] \in Endpoints BY <1>1, <3>1
    <3> QED BY <3>2 DEF Conn
  <2> QED BY <2>1
<1>3. none \in V OBVIOUS
<1>4. PICK g \in [0..L -> V] :
         Iterates(g, none, step, L)
  <2> HIDE DEF step, V, L, none
  <2>1. L \in Nat BY <1>1
  <2> QED BY <2>1, <1>1, <1>2, <1>3, PrimitiveRecursion
<1>5. Is(g)
  <2>1. ASSUME NEW k \in 0..L
        PROVE  g[k] = IF k = 0 THEN <<>>
                            ELSE LET e == cs[L + 1 - k] IN
                                 IF e \in up THEN Conn(g[k - 1], e) ELSE g[k - 1]
    <3>1. CASE k = 0 BY <1>4, <3>1 DEF Iterates
    <3>2. CASE k # 0
      <4>1. k \in 1..L /\ k - 1 \in 0..L /\ k \in Nat BY <1>1, <3>2
      <4>2. g[k - 1] \in V BY <4>1
      <4>3. g[k] = step[<<g[k - 1], k>>] BY <1>4, <3>2 DEF Iterates
      <4> QED BY <3>2, <4>1, <4>2, <4>3
    <3> QED BY <3>1, <3>2
  <2>2. g = [k \in 0..L |-> g[k]] OBVIOUS
  <2> QED BY <2>1, <2>2
<1> DEFINE f == CHOOSE f : Is(f)
<1>6. Is(f) BY <1>5
<1>7. Relisted(cs, up) = f[L] BY DEF Relisted
<1>8. \A k \in 0..L : f[k] = IF k = 0 THEN <<>>
                            ELSE IF cs[L + 1 - k] \in up THEN Conn(f[k - 1], cs[L + 1 - k])
                                 ELSE f[k - 1]
  <2>1. f = [n \in 0..L |-> IF n = 0 THEN <<>>
                            ELSE LET e == cs[L + 1 - n] IN
                                 IF e \in up THEN Conn(f[n - 1], e) ELSE f[n - 1]]
    BY <1>6
  <2> HIDE DEF f
  <2> QED BY <2>1
<1> HIDE DEF f
\* After n turns the last n endpoints that succeeded are listed.
<1> DEFINE Turns(n) == n <= L => /\ Listed(f[n])
                                /\ ToSet(f[n]) = {e \in up : \E k \in 1..L : k > L - n /\ cs[k] = e}
           S == {n \in Nat : Turns(n)}
<1>9. 0 \in S
  <2>1. f[0] = <<>> BY <1>1, <1>8
  <2>2. Listed(<<>>) /\ ToSet(<<>>) = {} BY DEF Listed, ToSet
  <2>3. ~ \E k \in 1..L : k > L - 0 BY <1>1
  <2> QED BY <2>1, <2>2, <2>3
<1>10. ASSUME NEW n \in S PROVE n + 1 \in S
  <2> SUFFICES ASSUME n + 1 <= L PROVE Turns(n + 1) OBVIOUS
  <2>1. n \in Nat /\ Turns(n) OBVIOUS
  <2>9. n <= L /\ n + 1 \in 1..L BY <1>1, <2>1
  <2> HIDE DEF S
  <2> DEFINE e == cs[L - n]
  <2>2. e \in Endpoints /\ L - n \in 1..L BY <1>1, <2>1, <2>9
  <2>3. f[n + 1] = IF e \in up THEN Conn(f[n], e) ELSE f[n]
    <3> HIDE DEF L
    <3>1. n + 1 \in 0..L /\ n + 1 # 0 /\ n + 1 - 1 = n /\ L + 1 - (n + 1) = L - n BY <1>1, <2>1, <2>9
    <3>2. PICK m \in 0..L : m = n + 1 BY <3>1
    <3>6. m # 0 /\ m - 1 = n /\ L + 1 - m = L - n BY <1>1, <2>1, <3>1, <3>2
    <3>7. f[m - 1] = f[n] BY <3>6, Zenon
    <3>8. cs[L + 1 - m] = e BY <3>6, Zenon
    <3>3. m # 0 /\ f[m - 1] = f[n] /\ cs[L + 1 - m] = e BY <3>6, <3>7, <3>8
    <3>4. f[m] = IF cs[L + 1 - m] \in up THEN Conn(f[m - 1], cs[L + 1 - m]) ELSE f[m - 1]
      BY <1>8, <3>3, Zenon
    <3> HIDE DEF e
    <3>5. f[m] = IF e \in up THEN Conn(f[n], e) ELSE f[n] BY <3>3, <3>4, Zenon
    <3> QED BY <3>2, <3>5, Zenon
  <2>4. \A k \in 1..L : k > L - (n + 1) <=> k > L - n \/ k = L - n BY <1>1, <2>1, <2>9
  <2>5. {x \in up : \E k \in 1..L : k > L - (n + 1) /\ cs[k] = x}
          = {x \in up : \E k \in 1..L : k > L - n /\ cs[k] = x} \cup ({e} \cap up)
    BY <2>2, <2>4
  <2>6. Listed(f[n]) /\ ToSet(f[n]) = {x \in up : \E k \in 1..L : k > L - n /\ cs[k] = x}
    BY <2>1, <2>9
  <2>7. CASE e \in up BY <2>2, <2>3, <2>5, <2>6, <2>7, ConnLists
  <2>8. CASE e \notin up BY <2>3, <2>5, <2>6, <2>8
  <2> QED BY <2>7, <2>8
<1>11. S \in SUBSET Nat OBVIOUS
<1>12. L \in S
  <2> HIDE DEF S
  <2>1. S = Nat BY <1>9, <1>10, <1>11, NatSetInduction
  <2> QED BY <1>1, <2>1
<1>13. Listed(f[L]) /\ ToSet(f[L]) = {e \in up : \E k \in 1..L : k > L - L /\ cs[k] = e}
  BY <1>1, <1>12
<1>14. {e \in up : \E k \in 1..L : k > L - L /\ cs[k] = e} = up
  <2>1. \A k \in 1..L : k > L - L BY <1>1
  <2> QED BY <2>1 DEF ToSet
<1> QED BY <1>7, <1>13, <1>14

\* Disconn takes the endpoint out of the list.
LEMMA RemoveFirstLists ==
    ASSUME NEW cs, Listed(cs), NEW e \in ToSet(cs)
    PROVE  Listed(RemoveFirst(cs, e)) /\ ToSet(RemoveFirst(cs, e)) = ToSet(cs) \ {e}
<1> DEFINE L == Len(cs)
<1>1. L \in Nat /\ DOMAIN cs = 1..L /\ cs \in Seq(Endpoints) BY DEF Listed
<1>2. PICK at \in 1..L : cs[at] = e BY <1>1 DEF ToSet
<1>3. {k \in 1..L : cs[k] = e} = {at} BY <1>2 DEF Listed
<1>4. SelectInSeq(cs, LAMBDA x : x = e) = at
  <2>1. SelectInSeq(cs, LAMBDA x : x = e) = LET I == {k \in 1..L : cs[k] = e}
                                            IN  IF I # {} THEN Min(I) ELSE 0
    BY DEF SelectInSeq
  <2>2. Min({at}) = at
    <3>1. \A x \in {at} : \A y \in {at} : x <= y BY <1>2
    <3> QED BY <3>1 DEF Min
  <2> QED BY <1>3, <2>1, <2>2
<1> DEFINE a == SubSeq(cs, 1, at - 1)
           b == SubSeq(cs, at + 1, L)
           ds == a \o b
<1>5. RemoveFirst(cs, e) = ds
  <2>1. \E i \in 1..Len(cs) : cs[i] = e BY <1>2
  <2> QED BY <1>4, <2>1 DEF RemoveFirst, RemoveAt
<1>6. /\ a \in Seq(Endpoints) /\ Len(a) = at - 1 /\ \A k \in 1..at - 1 : a[k] = cs[k]
  <2>1. 1 \in Int /\ at - 1 \in Int /\ \A k \in 1..at - 1 : cs[k] \in Endpoints BY <1>1, <1>2
  <2>2. /\ a \in Seq(Endpoints) /\ Len(a) = IF 1 <= at - 1 THEN at - 1 - 1 + 1 ELSE 0
        /\ \A k \in 1..at - 1 - 1 + 1 : a[k] = cs[1 + k - 1]
    BY <2>1, SubSeqProperties
  <2> HIDE DEF a
  <2>3. \A k \in 1..at - 1 : 1 + k - 1 = k /\ k \in 1..at - 1 - 1 + 1 BY <1>2
  <2> QED BY <1>2, <2>2, <2>3
<1>16. /\ b \in Seq(Endpoints) /\ Len(b) = L - at /\ \A k \in 1..L - at : b[k] = cs[at + k]
  <2>1. at + 1 \in Int /\ L \in Int /\ \A k \in at + 1..L : cs[k] \in Endpoints BY <1>1, <1>2
  <2> HIDE DEF L
  <2>2. /\ b \in Seq(Endpoints) /\ Len(b) = IF at + 1 <= L THEN L - (at + 1) + 1 ELSE 0
        /\ \A k \in 1..L - (at + 1) + 1 : b[k] = cs[at + 1 + k - 1]
    BY <2>1, SubSeqProperties
  <2> HIDE DEF b
  <2>5. L - (at + 1) + 1 = L - at /\ (at + 1 <= L \/ L - at = 0) BY <1>1, <1>2
  <2>3. Len(b) = L - at /\ L - (at + 1) + 1 = L - at BY <2>2, <2>5
  <2>4. ASSUME NEW k \in 1..L - at PROVE b[k] = cs[at + k]
    <3>1. b[k] = cs[at + 1 + k - 1] BY <2>2, <2>3
    <3>2. at + 1 + k - 1 = at + k BY <1>1, <1>2
    <3> QED BY <3>1, <3>2
  <2> QED BY <2>2, <2>3, <2>4
<1>7. /\ ds \in Seq(Endpoints) /\ Len(ds) = L - 1 /\ DOMAIN ds = 1..L - 1
      /\ \A k \in 1..L - 1 : ds[k] = IF k < at THEN cs[k] ELSE cs[k + 1]
  <2> HIDE DEF a, b
  <2>1. /\ ds \in Seq(Endpoints) /\ Len(ds) = Len(a) + Len(b)
        /\ \A k \in 1..Len(a) + Len(b) : ds[k] = IF k <= Len(a) THEN a[k] ELSE b[k - Len(a)]
    BY <1>6, <1>16, ConcatProperties
  <2> HIDE DEF ds
  <2>2. Len(ds) = L - 1 BY <1>1, <1>2, <1>6, <1>16, <2>1
  <2>3. ASSUME NEW k \in 1..L - 1 PROVE ds[k] = IF k < at THEN cs[k] ELSE cs[k + 1]
    <3>1. CASE k < at
      <4>1. k \in 1..Len(a) BY <1>1, <1>2, <1>6, <3>1
      <4>3. Len(a) \in Nat /\ Len(b) \in Nat BY <1>6, <1>16
      <4>4. k \in 1..Len(a) + Len(b) /\ k <= Len(a) BY <4>1, <4>3
      <4>2. ds[k] = a[k] BY <2>1, <4>4
      <4> QED BY <1>6, <3>1, <4>1, <4>2
    <3>2. CASE k >= at
      <4>1. k - (at - 1) \in 1..L - at /\ k > Len(a) /\ k \in 1..Len(a) + Len(b) BY <1>16, <1>1, <1>2, <1>6, <3>2
      <4>2. ds[k] = b[k - Len(a)] BY <1>6, <2>1, <4>1
      <4>3. b[k - (at - 1)] = cs[at + (k - (at - 1))] BY <1>16, <4>1
      <4>4. at + (k - (at - 1)) = k + 1 BY <1>2
      <4> QED BY <1>6, <3>2, <4>2, <4>3, <4>4
    <3> QED BY <1>2, <3>1, <3>2
  <2>4. DOMAIN ds = 1..L - 1 BY <2>1, <2>2, LenProperties
  <2> QED BY <2>1, <2>2, <2>3, <2>4
<1> HIDE DEF ds, a, b
<1>8. \A j \in 1..L : cs[j] = e => j = at BY <1>3
<1>9. ASSUME NEW i \in 1..L - 1, NEW j \in 1..L - 1, ds[i] = ds[j] PROVE i = j
  <2> DEFINE Old(k) == IF k < at THEN k ELSE k + 1
  <2>1. Old(i) \in 1..L /\ Old(j) \in 1..L BY <1>1, <1>2
  <2>2. cs[Old(i)] = cs[Old(j)] BY <1>7, <1>9
  <2>3. Old(i) = Old(j) BY <2>1, <2>2 DEF Listed
  <2> QED BY <1>1, <1>2, <2>3
<1>10. Listed(ds) BY <1>7, <1>9 DEF Listed
<1>11. ToSet(ds) \subseteq ToSet(cs) \ {e}
  <2>1. ASSUME NEW k \in 1..L - 1 PROVE ds[k] \in ToSet(cs) /\ ds[k] # e
    <3>1. CASE k < at
      <4>1. k \in 1..L /\ k # at /\ ds[k] = cs[k] BY <1>1, <1>2, <1>7, <3>1
      <4> QED BY <1>1, <1>8, <4>1 DEF ToSet
    <3>2. CASE k >= at
      <4>1. k + 1 \in 1..L /\ k + 1 # at /\ ds[k] = cs[k + 1] BY <1>1, <1>2, <1>7, <3>2
      <4> QED BY <1>1, <1>8, <4>1 DEF ToSet
    <3> QED BY <1>2, <3>1, <3>2
  <2> QED BY <1>7, <2>1 DEF ToSet
<1>12. ASSUME NEW j \in 1..L, cs[j] # e PROVE cs[j] \in ToSet(ds)
  <2>1. j # at BY <1>2, <1>12
  <2>2. CASE j < at
    <3>1. j \in 1..L - 1 /\ ds[j] = cs[j] BY <1>1, <1>2, <1>7, <2>2
    <3> QED BY <1>7, <3>1 DEF ToSet
  <2>3. CASE j > at
    <3>1. j - 1 \in 1..L - 1 /\ ~ (j - 1 < at) /\ j - 1 + 1 = j BY <1>1, <1>2, <2>3
    <3>2. ds[j - 1] = cs[j] BY <1>7, <3>1
    <3> QED BY <1>7, <3>1, <3>2 DEF ToSet
  <2> QED BY <1>2, <2>1, <2>2, <2>3
<1>13. ToSet(cs) \ {e} \subseteq ToSet(ds) BY <1>1, <1>12 DEF ToSet
<1> QED BY <1>5, <1>10, <1>11, <1>13

-----------------------------------------------------------------------------
(* The connections.                                                        *)

\* conns lists what the socket is connected to; without a socket it is what
\* the last one was connected to.
Links == Listed(conns) /\ (type # "invalid" => ToSet(conns) = linked)

\* A try that waits was sent to a connection, so that there is one to restore:
\* a try that is given up leaves a new socket, which owes nothing.
Waiting ==
    /\ pc # "idle" => trys > 0
    /\ pc \in {"wait", "reconnect"} => linked # {} /\ type # "invalid"
    /\ pc = "loop" => ~owed

LinksIInv == LPTypeOK /\ Links /\ Waiting /\ ReadyAfterCall

LEMMA LinksInit == LPInit => LinksIInv
<1> SUFFICES ASSUME LPInit PROVE LinksIInv OBVIOUS
<1>1. Listed(<<>>) /\ ToSet(<<>>) = {} BY DEF Listed, ToSet
<1>2. LPTypeOK
  <2>1. <<>> \in Seq(Endpoints) /\ 0 \in 0..MaxCalls /\ 0 \in 0..MaxTrys BY LPAssumption
  <2>2. FALSE \in BOOLEAN OBVIOUS
  <2> QED BY <2>1, <2>2 DEF LPInit, LPTypeOK
<1>3. Links BY <1>1 DEF LPInit, Links
<1> QED BY <1>2, <1>3 DEF LPInit, LinksIInv, Waiting, ReadyAfterCall

LEMMA ConnectLinks ==
    ASSUME LinksIInv, NEW e \in Endpoints, Connect(e) \/ Disconnect(e)
    PROVE  LinksIInv'
<1>1. /\ Listed(conns) /\ ToSet(conns) = linked /\ type # "invalid" /\ pc = "idle"
      /\ UNCHANGED <<type, gen, owed, net, inbox, pc, call, msg, trys, ret>>
  BY DEF LinksIInv, Links, Connect, Disconnect
<1>2. Listed(conns)' /\ ToSet(conns)' = linked' /\ linked' \subseteq Endpoints
  <2>1. CASE Connect(e)
    <3>1. conns' = Conn(conns, e) /\ linked' = linked \cup {e} BY <2>1 DEF Connect
    <3>2. Listed(conns') /\ ToSet(conns') = linked' BY <1>1, <3>1, ConnLists
    <3> QED BY <3>1, <3>2 DEF LinksIInv, LPTypeOK, Listed, ToSet
  <2>2. CASE Disconnect(e)
    <3>1. conns' = RemoveFirst(conns, e) /\ linked' = linked \ {e} /\ e \in linked
      BY <2>2 DEF Disconnect
    <3>2. Listed(conns') /\ ToSet(conns') = linked' BY <1>1, <3>1, RemoveFirstLists
    <3> QED BY <3>1, <3>2 DEF LinksIInv, LPTypeOK, Listed, ToSet
  <2> QED BY <2>1, <2>2
<1>3. conns' \in Seq(Endpoints) BY <1>2 DEF Listed
<1>4. LPTypeOK' BY <1>1, <1>2, <1>3 DEF LinksIInv, LPTypeOK
<1>5. Links' BY <1>2 DEF Links
<1> QED BY <1>1, <1>4, <1>5 DEF LinksIInv, Waiting, ReadyAfterCall

LEMMA ReconnectLinks == LinksIInv /\ Reconnect => LinksIInv'
<1> SUFFICES ASSUME LinksIInv, Reconnect PROVE LinksIInv' OBVIOUS
<1>1. /\ pc = "reconnect" /\ pc' = "loop" /\ UNCHANGED <<net, call, msg, trys, ret>>
      /\ Listed(conns) /\ ToSet(conns) = linked /\ linked # {} /\ trys > 0
  BY DEF LinksIInv, Links, Waiting, Reconnect
<1>2. conns # <<>> BY <1>1 DEF ToSet
<1>3. /\ gen' = gen + 1 /\ owed' = FALSE /\ inbox' = {} /\ type' \in SockTypes
  BY <1>2 DEF Reconnect
<1>4. /\ Listed(conns)' /\ linked' \subseteq Endpoints
      /\ type' # "invalid" => ToSet(conns)' = linked'
  <2>1. CASE type' = "invalid"
    <3>1. linked' = {} /\ conns' = conns BY <1>2, <2>1 DEF Reconnect
    <3> QED BY <1>1, <2>1, <3>1 DEF Listed
  <2>2. CASE type' # "invalid"
    <3>1. PICK up \in SUBSET ToSet(conns) : linked' = up /\ conns' = Relisted(conns, up)
      BY <1>2, <2>2 DEF Reconnect
    <3>2. conns \in Seq(Endpoints) BY <1>1 DEF Listed
    <3>3. Listed(conns') /\ ToSet(conns') = linked' BY <3>1, <3>2, RelistedLists
    <3>4. linked' \subseteq Endpoints BY <1>1, <3>1 DEF LinksIInv, LPTypeOK
    <3> QED BY <3>3, <3>4 DEF Listed, ToSet
  <2> QED BY <2>1, <2>2
<1>5. conns' \in Seq(Endpoints) BY <1>4 DEF Listed
<1>6. LPTypeOK'
  <2>1. gen' \in Nat /\ inbox' \subseteq Packets BY <1>3 DEF LinksIInv, LPTypeOK
  <2>2. owed' \in BOOLEAN BY <1>3
  <2> QED BY <1>1, <1>3, <1>4, <1>5, <2>1, <2>2 DEF LinksIInv, LPTypeOK
<1>7. Links' BY <1>4 DEF Links
<1>8. Waiting' BY <1>1, <1>3 DEF Waiting
<1> QED BY <1>1, <1>6, <1>7, <1>8 DEF LinksIInv, ReadyAfterCall

LEMMA SendLinks == LinksIInv /\ (Send \/ SendReq) => LinksIInv'
<1> SUFFICES ASSUME LinksIInv, Send \/ SendReq PROVE LinksIInv' OBVIOUS
<1>1. /\ UNCHANGED <<type, gen, linked, conns, inbox, trys>> /\ owed' = TRUE
      /\ ~SendFails /\ type # "invalid"
      /\ call \in Nat /\ msg \in Nat /\ gen \in Nat /\ trys \in Nat
  BY LPAssumption DEF Send, SendReq, sockVars, SendFails, LinksIInv, LPTypeOK
<1>2. PICK k \in Nat, b \in Nat : Transmit(k, b)
  BY <1>1 DEF Send, SendReq
<1>3. PICK e \in linked :
        LET p == [gen |-> gen, endp |-> e, call |-> k, body |-> b, try |-> trys]
        IN  net' = net \cup {p} /\ last' = p
  BY <1>2 DEF Transmit
<1>4. net' \subseteq Packets BY <1>1, <1>3 DEF LinksIInv, LPTypeOK, Packets
<1>5. Links' BY <1>1 DEF LinksIInv, Links, Listed, ToSet
<1>6. CASE Send
  <2>1. call' \in 0..MaxCalls /\ UNCHANGED <<pc, msg>> /\ ret' = "none" /\ pc = "idle"
    BY <1>6, LPAssumption DEF Send, LinksIInv, LPTypeOK
  <2>2. LPTypeOK' BY <1>1, <1>4, <2>1 DEF LinksIInv, LPTypeOK
  <2> QED BY <1>1, <1>5, <2>1, <2>2 DEF LinksIInv, Waiting, ReadyAfterCall
<1>7. CASE SendReq
  <2>1. pc' = "wait" /\ msg' = 0 /\ ret' = "ok" /\ call' = call /\ pc = "send"
    BY <1>7 DEF SendReq
  <2>2. LPTypeOK' BY <1>1, <1>4, <2>1, LPAssumption DEF LinksIInv, LPTypeOK
  <2>3. linked # {} BY <1>3
  <2> QED BY <1>1, <1>5, <2>1, <2>2, <2>3 DEF LinksIInv, Waiting, ReadyAfterCall
<1> QED BY <1>6, <1>7

\* The steps that leave the socket and its connections.
LEMMA RestLinks ==
    ASSUME LinksIInv,
           \/ Recv \/ Begin \/ Drain \/ SendBreak \/ Reply \/ Timeout \/ TryAgain
           \/ \E p \in net : Serve(p) \/ Lose(p)
           \/ UNCHANGED lpVars
    PROVE  LinksIInv'
<1>1. UNCHANGED <<type, gen, linked, conns>>
  BY DEF Recv, Begin, Drain, SendBreak, Reply, Timeout, TryAgain, Serve, Lose, lpVars, sockVars
<1>2. Links' BY <1>1 DEF LinksIInv, Links, Listed, ToSet
<1>3. CASE Recv \/ Drain \/ Reply
  <2>1. /\ inbox' \subseteq inbox /\ owed' \in {FALSE, owed}
        /\ UNCHANGED <<net, call, msg, trys>>
    BY <1>3 DEF Recv, Drain, Reply
  <2>2. ret' \in {ret, "ok"} /\ pc' \in {pc, "send", "idle"} BY <1>3 DEF Recv, Drain, Reply
  <2>3. LPTypeOK' BY <1>1, <2>1, <2>2 DEF LinksIInv, LPTypeOK
  <2>4. Waiting'
    BY <1>1, <1>3, <2>1 DEF LinksIInv, Waiting, Recv, Drain, Reply
  <2>5. ReadyAfterCall' BY <1>3 DEF LinksIInv, ReadyAfterCall, Recv, Drain, Reply
  <2> QED BY <1>2, <2>3, <2>4, <2>5 DEF LinksIInv
<1>4. CASE Begin
  <2>1. /\ call' \in 0..MaxCalls /\ msg' \in 0..MaxCalls /\ trys' \in 0..MaxTrys /\ trys' > 0
        /\ ret' = "timeout" /\ pc' = "drain" /\ UNCHANGED <<owed, net, inbox>>
    BY <1>4, LPAssumption DEF Begin, LinksIInv, LPTypeOK
  <2>2. LPTypeOK' BY <1>1, <2>1 DEF LinksIInv, LPTypeOK
  <2> QED BY <1>2, <2>1, <2>2 DEF LinksIInv, Waiting, ReadyAfterCall
<1>5. CASE SendBreak \/ Timeout \/ UNCHANGED lpVars
  <2>1. LPTypeOK' BY <1>1, <1>5 DEF LinksIInv, LPTypeOK, SendBreak, Timeout, lpVars
  <2>2. Waiting' BY <1>1, <1>5 DEF LinksIInv, Waiting, SendBreak, Timeout, lpVars
  <2>3. ReadyAfterCall' BY <1>5 DEF LinksIInv, ReadyAfterCall, SendBreak, Timeout, lpVars
  <2> QED BY <1>2, <2>1, <2>2, <2>3 DEF LinksIInv
<1>6. CASE TryAgain
  <2>1. /\ trys > 0 /\ ~owed /\ trys \in 0..MaxTrys /\ trys' = trys - 1
        /\ pc' = IF trys' # 0 THEN "drain" ELSE "idle"
        /\ UNCHANGED <<owed, net, inbox, call, msg, ret>>
    BY <1>6 DEF LinksIInv, LPTypeOK, Waiting, TryAgain
  <2>2. trys' \in 0..MaxTrys /\ (trys' # 0 => trys' > 0) BY <2>1, LPAssumption
  <2>3. LPTypeOK' BY <1>1, <2>1, <2>2 DEF LinksIInv, LPTypeOK
  <2>4. Waiting' BY <2>1, <2>2 DEF Waiting
  <2> QED BY <1>2, <2>1, <2>3, <2>4 DEF LinksIInv, ReadyAfterCall
<1>7. CASE \E p \in net : Serve(p) \/ Lose(p)
  <2>1. /\ net' \subseteq net /\ inbox' \subseteq inbox \cup net
        /\ UNCHANGED <<owed, pc, call, msg, trys, ret>>
    BY <1>7 DEF Serve, Lose
  <2>2. LPTypeOK' BY <1>1, <2>1 DEF LinksIInv, LPTypeOK
  <2> QED BY <1>1, <1>2, <2>1, <2>2 DEF LinksIInv, Waiting, ReadyAfterCall
<1> QED BY <1>3, <1>4, <1>5, <1>6, <1>7

THEOREM LinksInductive == LPSpec => []LinksIInv
<1>1. LinksIInv /\ [LPNext]_lpVars => LinksIInv'
  <2> SUFFICES ASSUME LinksIInv, [LPNext]_lpVars PROVE LinksIInv' OBVIOUS
  <2>1. CASE \E e \in Endpoints : Connect(e) \/ Disconnect(e) BY <2>1, ConnectLinks
  <2>2. CASE Reconnect BY <2>2, ReconnectLinks
  <2>3. CASE Send \/ SendReq BY <2>3, SendLinks
  <2>4. CASE \/ Recv \/ Begin \/ Drain \/ SendBreak \/ Reply \/ Timeout \/ TryAgain
             \/ \E p \in net : Serve(p) \/ Lose(p)
             \/ UNCHANGED lpVars
    BY <2>4, RestLinks
  <2> QED BY <2>1, <2>2, <2>3, <2>4 DEF LPNext, LazyPiratReq
<1> QED BY <1>1, LinksInit, PTL DEF LPSpec

\* conns is the list of the socket's connections through every Connect,
\* Disconnect and Reconnect, whichever connects of a Reconnect fail.
THEOREM ConnectionsListed == LPSpec => []ConnsLinked
<1>1. LinksIInv => ConnsLinked BY DEF LinksIInv, Links, Listed, ConnsLinked
<1> QED BY <1>1, LinksInductive, PTL

\* A call that did not fail owes no reply afterwards: the socket whose reply
\* was given up was closed, because it had a connection to restore.
THEOREM SocketReady == LPSpec => []ReadyAfterCall
<1>1. LinksIInv => ReadyAfterCall BY DEF LinksIInv
<1> QED BY <1>1, LinksInductive, PTL
=============================================================================
