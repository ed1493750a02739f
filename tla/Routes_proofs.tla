--------------------------- MODULE Routes_proofs ---------------------------
(***************************************************************************)
(* Proofs about RouteNet, for any clients, routers, payloads and paths, as *)
(* long as no path is longer than CalcRoute's hop counter can count        *)
(* (ShortRoutes): every packet holds the way it came and the way it has to *)
(* go, and every answer is the one to its client's own request.            *)
(***************************************************************************)
EXTENDS RouteNet, FiniteSetTheorems, SequenceTheorems, TLAPS

\* CalcRoute keeps the hop counter in a byte: the number of the last destination
\* must fit in it.
ShortRoutes == \A path \in Paths : Len(path) <= 256

Frame == {Empty} \cup {Id(n) : n \in Nodes} \cup Payloads
         \cup ({"ctl"} \X Nat \X {"req", "rep"} \X Nat)

\* From slot o + 1 on, F is what Wire puts behind the source: the control frame c
\* and the payload d between two empty frames, and the destinations D.
IsBody(F, o, c, d, D) ==
    /\ F \in Seq(Frame) /\ Len(F) = o + 4 + Len(D)
    /\ F[o + 1] = Empty /\ F[o + 2] = c /\ F[o + 3] = d /\ F[o + 4] = Empty
    /\ \A j \in 1..Len(D) : F[o + 4 + j] = D[j]

\* The destinations of a packet that is between the nodes h + 1 and h + 2 of t.
Others(t, h) == [j \in 1..Len(t) - 2 |-> Id(t[IF j <= h THEN j ELSE j + 2])]

-----------------------------------------------------------------------------
(* What Recv reads *)

\* The separators that are counted are at most three.
SmallCards(a, b, c) == /\ Cardinality({}) = 0 /\ Cardinality({a}) = 1
                       /\ Cardinality({a, b}) = 2 /\ Cardinality({a, b, c}) = 3

LEMMA CardSmall ==
    ASSUME NEW a, NEW b, NEW c, a # b, a # c, b # c
    PROVE  SmallCards(a, b, c)
<1>1. Cardinality({}) = 0 /\ IsFiniteSet({}) BY FS_EmptySet
<1>2. Cardinality({a}) = 1 /\ IsFiniteSet({a}) BY FS_Singleton
<1>3. Cardinality({a, b}) = 2 /\ IsFiniteSet({a, b})
  <2>1. {a, b} = {a} \cup {b} /\ b \notin {a} OBVIOUS
  <2>2. Cardinality({a} \cup {b}) = Cardinality({a}) + 1 /\ IsFiniteSet({a} \cup {b})
    BY <1>2, <2>1, FS_AddElement
  <2> QED BY <1>2, <2>1, <2>2
<1>4. Cardinality({a, b, c}) = 3
  <2>1. {a, b, c} = {a, b} \cup {c} /\ c \notin {a, b} OBVIOUS
  <2>2. Cardinality({a, b} \cup {c}) = Cardinality({a, b}) + 1
    BY <1>3, <2>1, FS_AddElement
  <2> QED BY <1>3, <2>1, <2>2
<1> QED BY <1>1, <1>2, <1>3, <1>4 DEF SmallCards

\* The frames from a to b.
Part(z, F, a, b) == /\ z \in Seq(Frame) /\ Len(z) = b - a + 1
                    /\ \A j \in 1..b - a + 1 : z[j] = F[a + j - 1]

LEMMA PartIs ==
    ASSUME NEW F \in Seq(Frame), NEW a \in 1..Len(F), NEW b \in 1..Len(F), a <= b
    PROVE  Part(SubSeq(F, a, b), F, a, b)
<1>1. a \in Nat /\ b \in Nat /\ b - a + 1 \in Nat OBVIOUS
<1>2. PICK z : z = SubSeq(F, a, b) OBVIOUS
<1>3. z \in Seq(Frame) /\ Len(z) = b - a + 1 BY <1>1, <1>2
<1>4. \A j \in 1..b - a + 1 : z[j] = F[a + j - 1] BY <1>1, <1>2
<1> QED BY <1>2, <1>3, <1>4 DEF Part

\* A list of frames that are the ones from a to b.
LEMMA SectionIs ==
    ASSUME NEW F \in Seq(Frame), NEW s, NEW a \in 1..Len(F), NEW b \in 1..Len(F), a <= b,
           \A m \in 1..Len(F) : (F[m] # Empty /\ Stat(F, m) = s) <=> m \in a..b
    PROVE  Section(F, s) = SubSeq(F, a, b)
<1> DEFINE own == {m \in 1..Len(F) : F[m] # Empty /\ Stat(F, m) = s}
<1>1. own = a..b OBVIOUS
<1>2. Min(a..b) = a /\ Max(a..b) = b
  <2>1. a \in a..b /\ b \in a..b /\ \A y \in a..b : a <= y /\ b >= y OBVIOUS
  <2>2. \A x \in a..b : (\A y \in a..b : x <= y) => x = a BY <2>1
  <2>3. \A x \in a..b : (\A y \in a..b : x >= y) => x = b BY <2>1
  <2>4. Min(a..b) = a BY <2>1, <2>2 DEF Min
  <2>5. Max(a..b) = b BY <2>1, <2>3 DEF Max
  <2> QED BY <2>4, <2>5
<1>3. own # {} BY <1>1
<1>4. Section(F, s) = IF own = {} THEN <<>> ELSE SubSeq(F, Min(own), Max(own))
  BY DEF Section
<1> HIDE DEF own
<1> QED BY <1>1, <1>2, <1>3, <1>4

\* A list of frames of which there are none.
LEMMA SectionNone ==
    ASSUME NEW F, NEW s, \A m \in 1..Len(F) : ~(F[m] # Empty /\ Stat(F, m) = s)
    PROVE  Section(F, s) = <<>>
BY DEF Section

\* F starts with o frames that are not empty: none, or the sender's identity.
Heads(F, o) == o \in {0, 1} /\ \A m \in 1..o : F[m] # Empty

\* How many empty frames there are up to each place.
LEMMA StatIs ==
    ASSUME NEW F, NEW o, NEW c, NEW d, NEW D, Heads(F, o), IsBody(F, o, c, d, D),
           Len(D) \in Nat, c # Empty, \A j \in 1..Len(D) : D[j] # Empty, NEW m \in 1..Len(F)
    PROVE  /\ m <= o => Stat(F, m) = 0
           /\ m \in o + 1..o + 2 => Stat(F, m) = 1
           /\ m = o + 3 => Stat(F, m) = IF d = Empty THEN 2 ELSE 1
           /\ m >= o + 4 => Stat(F, m) = IF d = Empty THEN 3 ELSE 2
<1> DEFINE E == {j \in 1..m : F[j] = Empty}
<1>1. o \in Nat /\ Len(F) = o + 4 + Len(D) BY DEF Heads, IsBody
<1>2. \A j \in 1..Len(F) : F[j] = Empty <=> j = o + 1 \/ j = o + 4 \/ (j = o + 3 /\ d = Empty)
  <2> TAKE j \in 1..Len(F)
  <2>1. CASE j <= o BY <1>1, <2>1 DEF Heads
  <2>2. CASE j \in o + 1..o + 4
    <3>1. F[o + 1] = Empty /\ F[o + 2] = c /\ F[o + 3] = d /\ F[o + 4] = Empty BY DEF IsBody
    <3>2. j = o + 1 \/ j = o + 2 \/ j = o + 3 \/ j = o + 4 BY <1>1, <2>2
    <3>3. CASE j = o + 1 BY <3>1, <3>3
    <3>4. CASE j = o + 2 BY <1>1, <3>1, <3>4
    <3>5. CASE j = o + 3 BY <1>1, <3>1, <3>5
    <3>6. CASE j = o + 4 BY <3>1, <3>6
    <3> QED BY <3>2, <3>3, <3>4, <3>5, <3>6
  <2>3. CASE j > o + 4
    <3>1. PICK k \in 1..Len(D) : j = o + 4 + k
      <4>1. j - o - 4 \in 1..Len(D) /\ j = o + 4 + (j - o - 4) BY <1>1, <2>3
      <4> QED BY <4>1
    <3>2. F[j] # Empty BY <3>1 DEF IsBody
    <3> QED BY <1>1, <2>3, <3>2
  <2> QED BY <1>1, <2>1, <2>2, <2>3
<1>3. \A j \in 1..m : j \in 1..Len(F) OBVIOUS
<1>4. Stat(F, m) = Cardinality(E) BY DEF Stat
<1>5. m <= o => E = {} BY <1>1, <1>2, <1>3
<1>6. m \in o + 1..o + 2 => E = {o + 1} BY <1>1, <1>2, <1>3
<1>7. m = o + 3 => E = IF d = Empty THEN {o + 1, o + 3} ELSE {o + 1} BY <1>1, <1>2, <1>3
<1>8. m >= o + 4 => E = IF d = Empty THEN {o + 1, o + 3, o + 4} ELSE {o + 1, o + 4}
  BY <1>1, <1>2, <1>3
<1>9. /\ Cardinality({}) = 0 /\ Cardinality({o + 1}) = 1
      /\ Cardinality({o + 1, o + 3}) = 2 /\ Cardinality({o + 1, o + 4}) = 2
      /\ Cardinality({o + 1, o + 3, o + 4}) = 3
  <2>1. o + 1 # o + 3 /\ o + 1 # o + 4 /\ o + 3 # o + 4 BY <1>1
  <2>2. PICK a, b, e : a = o + 1 /\ b = o + 3 /\ e = o + 4 OBVIOUS
  <2>3. a # b /\ a # e /\ b # e BY <2>1, <2>2
  <2>4. /\ Cardinality({}) = 0 /\ Cardinality({a}) = 1 /\ Cardinality({a, b}) = 2
        /\ Cardinality({a, b, e}) = 3
    <3>1. SmallCards(a, b, e) BY <2>3, CardSmall
    <3> QED BY <3>1 DEF SmallCards
  <2>5. Cardinality({a, e}) = 2
    <3>1. SmallCards(a, e, b) BY <2>3, CardSmall
    <3> QED BY <3>1 DEF SmallCards
  <2> QED BY <2>2, <2>4, <2>5
<1> HIDE DEF E
<1> QED BY <1>4, <1>5, <1>6, <1>7, <1>8, <1>9

\* Recv splits the frames where Wire joined them, unless the payload is empty.
LEMMA RecvIs ==
    ASSUME NEW F, NEW o, NEW c, NEW d, NEW D \in Seq(Frame), Heads(F, o), IsBody(F, o, c, d, D),
           c # Empty, \A j \in 1..Len(D) : D[j] # Empty
    PROVE  /\ RecvOk(F) <=> d # Empty
           /\ d # Empty => RecvPath(F) = [src |-> IF o = 0 THEN <<>> ELSE <<F[1]>>,
                                      msg |-> <<c, d>>, dest |-> D]
<1>1. /\ o \in {0, 1} /\ F \in Seq(Frame) /\ Len(F) = o + 4 + Len(D) /\ Len(D) \in Nat
      /\ Len(F) \in Nat
  BY DEF Heads, IsBody
<1>2. \A m \in 1..Len(F) : /\ m <= o => Stat(F, m) = 0
                           /\ m \in o + 1..o + 2 => Stat(F, m) = 1
                           /\ m = o + 3 => Stat(F, m) = IF d = Empty THEN 2 ELSE 1
                           /\ m >= o + 4 => Stat(F, m) = IF d = Empty THEN 3 ELSE 2
  BY <1>1, StatIs
<1>3. RecvOk(F) <=> d # Empty
  <2>1. Len(F) \in 1..Len(F) /\ Len(F) >= o + 4 BY <1>1
  <2>2. Stat(F, Len(F)) = IF d = Empty THEN 3 ELSE 2 BY <1>2, <2>1
  <2> QED BY <2>2 DEF RecvOk
<1>4. ASSUME d # Empty PROVE /\ Section(F, 0) = IF o = 0 THEN <<>> ELSE <<F[1]>>
                             /\ Section(F, 1) = <<c, d>>
                             /\ Section(F, 2) = D
  <2>1. \A m \in 1..Len(F) : /\ m <= o => Stat(F, m) = 0 /\ F[m] # Empty
                             /\ m \in o + 1..o + 3 => Stat(F, m) = 1
                             /\ m >= o + 4 => Stat(F, m) = 2
    BY <1>1, <1>2, <1>4 DEF Heads
  <2>2. /\ F[o + 1] = Empty /\ F[o + 2] = c /\ F[o + 3] = d /\ F[o + 4] = Empty
        /\ \A j \in 1..Len(D) : F[o + 4 + j] = D[j]
    BY DEF IsBody
  <2>3. \A m \in 1..Len(F) : m > o + 4 => F[m] # Empty
    <3> TAKE m \in 1..Len(F)
    <3> HAVE m > o + 4
    <3>1. m - o - 4 \in 1..Len(D) /\ m = o + 4 + (m - o - 4) BY <1>1
    <3>2. PICK j \in 1..Len(D) : m = o + 4 + j BY <3>1
    <3> QED BY <2>2, <3>2
  <2>4. Section(F, 0) = IF o = 0 THEN <<>> ELSE <<F[1]>>
    <3>1. CASE o = 0
      <4>1. \A m \in 1..Len(F) : ~(F[m] # Empty /\ Stat(F, m) = 0) BY <1>1, <2>1, <3>1
      <4> QED BY <3>1, <4>1, SectionNone
    <3>2. CASE o = 1
      <4>1. \A m \in 1..Len(F) : (F[m] # Empty /\ Stat(F, m) = 0) <=> m \in 1..1
        BY <1>1, <2>1, <3>2
      <4>2. 1 \in 1..Len(F) /\ 1 <= 1 BY <1>1
      <4>3. Section(F, 0) = SubSeq(F, 1, 1)
        <5>1. PICK a : a = 1 OBVIOUS
        <5>2. a \in 1..Len(F) /\ a <= a BY <4>2, <5>1
        <5>3. \A m \in 1..Len(F) : (F[m] # Empty /\ Stat(F, m) = 0) <=> m \in a..a
          BY <4>1, <5>1
        <5>4. Section(F, 0) = SubSeq(F, a, a) BY <1>1, <5>2, <5>3, SectionIs
        <5> QED BY <5>1, <5>4
      <4>4. SubSeq(F, 1, 1) = <<F[1]>>
        <5>1. PICK z : z = SubSeq(F, 1, 1) OBVIOUS
        <5>2. z \in Seq(Frame) /\ Len(z) = 1 /\ z[1] = F[1] BY <1>1, <4>2, <5>1
        <5>3. z = <<F[1]>> BY <5>2
        <5> QED BY <5>1, <5>3
      <4> QED BY <3>2, <4>3, <4>4
    <3> QED BY <1>1, <3>1, <3>2
  <2>5. Section(F, 1) = <<c, d>>
    <3>1. PICK a, b : a = o + 2 /\ b = o + 3 OBVIOUS
    <3>2. a \in 1..Len(F) /\ b \in 1..Len(F) /\ a <= b BY <1>1, <3>1
    <3>3. \A m \in 1..Len(F) : (F[m] # Empty /\ Stat(F, m) = 1) <=> m \in a..b
      BY <1>1, <1>4, <2>1, <2>2, <3>1
    <3>4. Section(F, 1) = SubSeq(F, a, b) BY <1>1, <3>2, <3>3, SectionIs
    <3>5. SubSeq(F, a, b) = <<c, d>>
      <4>1. b = a + 1 /\ F[a] = c /\ F[b] = d BY <1>1, <2>2, <3>1
      <4>2. Len(SubSeq(F, a, b)) = 2 /\ SubSeq(F, a, b) \in Seq(Frame)
        BY <1>1, <3>2, <4>1
      <4>3. SubSeq(F, a, b)[1] = F[a] /\ SubSeq(F, a, b)[2] = F[b]
        BY <1>1, <3>2, <4>1
      <4>4. PICK z \in Seq(Frame) : z = SubSeq(F, a, b) BY <4>2
      <4>5. Len(z) = 2 /\ z[1] = c /\ z[2] = d BY <4>1, <4>2, <4>3, <4>4
      <4>6. z = <<c, d>> BY <4>5
      <4> QED BY <4>4, <4>6
    <3> QED BY <3>4, <3>5
  <2>6. Section(F, 2) = D
    <3>1. CASE Len(D) = 0
      <4>1. \A m \in 1..Len(F) : ~(F[m] # Empty /\ Stat(F, m) = 2)
        BY <1>1, <2>1, <2>2, <3>1
      <4>2. D = <<>> BY <3>1
      <4> QED BY <4>1, <4>2, SectionNone
    <3>2. CASE Len(D) > 0
      <4>1. PICK a, b : a = o + 5 /\ b = o + 4 + Len(D) OBVIOUS
      <4>2. a \in 1..Len(F) /\ b \in 1..Len(F) /\ a <= b /\ b = Len(F) BY <1>1, <3>2, <4>1
      <4>3. \A m \in 1..Len(F) : (F[m] # Empty /\ Stat(F, m) = 2) <=> m \in a..b
        BY <1>1, <2>1, <2>2, <2>3, <4>1, <4>2
      <4>4. Section(F, 2) = SubSeq(F, a, b) BY <1>1, <4>2, <4>3, SectionIs
      <4>5. PICK z : z = SubSeq(F, a, b) OBVIOUS
      <4>6. z \in Seq(Frame) /\ Len(z) = Len(D) /\ \A j \in 1..Len(D) : z[j] = F[a + j - 1]
        <5>1. Part(z, F, a, b) BY <1>1, <4>2, <4>5, PartIs
        <5>2. b - a + 1 = Len(D) BY <1>1, <4>1
        <5> QED BY <5>1, <5>2 DEF Part
      <4>7. \A j \in 1..Len(D) : z[j] = D[j]
        <5>1. \A j \in 1..Len(D) : a + j - 1 = o + 4 + j BY <1>1, <4>1
        <5> QED BY <2>2, <4>6, <5>1
      <4>8. z = D BY <4>6, <4>7, SeqEqual
      <4> QED BY <4>4, <4>5, <4>8
    <3> QED BY <1>1, <3>1, <3>2
  <2> QED BY <2>4, <2>5, <2>6
<1> QED BY <1>3, <1>4 DEF RecvPath

\* A client's packet, and a router's without the receiver in front.
LEMMA WireIs ==
    ASSUME NEW c \in Frame, NEW d \in Frame, NEW D \in Seq(Frame), NEW x \in Frame
    PROVE  /\ IsBody(Wire([src |-> <<>>, msg |-> <<c, d>>, dest |-> D]), 0, c, d, D)
           /\ IsBody(Tail(Wire([src |-> <<x>>, msg |-> <<c, d>>, dest |-> D])), 0, c, d, D)
<1>1. Empty \in Frame BY DEF Frame
<1>2. ASSUME NEW X \in Seq(Frame)
      PROVE  LET W == X \o <<Empty>> \o <<c, d>> \o <<Empty>> \o D
             IN  /\ W \in Seq(Frame) /\ Len(W) = Len(X) + 4 + Len(D)
                 /\ W[Len(X) + 1] = Empty /\ W[Len(X) + 2] = c /\ W[Len(X) + 3] = d
                 /\ W[Len(X) + 4] = Empty
                 /\ \A j \in 1..Len(D) : W[Len(X) + 4 + j] = D[j]
  <2>1. PICK M : M = X \o <<Empty>> OBVIOUS
  <2>2. M \in Seq(Frame) /\ Len(M) = Len(X) + 1 /\ M[Len(X) + 1] = Empty BY <1>1, <2>1
  <2>3. PICK N : N = M \o <<c, d>> OBVIOUS
  <2>4. /\ N \in Seq(Frame) /\ Len(N) = Len(X) + 3 /\ N[Len(X) + 1] = Empty
        /\ N[Len(X) + 2] = c /\ N[Len(X) + 3] = d
    <3>1. PICK e : e = <<c, d>> OBVIOUS
    <3>2. e \in Seq(Frame) /\ Len(e) = 2 /\ e[1] = c /\ e[2] = d BY <3>1
    <3>3. /\ N \in Seq(Frame) /\ Len(N) = Len(M) + 2
          /\ \A j \in 1..Len(M) + 2 : N[j] = IF j <= Len(M) THEN M[j] ELSE e[j - Len(M)]
      BY <2>2, <2>3, <3>1, <3>2, ConcatProperties
    <3>4. Len(X) \in Nat OBVIOUS
    <3>5. /\ Len(X) + 1 \in 1..Len(M) + 2 /\ Len(X) + 2 \in 1..Len(M) + 2
          /\ Len(X) + 3 \in 1..Len(M) + 2
      BY <2>2, <3>4
    <3>6. N[Len(X) + 1] = Empty
      <4>1. Len(X) + 1 <= Len(M) BY <2>2, <3>4
      <4> QED BY <2>2, <3>3, <3>5, <4>1
    <3>7. N[Len(X) + 2] = c
      <4>1. ~(Len(X) + 2 <= Len(M)) /\ Len(X) + 2 - Len(M) = 1 BY <2>2, <3>4
      <4> QED BY <3>2, <3>3, <3>5, <4>1
    <3>8. N[Len(X) + 3] = d
      <4>1. ~(Len(X) + 3 <= Len(M)) /\ Len(X) + 3 - Len(M) = 2 BY <2>2, <3>4
      <4> QED BY <3>2, <3>3, <3>5, <4>1
    <3>9. Len(N) = Len(X) + 3 BY <2>2, <3>3, <3>4
    <3> QED BY <3>3, <3>6, <3>7, <3>8, <3>9
  <2>5. PICK O : O = N \o <<Empty>> OBVIOUS
  <2>6. /\ O \in Seq(Frame) /\ Len(O) = Len(X) + 4 /\ O[Len(X) + 1] = Empty
        /\ O[Len(X) + 2] = c /\ O[Len(X) + 3] = d /\ O[Len(X) + 4] = Empty
    BY <1>1, <2>4, <2>5
  <2>7. PICK W : W = O \o D OBVIOUS
  <2>8. /\ W \in Seq(Frame) /\ Len(W) = Len(X) + 4 + Len(D) /\ W[Len(X) + 1] = Empty
        /\ W[Len(X) + 2] = c /\ W[Len(X) + 3] = d /\ W[Len(X) + 4] = Empty
        /\ \A j \in 1..Len(D) : W[Len(X) + 4 + j] = D[j]
    <3>1. Len(O) \in Nat /\ Len(D) \in Nat /\ Len(X) \in Nat BY <2>6
    <3>2. /\ W \in Seq(Frame) /\ Len(W) = Len(O) + Len(D)
          /\ \A j \in 1..Len(O) + Len(D) : W[j] = IF j <= Len(O) THEN O[j] ELSE D[j - Len(O)]
      BY <2>6, <2>7, ConcatProperties
    <3>3. ASSUME NEW j \in 1..Len(D) PROVE W[Len(O) + j] = D[j]
      <4>1. /\ Len(O) + j \in 1..Len(O) + Len(D) /\ ~(Len(O) + j <= Len(O))
            /\ Len(O) + j - Len(O) = j
        BY <3>1
      <4> QED BY <3>2, <4>1
    <3> QED BY <2>6, <3>1, <3>2, <3>3
  <2> QED BY <2>1, <2>3, <2>5, <2>7, <2>8
<1>3. IsBody(Wire([src |-> <<>>, msg |-> <<c, d>>, dest |-> D]), 0, c, d, D)
  <2>1. PICK X : X = <<>> OBVIOUS
  <2>2. Wire([src |-> <<>>, msg |-> <<c, d>>, dest |-> D])
            = X \o <<Empty>> \o <<c, d>> \o <<Empty>> \o D
    BY <2>1 DEF Wire
  <2>3. PICK W : W = X \o <<Empty>> \o <<c, d>> \o <<Empty>> \o D OBVIOUS
  <2>10. X \in Seq(Frame) BY <2>1
  <2>4. /\ W \in Seq(Frame) /\ Len(W) = Len(X) + 4 + Len(D)
        /\ W[Len(X) + 1] = Empty /\ W[Len(X) + 2] = c /\ W[Len(X) + 3] = d
        /\ W[Len(X) + 4] = Empty /\ \A j \in 1..Len(D) : W[Len(X) + 4 + j] = D[j]
    BY <1>2, <2>3, <2>10
  <2>5. Len(X) = 0 BY <2>1
  <2>6. IsBody(W, 0, c, d, D) BY <2>4, <2>5 DEF IsBody
  <2> QED BY <2>2, <2>3, <2>6
<1>4. IsBody(Tail(Wire([src |-> <<x>>, msg |-> <<c, d>>, dest |-> D])), 0, c, d, D)
  <2>1. PICK X : X = <<x>> OBVIOUS
  <2>2. Wire([src |-> <<x>>, msg |-> <<c, d>>, dest |-> D])
            = X \o <<Empty>> \o <<c, d>> \o <<Empty>> \o D
    BY <2>1 DEF Wire
  <2>3. PICK W : W = X \o <<Empty>> \o <<c, d>> \o <<Empty>> \o D OBVIOUS
  <2>10. X \in Seq(Frame) BY <2>1
  <2>4. /\ W \in Seq(Frame) /\ Len(W) = Len(X) + 4 + Len(D)
        /\ W[Len(X) + 1] = Empty /\ W[Len(X) + 2] = c /\ W[Len(X) + 3] = d
        /\ W[Len(X) + 4] = Empty /\ \A j \in 1..Len(D) : W[Len(X) + 4 + j] = D[j]
    BY <1>2, <2>3, <2>10
  <2>5. Len(X) = 1 /\ Len(D) \in Nat BY <2>1
  <2>6. PICK T : T = Tail(W) OBVIOUS
  <2>7. /\ T \in Seq(Frame) /\ Len(T) = 4 + Len(D)
        /\ \A j \in 1..4 + Len(D) : T[j] = W[j + 1]
    BY <2>4, <2>5, <2>6
  <2>11. /\ W[2] = Empty /\ W[3] = c /\ W[4] = d /\ W[5] = Empty
         /\ \A j \in 1..Len(D) : W[5 + j] = D[j]
    BY <2>4, <2>5
  <2>8. /\ T[1] = Empty /\ T[2] = c /\ T[3] = d /\ T[4] = Empty
        /\ \A j \in 1..Len(D) : T[4 + j] = D[j]
    <3>1. 1 \in 1..4 + Len(D) /\ 2 \in 1..4 + Len(D) /\ 3 \in 1..4 + Len(D) /\ 4 \in 1..4 + Len(D)
      BY <2>5
    <3>2. \A j \in 1..Len(D) : 4 + j \in 1..4 + Len(D) /\ 4 + j + 1 = 5 + j BY <2>5
    <3>3. T[1] = W[1 + 1] /\ T[2] = W[2 + 1] /\ T[3] = W[3 + 1] /\ T[4] = W[4 + 1]
      BY <2>7, <3>1
    <3>4. \A j \in 1..Len(D) : T[4 + j] = W[5 + j] BY <2>7, <3>2
    <3> QED BY <2>11, <3>3, <3>4
  <2>9. IsBody(T, 0, c, d, D) BY <2>7, <2>8 DEF IsBody
  <2> QED BY <2>2, <2>3, <2>6, <2>9
<1> QED BY <1>3, <1>4

-----------------------------------------------------------------------------
(* The invariant: where the packets are, and what the clients got *)

\* The types of the requests and of what the clients make of the answers.
RouteRequest == [client : Clients, path : Paths, payload : Payloads]
RouteAnswer == {NoAnswer} \cup [client : Clients, kind : {"req", "rep"}, payload : Payloads,
                                route : Seq(Frame)]

RequestsOK ==
    /\ sent \in Seq(RouteRequest) /\ Len(sent) <= MaxReq
    /\ served \in Seq(Routers \cup {"none"}) /\ Len(served) = Len(sent)
    /\ answer \in Seq(RouteAnswer) /\ Len(answer) = Len(sent)
    /\ refused \subseteq Numbers /\ lost \subseteq Numbers

\* Packet p is h hops into the trail of request k, or of its answer, and all that is
\* not its hop counter and destinations is the request's.  An answer was made by
\* the last router of the path, of a request that Recv takes.
Travels(p, k, kind, h) ==
    LET t == Trail(k, kind) IN
    /\ k \in Numbers /\ kind \in {"req", "rep"} /\ h \in 0..255 /\ h + 2 <= Len(t)
    /\ p.from = t[h + 1] /\ p.to = t[h + 2]
    /\ IsBody(p.frames, 0, Ctl(k, kind, h), sent[k].payload, Others(t, h))
    /\ kind = "rep" => served[k] = Last(sent[k].path) /\ sent[k].payload # Empty

OnTheWay == \A p \in packets : \E k, kind, h : Travels(p, k, kind, h)

NetIInv == RequestsOK /\ OnTheWay /\ AnswerFits

\* The nodes of a request and of its answer.
TrailOK(k, path) ==
    /\ path \in Paths /\ path \in Seq(Routers) /\ Len(path) \in Nat /\ Len(path) >= 1
    /\ \A kind \in {"req", "rep"} : /\ Trail(k, kind) \in Seq(Nodes)
                                    /\ Len(Trail(k, kind)) = Len(path) + 1
    /\ Trail(k, "req")[1] = sent[k].client /\ sent[k].client \in Clients
    /\ \A j \in 1..Len(path) : Trail(k, "req")[j + 1] = path[j]
    /\ \A j \in 1..Len(path) + 1 : Trail(k, "rep")[j] = Trail(k, "req")[Len(path) + 2 - j]

LEMMA TrailIs ==
    ASSUME RequestsOK, NEW k \in Numbers
    PROVE  TrailOK(k, sent[k].path)
<1> DEFINE path == sent[k].path
           c == sent[k].client
           t == <<c>> \o path
           u == Reverse(t)
<1>1. /\ path \in Paths /\ c \in Clients
  <2>1. sent[k] \in RouteRequest BY ElementOfSeq DEF RequestsOK, Numbers
  <2> QED BY <2>1 DEF RouteRequest
<1>2. path \in Seq(Routers) /\ path # <<>> BY <1>1, RPAssumption
<1>3. Len(path) \in Nat /\ Len(path) >= 1 BY <1>2
<1> HIDE DEF path, c
<1>4. /\ t \in Seq(Nodes) /\ Len(t) = Len(path) + 1 /\ t[1] = c
      /\ \A j \in 1..Len(path) : t[j + 1] = path[j]
  <2>1. PICK e : e = <<c>> OBVIOUS
  <2>2. e \in Seq(Nodes) /\ path \in Seq(Nodes) /\ Len(e) = 1 /\ e[1] = c
    BY <1>1, <1>2, <2>1 DEF Nodes
  <2>3. /\ e \o path \in Seq(Nodes) /\ Len(e \o path) = 1 + Len(path)
        /\ \A j \in 1..1 + Len(path) : (e \o path)[j] = IF j <= 1 THEN e[j] ELSE path[j - 1]
    <3>1. /\ e \o path \in Seq(Nodes) /\ Len(e \o path) = Len(e) + Len(path)
          /\ \A j \in 1..Len(e) + Len(path) :
                (e \o path)[j] = IF j <= Len(e) THEN e[j] ELSE path[j - Len(e)]
      BY <2>2, ConcatProperties
    <3>2. Len(e) = 1 BY <2>2
    <3> QED BY <3>1, <3>2
  <2>4. t = e \o path BY <2>1
  <2> HIDE DEF t
  <2>5. \A j \in 1..Len(path) : j + 1 \in 1..1 + Len(path) /\ ~(j + 1 <= 1) /\ j + 1 - 1 = j
    BY <1>3
  <2>6. 1 \in 1..1 + Len(path) BY <1>3
  <2> QED BY <1>3, <2>2, <2>3, <2>4, <2>5, <2>6
<1> HIDE DEF t
<1>5. /\ u \in Seq(Nodes) /\ Len(u) = Len(t)
      /\ \A j \in 1..Len(t) : u[j] = t[Len(t) - j + 1]
  <2>1. u = [j \in 1..Len(t) |-> t[Len(t) - j + 1]] BY DEF Reverse
  <2>2. Len(t) \in Nat BY <1>4
  <2>3. \A j \in 1..Len(t) : Len(t) - j + 1 \in 1..Len(t) BY <2>2
  <2>4. \A j \in 1..Len(t) : t[Len(t) - j + 1] \in Nodes BY <1>4, <2>3, ElementOfSeq
  <2> HIDE DEF u
  <2> QED BY <2>1, <2>2, <2>4
<1> HIDE DEF u
<1>6. /\ Trail(k, "req") = t /\ Trail(k, "rep") = u BY DEF Trail, t, u, path, c
<1>7. \A j \in 1..Len(path) + 1 : Len(t) - j + 1 = Len(path) + 2 - j BY <1>3, <1>4
<1>8. \A j \in 1..Len(path) + 1 : u[j] = t[Len(path) + 2 - j] BY <1>4, <1>5, <1>7
<1>9. TrailOK(k, path) BY <1>1, <1>2, <1>3, <1>4, <1>5, <1>6, <1>8 DEF TrailOK, c
<1> QED BY <1>9 DEF path

\* The destinations are names of nodes.
Names(D, t, h) ==
    /\ D \in Seq(Frame) /\ Len(D) = Len(t) - 2
    /\ \A j \in 1..Len(t) - 2 : D[j] = Id(t[IF j <= h THEN j ELSE j + 2]) /\ D[j] # Empty

LEMMA OthersAre ==
    ASSUME NEW t \in Seq(Nodes), Len(t) >= 2, NEW h \in Nat, h + 2 <= Len(t)
    PROVE  Names(Others(t, h), t, h)
<1>1. Len(t) \in Nat /\ Len(t) - 2 \in Nat OBVIOUS
<1>2. \A j \in 1..Len(t) - 2 : (IF j <= h THEN j ELSE j + 2) \in 1..Len(t) BY <1>1
<1>3. \A j \in 1..Len(t) - 2 : t[IF j <= h THEN j ELSE j + 2] \in Nodes
  BY <1>2, ElementOfSeq
<1>4. \A n \in Nodes : Id(n) \in Frame /\ Id(n) # Empty BY RPAssumption DEF Frame
<1>5. PICK z : z = Others(t, h) OBVIOUS
<1>6. z = [j \in 1..Len(t) - 2 |-> Id(t[IF j <= h THEN j ELSE j + 2])] BY <1>5 DEF Others
<1>7. \A j \in 1..Len(t) - 2 : z[j] = Id(t[IF j <= h THEN j ELSE j + 2]) BY <1>6
<1>8. \A j \in 1..Len(t) - 2 : z[j] \in Frame BY <1>3, <1>4, <1>7
<1>9. z \in Seq(Frame) /\ Len(z) = Len(t) - 2 BY <1>1, <1>6, <1>8
<1> QED BY <1>3, <1>4, <1>5, <1>7, <1>9 DEF Names

\* What a packet in flight is to the node that receives it: D are the destinations.
Reads(p, k, kind, h, t, D) ==
    /\ Arrived(p) \in Seq(Frame) /\ p.frames \in Seq(Frame) /\ Len(p.frames) >= 4
    /\ D \in Seq(Frame) /\ Len(D) = Len(t) - 2
    /\ \A j \in 1..Len(D) : D[j] = Id(t[IF j <= h THEN j ELSE j + 2])
    /\ Ctl(k, kind, h) \in Frame /\ sent[k].payload \in Payloads /\ sent[k].payload \in Frame
    /\ p.from \in Nodes /\ p.to \in Nodes
    /\ Number(p) = k
    /\ RecvOk(Arrived(p)) <=> sent[k].payload # Empty
    /\ RecvOk(Arrived(p)) =>
          RecvPath(Arrived(p)) = [src |-> IF p.to \in Routers THEN <<Id(p.from)>> ELSE <<>>,
                              msg |-> <<Ctl(k, kind, h), sent[k].payload>>, dest |-> D]

LEMMA PacketReads ==
    ASSUME RequestsOK, NEW p, NEW k, NEW kind, NEW h, Travels(p, k, kind, h)
    PROVE  Reads(p, k, kind, h, Trail(k, kind), Others(Trail(k, kind), h))
<1> DEFINE t == Trail(k, kind)
           c == Ctl(k, kind, h)
           d == sent[k].payload
           D == Others(t, h)
           F == p.frames
           G == Arrived(p)
<1>1. /\ k \in Numbers /\ kind \in {"req", "rep"} /\ h \in 0..255 /\ h \in Nat
      /\ h + 2 <= Len(t) /\ p.from = t[h + 1] /\ p.to = t[h + 2] /\ IsBody(F, 0, c, d, D)
  BY DEF Travels
<1>2. /\ t \in Seq(Nodes) /\ Len(t) \in Nat BY <1>1, TrailIs DEF TrailOK
<1>3. k \in 1..MaxReq /\ c \in Frame /\ c # Empty
  <2>1. k \in 1..MaxReq BY <1>1, RPAssumption DEF RequestsOK, Numbers
  <2>2. Ctl(k, kind, h) \in Frame BY <1>1, <2>1 DEF Ctl, Frame
  <2>3. Ctl(k, kind, h) # Empty BY <1>1, <2>1, RPAssumption
  <2> QED BY <2>1, <2>2, <2>3
<1>4. d \in Payloads /\ d \in Frame
  <2>1. sent[k] \in RouteRequest BY <1>1, ElementOfSeq DEF RequestsOK, Numbers
  <2> QED BY <2>1 DEF RouteRequest, Frame
<1> HIDE DEF t
<1>5. /\ D \in Seq(Frame) /\ Len(D) = Len(t) - 2 /\ \A j \in 1..Len(D) : D[j] # Empty
      /\ \A j \in 1..Len(D) : D[j] = Id(t[IF j <= h THEN j ELSE j + 2])
  <2>1. Len(t) >= 2 BY <1>1, <1>2
  <2>2. Names(D, t, h) BY <1>1, <1>2, <2>1, OthersAre
  <2> HIDE DEF D
  <2> QED BY <2>2 DEF Names
<1>6. p.from \in Nodes /\ p.to \in Nodes
  <2>1. h + 1 \in 1..Len(t) /\ h + 2 \in 1..Len(t) BY <1>1, <1>2
  <2> QED BY <1>1, <1>2, <2>1, ElementOfSeq
<1> HIDE DEF D, c, d, F
<1>7. /\ F \in Seq(Frame) /\ Len(F) = 4 + Len(D) /\ Len(D) \in Nat
      /\ F[1] = Empty /\ F[2] = c /\ F[3] = d /\ F[4] = Empty
      /\ \A j \in 1..Len(D) : F[4 + j] = D[j]
  BY <1>1, <1>5 DEF IsBody
<1>8. /\ G \in Seq(Frame)
      /\ RecvOk(G) <=> d # Empty
      /\ RecvOk(G) => RecvPath(G) = [src |-> IF p.to \in Routers THEN <<Id(p.from)>> ELSE <<>>,
                                 msg |-> <<c, d>>, dest |-> D]
  <2>1. CASE p.to \in Routers
    <3>1. PICK x : x = Id(p.from) OBVIOUS
    <3>2. x \in Frame /\ x # Empty BY <1>6, <3>1, RPAssumption DEF Frame
    <3>3. PICK e : e = <<x>> OBVIOUS
    <3>4. e \in Seq(Frame) /\ Len(e) = 1 /\ e[1] = x BY <3>2, <3>3
    <3>5. G = e \o F BY <2>1, <3>1, <3>3 DEF Arrived, F
    <3> HIDE DEF G
    <3>6. /\ G \in Seq(Frame) /\ Len(G) = Len(e) + Len(F)
          /\ \A j \in 1..Len(e) + Len(F) : G[j] = IF j <= Len(e) THEN e[j] ELSE F[j - Len(e)]
      <4>1. F \in Seq(Frame) /\ e \in Seq(Frame) BY <1>7, <3>4
      <4>2. /\ e \o F \in Seq(Frame) /\ Len(e \o F) = Len(e) + Len(F)
            /\ \A j \in 1..Len(e) + Len(F) :
                    (e \o F)[j] = IF j <= Len(e) THEN e[j] ELSE F[j - Len(e)]
        BY <4>1, ConcatProperties
      <4> QED BY <3>5, <4>2
    <3>7. /\ Len(G) = 1 + 4 + Len(D) /\ G[1] = x
          /\ \A j \in 1..Len(F) : G[j + 1] = F[j]
      <4>1. Len(e) = 1 /\ Len(F) \in Nat /\ Len(F) = 4 + Len(D) BY <1>7, <3>4
      <4>2. G[1] = e[1]
        <5>1. 1 \in 1..Len(e) + Len(F) /\ 1 <= Len(e) BY <4>1
        <5> QED BY <3>6, <5>1
      <4>3. ASSUME NEW j \in 1..Len(F) PROVE G[j + 1] = F[j]
        <5>1. j + 1 \in 1..Len(e) + Len(F) /\ ~(j + 1 <= Len(e)) /\ j + 1 - Len(e) = j BY <4>1
        <5> QED BY <3>6, <5>1
      <4>4. Len(G) = 1 + 4 + Len(D) BY <1>7, <3>6, <4>1
      <4> QED BY <3>4, <4>2, <4>3, <4>4
    <3>8. IsBody(G, 1, c, d, D)
      <4>1. /\ 1 \in 1..Len(F) /\ 2 \in 1..Len(F) /\ 3 \in 1..Len(F) /\ 4 \in 1..Len(F) BY <1>7
      <4>2. G[2] = Empty /\ G[3] = c /\ G[4] = d /\ G[5] = Empty BY <1>7, <3>7, <4>1
      <4>3. ASSUME NEW j \in 1..Len(D) PROVE G[5 + j] = D[j]
        <5>1. 4 + j \in 1..Len(F) /\ 4 + j + 1 = 5 + j BY <1>7
        <5> QED BY <1>7, <3>7, <5>1
      <4> QED BY <3>6, <3>7, <4>2, <4>3 DEF IsBody
    <3>9. Heads(G, 1) BY <3>2, <3>7 DEF Heads
    <3>10. /\ RecvOk(G) <=> d # Empty
           /\ d # Empty => RecvPath(G) = [src |-> IF 1 = 0 THEN <<>> ELSE <<G[1]>>,
                                      msg |-> <<c, d>>, dest |-> D]
      BY <1>3, <1>5, <3>8, <3>9, RecvIs
    <3>11. d # Empty => RecvPath(G) = [src |-> <<x>>, msg |-> <<c, d>>, dest |-> D]
      BY <3>7, <3>10
    <3> QED BY <2>1, <3>1, <3>6, <3>10, <3>11
  <2>2. CASE p.to \notin Routers
    <3>1. G = F BY <2>2 DEF Arrived, F
    <3>2. Heads(F, 0) BY DEF Heads
    <3>3. /\ RecvOk(F) <=> d # Empty
          /\ d # Empty => RecvPath(F) = [src |-> IF 0 = 0 THEN <<>> ELSE <<F[1]>>,
                                     msg |-> <<c, d>>, dest |-> D]
      <4>1. IsBody(F, 0, c, d, D) BY <1>1
      <4> QED BY <1>3, <1>5, <3>2, <4>1, RecvIs
    <3>4. d # Empty => RecvPath(F) = [src |-> <<>>, msg |-> <<c, d>>, dest |-> D] BY <3>3
    <3> HIDE DEF G
    <3> QED BY <1>7, <2>2, <3>1, <3>3, <3>4
  <2> QED BY <2>1, <2>2
<1>9. Number(p) = k
  <2>1. Number(p) = c[2] BY <1>7 DEF Number, F
  <2> QED BY <2>1 DEF c, Ctl
<1>10. Reads(p, k, kind, h, t, D)
  <2>1. Len(F) >= 4 BY <1>7
  <2> HIDE DEF G
  <2> USE DEF Reads
  <2>2. /\ Arrived(p) \in Seq(Frame) /\ p.frames \in Seq(Frame) /\ Len(p.frames) >= 4
        /\ RecvOk(Arrived(p)) <=> sent[k].payload # Empty
        /\ RecvOk(Arrived(p)) =>
              RecvPath(Arrived(p)) = [src |-> IF p.to \in Routers THEN <<Id(p.from)>> ELSE <<>>,
                                  msg |-> <<Ctl(k, kind, h), sent[k].payload>>, dest |-> D]
    BY <1>7, <1>8, <2>1 DEF F, G, c, d
  <2>3. Ctl(k, kind, h) \in Frame /\ sent[k].payload \in Payloads /\ sent[k].payload \in Frame
    BY <1>3, <1>4 DEF c, d
  <2> QED BY <1>5, <1>6, <1>9, <2>2, <2>3
<1> QED BY <1>10 DEF t, D

\* A request that stays as it is keeps its packets where they are.
LEMMA StillTravels ==
    ASSUME NEW p, NEW k, NEW kind, NEW h, Travels(p, k, kind, h),
           k \in Numbers', sent'[k] = sent[k], kind = "rep" => served'[k] = served[k]
    PROVE  Travels(p, k, kind, h)'
BY DEF Travels, Trail

\* Where a packet goes: to a router of the path, or at the end of an answer's
\* trail to the client.
Place(p, k, kind, h, path) ==
    /\ Len(path) >= 1 /\ Len(path) \in Nat /\ h \in Nat /\ h <= Len(path) - 1
    /\ path \in Paths /\ path \in Seq(Routers)
    /\ Len(Trail(k, kind)) = Len(path) + 1 /\ Trail(k, kind) \in Seq(Nodes)
    /\ kind = "req" => p.to \in Routers /\ p.to = path[h + 1]
    /\ p.to \in Routers => kind = "req" \/ h < Len(path) - 1
    /\ p.to \in Clients => kind = "rep" /\ h = Len(path) - 1 /\ p.to = sent[k].client

LEMMA Places ==
    ASSUME RequestsOK, NEW p, NEW k, NEW kind, NEW h, Travels(p, k, kind, h)
    PROVE  Place(p, k, kind, h, sent[k].path)
<1> DEFINE t == Trail(k, kind)
           path == sent[k].path
           n == Len(path)
           c == sent[k].client
<1>1. TrailOK(k, path) BY TrailIs DEF Travels
<1>2. /\ kind \in {"req", "rep"} /\ h \in 0..255 /\ h + 2 <= Len(t) /\ p.to = t[h + 2]
  BY DEF Travels
<1>3. /\ n >= 1 /\ n \in Nat /\ Len(t) = n + 1 /\ t \in Seq(Nodes) /\ path \in Seq(Routers)
      /\ c \in Clients /\ path \in Paths
  BY <1>1, <1>2 DEF TrailOK
<1>4. h \in Nat /\ h <= n - 1
  <2>1. h \in 0..255 /\ h + 2 <= n + 1 /\ n \in Nat BY <1>2, <1>3
  <2> HIDE DEF n
  <2> QED BY <2>1
<1>5. kind = "req" => p.to = path[h + 1]
  <2>1. h + 1 \in 1..n /\ h + 1 + 1 = h + 2 BY <1>3, <1>4
  <2>2. \A j \in 1..n : Trail(k, "req")[j + 1] = path[j] BY <1>1 DEF TrailOK
  <2> HIDE DEF t, path
  <2> QED BY <1>2, <2>1, <2>2 DEF t
<1>6. \A j \in 1..n : path[j] \in Routers BY <1>3, ElementOfSeq
<1>7. kind = "rep" => p.to = Trail(k, "req")[n - h]
  <2>1. h + 2 \in 1..n + 1 /\ n + 2 - (h + 2) = n - h
    <3>1. n \in Nat /\ h \in Nat /\ h <= n - 1 BY <1>3, <1>4
    <3> HIDE DEF n
    <3> QED BY <3>1
  <2>2. \A j \in 1..n + 1 : Trail(k, "rep")[j] = Trail(k, "req")[n + 2 - j] BY <1>1 DEF TrailOK
  <2> HIDE DEF path
  <2>3. Trail(k, "rep")[h + 2] = Trail(k, "req")[n + 2 - (h + 2)] BY <2>1, <2>2
  <2> QED BY <1>2, <2>1, <2>3
<1>8. kind = "rep" /\ h = n - 1 => p.to = c
  <2>1. h = n - 1 => n - h = 1 BY <1>3
  <2>2. Trail(k, "req")[1] = c BY <1>1 DEF TrailOK
  <2> QED BY <1>7, <2>1, <2>2
<1>9. kind = "rep" /\ h < n - 1 => p.to \in Routers
  <2>1. h < n - 1 => n - h - 1 \in 1..n /\ n - h - 1 + 1 = n - h BY <1>3, <1>4
  <2>2. \A j \in 1..n : Trail(k, "req")[j + 1] = path[j] BY <1>1 DEF TrailOK
  <2> HIDE DEF path
  <2>3. h < n - 1 => Trail(k, "req")[n - h] = path[n - h - 1] BY <2>1, <2>2
  <2> QED BY <1>6, <1>7, <2>1, <2>3
<1>10. \A x : ~(x \in Clients /\ x \in Routers) BY RPAssumption
<1>11. kind = "req" => p.to \in Routers
  <2>1. h + 1 \in 1..n BY <1>3, <1>4
  <2> QED BY <1>5, <1>6, <2>1
<1> HIDE DEF t, n, path, c
<1>12. h < n - 1 \/ h = n - 1 BY <1>3, <1>4
<1>13. p.to \in Routers => kind = "req" \/ h < n - 1 BY <1>2, <1>3, <1>8, <1>10, <1>12
<1>14. p.to \in Clients => kind = "rep" /\ h = n - 1 /\ p.to = c
  BY <1>2, <1>8, <1>9, <1>10, <1>11, <1>12
<1>15. Place(p, k, kind, h, path)
  BY <1>3, <1>4, <1>5, <1>11, <1>13, <1>14 DEF Place, t, n, c
<1> QED BY <1>15 DEF path


-----------------------------------------------------------------------------
(* The steps *)

\* A packet that is on its way in the next state, of a request that has not changed.
LEMMA NewTravels ==
    ASSUME sent' = sent, NEW q, NEW k \in Numbers, NEW kind \in {"req", "rep"},
           NEW h \in 0..255, h + 2 <= Len(Trail(k, kind)),
           q.from = Trail(k, kind)[h + 1], q.to = Trail(k, kind)[h + 2],
           IsBody(q.frames, 0, Ctl(k, kind, h), sent[k].payload, Others(Trail(k, kind), h)),
           kind = "rep" => served'[k] = Last(sent[k].path) /\ sent[k].payload # Empty
    PROVE  Travels(q, k, kind, h)'
BY DEF Travels, Trail, Numbers

\* The way of a request that is only just made.
Starts(t, c, path) ==
    /\ path \in Seq(Routers) /\ Len(path) \in Nat /\ Len(path) >= 1
    /\ t \in Seq(Nodes) /\ Len(t) = Len(path) + 1 /\ t[1] = c
    /\ \A j \in 1..Len(path) : t[j + 1] = path[j]

LEMMA StartIs == ASSUME NEW c \in Clients, NEW path \in Paths PROVE Starts(<<c>> \o path, c, path)
<1> PICK t : t = <<c>> \o path OBVIOUS
<1>1. path \in Seq(Routers) /\ path # <<>> BY RPAssumption
<1>2. Len(path) \in Nat /\ Len(path) >= 1 BY <1>1
<1>3. PICK e : e = <<c>> OBVIOUS
<1>4. e \in Seq(Nodes) /\ path \in Seq(Nodes) /\ Len(e) = 1 /\ e[1] = c
  BY <1>1, <1>3 DEF Nodes
<1>5. /\ e \o path \in Seq(Nodes) /\ Len(e \o path) = Len(e) + Len(path)
      /\ \A j \in 1..Len(e) + Len(path) :
            (e \o path)[j] = IF j <= Len(e) THEN e[j] ELSE path[j - Len(e)]
  BY <1>4, ConcatProperties
<1>6. /\ t \in Seq(Nodes) /\ Len(t) = 1 + Len(path)
      /\ \A j \in 1..1 + Len(path) : t[j] = IF j <= 1 THEN e[j] ELSE path[j - 1]
  BY <1>3, <1>4, <1>5
<1>7. \A j \in 1..Len(path) : j + 1 \in 1..1 + Len(path) /\ ~(j + 1 <= 1) /\ j + 1 - 1 = j
  BY <1>2
<1>8. 1 \in 1..1 + Len(path) BY <1>2
<1>9. t[1] = c BY <1>4, <1>6, <1>8
<1>10. \A j \in 1..Len(path) : t[j + 1] = path[j] BY <1>6, <1>7
<1>11. Len(t) = Len(path) + 1 BY <1>2, <1>6
<1>12. t \in Seq(Nodes) BY <1>6
<1> QED BY <1>1, <1>2, <1>9, <1>10, <1>11, <1>12 DEF Starts

\* A request starts at its first router with all hops to go.
LEMMA RequestTravels ==
    ASSUME RequestsOK, NEW c \in Clients, NEW path \in Paths, NEW d \in Payloads,
           NEW k \in Nat \ {0}, k \in Numbers',
           sent'[k] = [client |-> c, path |-> path, payload |-> d],
           NEW D, D = [j \in 1..Len(path) - 1 |-> Id(path[j + 1])],
           NEW q, q = [from |-> c, to |-> path[1],
                       frames |-> Wire([src |-> <<>>, msg |-> <<Ctl(k, "req", 0), d>>, dest |-> D])]
    PROVE  Travels(q, k, "req", 0)'
<1>1. PICK t : t = <<c>> \o path OBVIOUS
<1>2. /\ path \in Seq(Routers) /\ Len(path) \in Nat /\ Len(path) >= 1
      /\ t \in Seq(Nodes) /\ Len(t) = Len(path) + 1 /\ t[1] = c
      /\ \A j \in 1..Len(path) : t[j + 1] = path[j]
  <2>1. Starts(t, c, path) BY <1>1, StartIs
  <2> QED BY <2>1 DEF Starts
<1>3. Trail(k, "req")' = t BY <1>1 DEF Trail
<1>4. q.from = t[1] /\ q.to = t[2]
  <2>1. 1 \in 1..Len(path) /\ 1 + 1 = 2 BY <1>2
  <2> QED BY <1>2, <2>1
<1>5. Others(t, 0) \in Seq(Frame)
  <2>1. Len(t) >= 2 /\ 0 \in Nat /\ 0 + 2 <= Len(t) BY <1>2
  <2> QED BY <1>2, <2>1, OthersAre DEF Names
<1>6. Others(t, 0) = D
  <2>1. Len(t) - 2 = Len(path) - 1 BY <1>2
  <2>2. \A j \in 1..Len(path) - 1 : ~(j <= 0) /\ j + 1 \in 1..Len(path) /\ j + 2 = j + 1 + 1
    BY <1>2
  <2>3. \A j \in 1..Len(path) - 1 : Id(t[IF j <= 0 THEN j ELSE j + 2]) = Id(path[j + 1])
    BY <1>2, <2>2
  <2> QED BY <2>1, <2>3 DEF Others
<1>7. IsBody(q.frames, 0, Ctl(k, "req", 0), d, D)
  <2>1. Ctl(k, "req", 0) \in Frame BY DEF Ctl, Frame
  <2>2. d \in Frame /\ D \in Seq(Frame) BY <1>5, <1>6 DEF Frame
  <2>3. Empty \in Frame BY DEF Frame
  <2>4. IsBody(Wire([src |-> <<>>, msg |-> <<Ctl(k, "req", 0), d>>, dest |-> D]), 0,
               Ctl(k, "req", 0), d, D)
    BY <2>1, <2>2, <2>3, WireIs
  <2> QED BY <2>4
<1>8. 0 \in 0..255 /\ 0 + 2 <= Len(t) /\ 0 + 1 = 1 /\ 0 + 2 = 2 BY <1>2
<1>9. sent'[k].payload = d OBVIOUS
<1>10. Ctl(k, "req", 0)' = Ctl(k, "req", 0) BY DEF Ctl
<1> QED BY <1>3, <1>4, <1>6, <1>7, <1>8, <1>9 DEF Travels

LEMMA RequestKeeps ==
    ASSUME NetIInv, NEW c \in Clients, NEW path \in Paths, NEW d \in Payloads, SendRequest(c, path, d)
    PROVE  NetIInv'
<1>1. PICK k : k = Len(sent) + 1 OBVIOUS
<1>2. PICK new : new = [client |-> c, path |-> path, payload |-> d] OBVIOUS
<1>3. PICK D : D = [j \in 1..Len(path) - 1 |-> Id(path[j + 1])] OBVIOUS
<1>4. PICK q : q = [from |-> c, to |-> path[1],
                    frames |-> Wire([src |-> <<>>, msg |-> <<Ctl(k, "req", 0), d>>, dest |-> D])]
  OBVIOUS
<1>5. /\ k <= MaxReq /\ sent' = Append(sent, new) /\ served' = Append(served, "none")
      /\ answer' = Append(answer, NoAnswer) /\ packets' = packets \cup {q}
      /\ refused' = refused /\ lost' = lost
  BY <1>1, <1>2, <1>3, <1>4 DEF SendRequest
<1>6. /\ sent \in Seq(RouteRequest) /\ Len(sent) \in Nat /\ k \in Nat \ {0}
      /\ new \in RouteRequest /\ Len(sent) <= MaxReq
      /\ served \in Seq(Routers \cup {"none"}) /\ Len(served) = Len(sent)
      /\ answer \in Seq(RouteAnswer) /\ Len(answer) = Len(sent)
      /\ refused \subseteq Numbers /\ lost \subseteq Numbers
  BY <1>1, <1>2 DEF NetIInv, RequestsOK, RouteRequest
<1>7. NoAnswer \in RouteAnswer BY DEF RouteAnswer
<1>8. /\ Numbers = 1..Len(sent) /\ Numbers' = 1..k /\ Len(sent') = k /\ k \in Numbers'
      /\ sent'[k] = new /\ served'[k] = "none" /\ answer'[k] = NoAnswer
      /\ \A j \in Numbers : j \in Numbers' /\ sent'[j] = sent[j] /\ served'[j] = served[j]
                             /\ answer'[j] = answer[j] /\ j # k
      /\ \A j \in Numbers' : j \in Numbers \/ j = k
  BY <1>1, <1>5, <1>6 DEF Numbers
<1>9. RequestsOK'
  <2>1. sent' \in Seq(RouteRequest) /\ served' \in Seq(Routers \cup {"none"})
        /\ answer' \in Seq(RouteAnswer) /\ Len(served') = k /\ Len(answer') = k
    BY <1>1, <1>5, <1>6, <1>7
  <2>2. refused' \subseteq Numbers' /\ lost' \subseteq Numbers' BY <1>5, <1>6, <1>8
  <2> QED BY <1>5, <1>8, <2>1, <2>2 DEF RequestsOK
<1>10. Travels(q, k, "req", 0)'
  <2>1. RequestsOK BY DEF NetIInv
  <2> QED BY <1>2, <1>3, <1>4, <1>6, <1>8, <2>1, RequestTravels
<1>11. OnTheWay'
  <2>1. ASSUME NEW p \in packets' PROVE \E j, kind, h : Travels(p, j, kind, h)'
    <3>1. CASE p \in packets
      <4>1. PICK j, kind, h : Travels(p, j, kind, h) BY <3>1 DEF NetIInv, OnTheWay
      <4>2. j \in Numbers BY <4>1 DEF Travels
      <4>3. Travels(p, j, kind, h)' BY <1>8, <4>1, <4>2, StillTravels
      <4> QED BY <4>3
    <3>2. CASE p = q
      <4>1. Travels(p, k, "req", 0)' BY <1>10, <3>2
      <4> QED BY <4>1
    <3> QED BY <1>5, <3>1, <3>2
  <2> QED BY <2>1 DEF OnTheWay
<1>12. AnswerFits'
  <2>1. ServedByTarget' BY <1>8 DEF NetIInv, AnswerFits, ServedByTarget
  <2>2. EmptyRefused'
    <3>1. k \notin refused' BY <1>5, <1>6, <1>8
    <3>2. ASSUME NEW j \in Numbers'
          PROVE  /\ j \in refused' => sent'[j].payload = Empty
                 /\ sent'[j].payload = Empty => served'[j] = "none"
      <4>1. CASE j \in Numbers
        <5>1. sent'[j] = sent[j] /\ served'[j] = served[j] /\ refused' = refused
          BY <1>5, <1>8, <4>1
        <5> QED BY <4>1, <5>1 DEF NetIInv, AnswerFits, EmptyRefused
      <4>2. CASE j = k BY <1>8, <3>1, <4>2
      <4> QED BY <1>8, <4>1, <4>2
    <3> QED BY <3>2 DEF EmptyRefused
  <2>3. ASSUME NEW j \in Numbers', answer'[j] # NoAnswer
        PROVE  /\ answer'[j].client = sent'[j].client /\ answer'[j].kind = "rep"
               /\ answer'[j].payload = sent'[j].payload /\ served'[j] # "none"
               /\ answer'[j].route
                    = [m \in 1..Len(sent'[j].path) - 1 |-> Id(sent'[j].path[m + 1])]
    <3>1. j \in Numbers BY <1>8, <2>3
    <3>2. sent'[j] = sent[j] /\ served'[j] = served[j] /\ answer'[j] = answer[j] BY <1>8, <3>1
    <3> QED BY <2>3, <3>1, <3>2 DEF NetIInv, AnswerFits
  <2> QED BY <2>1, <2>2, <2>3 DEF AnswerFits
<1> QED BY <1>9, <1>11, <1>12 DEF NetIInv

\* The other packets stay where they are.
LEMMA StillOnTheWay ==
    ASSUME OnTheWay, sent' = sent, NEW Q, packets' \subseteq packets \cup Q,
           \A k \in Numbers : served'[k] = served[k] \/ served'[k] = Last(sent[k].path),
           \A q \in Q : \E k, kind, h : Travels(q, k, kind, h)'
    PROVE  OnTheWay'
<1>1. ASSUME NEW p \in packets' PROVE \E k, kind, h : Travels(p, k, kind, h)'
  <2>1. CASE p \in packets
    <3>1. PICK k, kind, h : Travels(p, k, kind, h) BY <2>1 DEF OnTheWay
    <3>2. k \in Numbers /\ Numbers' = Numbers BY <3>1 DEF Travels, Numbers
    <3>3. kind = "rep" => served'[k] = served[k] BY <3>1, <3>2 DEF Travels
    <3>4. Travels(p, k, kind, h)' BY <3>1, <3>2, <3>3, StillTravels
    <3> QED BY <3>4
  <2>2. CASE p \in Q BY <2>2
  <2> QED BY <2>1, <2>2
<1> QED BY <1>1 DEF OnTheWay

\* What CalcRoute makes of what a router receives.
CalcTo(r, k, kind, h, d, s, E) ==
    CalcRoute(r) = [src |-> <<s>>, msg |-> <<Ctl(k, kind, h + 1), d>>, dest |-> E]

LEMMA CalcIs ==
    ASSUME NEW s, NEW k, NEW kind, NEW h \in Nat, NEW d, NEW D \in Seq(Frame),
           h + 1 <= Len(D), h + 1 <= 255,
           NEW r, r = [src |-> <<s>>, msg |-> <<Ctl(k, kind, h), d>>, dest |-> D],
           NEW E, E = [D EXCEPT ![h + 1] = s]
    PROVE  CalcTo(r, k, kind, h, d, D[h + 1], E)
<1>1. Hops(r) = h BY DEF Hops, Ctl
<1>2. (h + 1) % 256 = h + 1 OBVIOUS
<1>3. PICK x : x = [r EXCEPT !.src[1] = r.dest[h + 1], !.dest[h + 1] = r.src[1]] OBVIOUS
<1>4. x = [src |-> <<D[h + 1]>>, msg |-> <<Ctl(k, kind, h), d>>, dest |-> E]
  <2>1. r.src = <<s>> /\ r.dest = D /\ r.msg = <<Ctl(k, kind, h), d>> OBVIOUS
  <2>2. [r.src EXCEPT ![1] = D[h + 1]] = <<D[h + 1]>> BY <2>1
  <2> QED BY <1>3, <2>1, <2>2
<1>5. CalcRoute(r) = SetHops(x, h + 1) BY <1>1, <1>2, <1>3 DEF CalcRoute
<1>6. SetHops(x, h + 1) = [src |-> <<D[h + 1]>>, msg |-> <<Ctl(k, kind, h + 1), d>>, dest |-> E]
  <2>1. PICK c : c = Ctl(k, kind, h) OBVIOUS
  <2>2. PICK e : e = Ctl(k, kind, h + 1) OBVIOUS
  <2>3. [c EXCEPT ![4] = h + 1] = e BY <2>1, <2>2 DEF Ctl
  <2>4. x.msg = <<c, d>> BY <1>4, <2>1
  <2>5. [x.msg EXCEPT ![1] = [x.msg[1] EXCEPT ![4] = h + 1]] = <<e, d>>
    <3>1. x.msg[1] = c BY <2>4
    <3>2. [x.msg[1] EXCEPT ![4] = h + 1] = e BY <2>3, <3>1
    <3>3. [x.msg EXCEPT ![1] = e] = <<e, d>> BY <2>4
    <3> QED BY <3>2, <3>3
  <2>6. SetHops(x, h + 1) = [x EXCEPT !.msg = <<e, d>>] BY <2>5 DEF SetHops
  <2> QED BY <1>4, <2>2, <2>6
<1> QED BY <1>5, <1>6 DEF CalcTo

\* One hop further, the destinations are those of the next hop.
LEMMA OthersNext ==
    ASSUME NEW t \in Seq(Nodes), NEW h \in Nat, h + 3 <= Len(t)
    PROVE  [Others(t, h) EXCEPT ![h + 1] = Id(t[h + 1])] = Others(t, h + 1)
<1>1. Len(t) \in Nat /\ h + 1 \in 1..Len(t) - 2 OBVIOUS
<1>2. \A j \in 1..Len(t) - 2 : j # h + 1 => (j <= h <=> j <= h + 1) BY <1>1
<1>3. h + 1 <= h + 1 OBVIOUS
<1> QED BY <1>1, <1>2, <1>3 DEF Others

\* The answers fit as before.
LEMMA StillFits ==
    ASSUME AnswerFits, sent' = sent, served' = served, answer' = answer, refused' = refused
    PROVE  AnswerFits'
BY DEF AnswerFits, ServedByTarget, EmptyRefused, Numbers

\* A hop does the answers nothing, and its packet is one node further on its way.
LEMMA ForwardKeeps ==
    ASSUME ShortRoutes, NetIInv, NEW n \in Routers, NEW p \in packets, Forward(n, p)
    PROVE  NetIInv'
<1>1. PICK k, kind, h : Travels(p, k, kind, h) BY DEF NetIInv, OnTheWay
<1>2. RequestsOK /\ OnTheWay /\ AnswerFits BY DEF NetIInv
<1>3. PICK t : t = Trail(k, kind) OBVIOUS
<1>4. PICK D : D = Others(t, h) OBVIOUS
<1>5. PICK d : d = sent[k].payload OBVIOUS
<1>6. PICK path : path = sent[k].path OBVIOUS
<1>7. Reads(p, k, kind, h, t, D) BY <1>1, <1>2, <1>3, <1>4, PacketReads
<1>8. Place(p, k, kind, h, path) BY <1>1, <1>2, <1>6, Places
<1>9. /\ k \in Numbers /\ kind \in {"req", "rep"} /\ h \in Nat /\ h <= Len(path) - 1
      /\ Len(path) \in Nat /\ path \in Paths /\ Len(t) = Len(path) + 1 /\ t \in Seq(Nodes)
      /\ p.from = t[h + 1] /\ p.to = t[h + 2]
  BY <1>1, <1>3, <1>8 DEF Travels, Place
<1>10. PICK r : /\ r = [src |-> <<Id(p.from)>>, msg |-> <<Ctl(k, kind, h), d>>, dest |-> D]
                /\ Hops(r) < Len(r.dest)
                /\ packets' = (packets \ {p}) \cup {Packet(n, CalcRoute(r))}
  <2>1. /\ p.to = n /\ RecvOk(Arrived(p)) /\ Hops(RecvPath(Arrived(p))) < Len(RecvPath(Arrived(p)).dest)
        /\ packets' = (packets \ {p}) \cup {Packet(n, CalcRoute(RecvPath(Arrived(p))))}
    BY DEF Forward
  <2>2. RecvPath(Arrived(p)) = [src |-> <<Id(p.from)>>, msg |-> <<Ctl(k, kind, h), d>>, dest |-> D]
    BY <1>5, <1>7, <2>1 DEF Reads
  <2> QED BY <2>1, <2>2
<1>11. /\ p.to = n /\ sent' = sent /\ served' = served /\ answer' = answer /\ refused' = refused
       /\ lost' = lost
  BY DEF Forward
<1>12. PICK q : q = Packet(n, CalcRoute(r)) OBVIOUS
<1>13. /\ D \in Seq(Frame) /\ Len(D) = Len(path) - 1
       /\ \A j \in 1..Len(D) : D[j] = Id(t[IF j <= h THEN j ELSE j + 2])
       /\ d \in Frame
  <2>1. /\ D \in Seq(Frame) /\ Len(D) = Len(t) - 2
        /\ \A j \in 1..Len(D) : D[j] = Id(t[IF j <= h THEN j ELSE j + 2])
        /\ sent[k].payload \in Frame
    BY <1>7 DEF Reads
  <2>2. Len(t) - 2 = Len(path) - 1 BY <1>9
  <2> QED BY <1>5, <2>1, <2>2
<1>14. h + 1 <= Len(D) /\ h + 1 <= 255
  <2>1. Hops(r) = h BY <1>10 DEF Hops, Ctl
  <2>2. r.dest = D BY <1>10
  <2>3. h < Len(D) BY <1>10, <2>1, <2>2
  <2>4. Len(path) <= 256 BY <1>9 DEF ShortRoutes
  <2> QED BY <1>9, <1>13, <2>3, <2>4
<1>15. PICK E : E = Others(t, h + 1) OBVIOUS
<1>16. E = [D EXCEPT ![h + 1] = Id(p.from)]
  <2>1. h + 3 <= Len(t) BY <1>9, <1>13, <1>14
  <2>2. [Others(t, h) EXCEPT ![h + 1] = Id(t[h + 1])] = Others(t, h + 1)
    BY <1>9, <2>1, OthersNext
  <2> QED BY <1>4, <1>9, <1>15, <2>2
<1>17. CalcRoute(r) = [src |-> <<D[h + 1]>>, msg |-> <<Ctl(k, kind, h + 1), d>>, dest |-> E]
  <2>1. CalcTo(r, k, kind, h, d, D[h + 1], E)
    <3>1. PICK s : s = Id(p.from) OBVIOUS
    <3>2. r = [src |-> <<s>>, msg |-> <<Ctl(k, kind, h), d>>, dest |-> D] BY <1>10, <3>1
    <3>3. E = [D EXCEPT ![h + 1] = s] BY <1>16, <3>1
    <3> QED BY <1>9, <1>13, <1>14, <3>2, <3>3, CalcIs
  <2> QED BY <2>1 DEF CalcTo
<1>18. D[h + 1] = Id(t[h + 3])
  <2>1. h + 1 \in 1..Len(D) /\ ~(h + 1 <= h) /\ h + 1 + 2 = h + 3 BY <1>9, <1>13, <1>14
  <2> QED BY <1>13, <2>1
<1>19. E \in Seq(Frame)
  <2>1. Len(t) >= 2 /\ h + 1 \in Nat /\ h + 1 + 2 <= Len(t) BY <1>9, <1>13, <1>14
  <2> QED BY <1>9, <1>15, <2>1, OthersAre DEF Names
<1>20. /\ q.from = n /\ q.to = t[h + 3]
       /\ q.frames = Tail(Wire([src |-> <<D[h + 1]>>, msg |-> <<Ctl(k, kind, h + 1), d>>,
                                dest |-> E]))
  <2>1. PICK x : x = [src |-> <<D[h + 1]>>, msg |-> <<Ctl(k, kind, h + 1), d>>, dest |-> E]
    OBVIOUS
  <2>2. q = [from |-> n, to |-> x.src[1][2], frames |-> Tail(Wire(x))]
    BY <1>12, <1>17, <2>1 DEF Packet
  <2>3. x.src[1] = Id(t[h + 3]) BY <1>18, <2>1
  <2>4. x.src[1][2] = t[h + 3] BY <2>3 DEF Id
  <2> QED BY <2>1, <2>2, <2>4
<1>21. IsBody(q.frames, 0, Ctl(k, kind, h + 1), d, E)
  <2>1. Ctl(k, kind, h + 1) \in Frame
    <3>1. k \in Nat /\ h + 1 \in Nat BY <1>9 DEF Numbers
    <3> QED BY <1>9, <3>1 DEF Ctl, Frame
  <2>2. D[h + 1] \in Frame
    <3>1. h + 1 \in 1..Len(D) BY <1>9, <1>13, <1>14
    <3> QED BY <1>13, <3>1, ElementOfSeq
  <2>3. IsBody(Tail(Wire([src |-> <<D[h + 1]>>, msg |-> <<Ctl(k, kind, h + 1), d>>,
                          dest |-> E])), 0, Ctl(k, kind, h + 1), d, E)
    BY <1>13, <1>19, <2>1, <2>2, WireIs
  <2> QED BY <1>20, <2>3
<1>22. Travels(q, k, kind, h + 1)'
  <2>1. h + 1 \in 0..255 /\ h + 1 + 2 <= Len(t) /\ h + 1 + 1 = h + 2 /\ h + 1 + 2 = h + 3
    BY <1>9, <1>13, <1>14
  <2>2. q.from = t[h + 1 + 1] /\ q.to = t[h + 1 + 2] BY <1>9, <1>11, <1>20, <2>1
  <2>3. kind = "rep" => served'[k] = Last(sent[k].path) /\ sent[k].payload # Empty
    BY <1>1, <1>11 DEF Travels
  <2>4. IsBody(q.frames, 0, Ctl(k, kind, h + 1), sent[k].payload, Others(t, h + 1))
    BY <1>5, <1>15, <1>21
  <2> QED BY <1>3, <1>9, <1>11, <2>1, <2>2, <2>3, <2>4, NewTravels
<1>23. OnTheWay'
  <2> PICK Q : Q = {q} OBVIOUS
  <2>1. packets' \subseteq packets \cup Q BY <1>10, <1>12
  <2>2. \A x \in Q : \E j, o, m : Travels(x, j, o, m)' BY <1>22
  <2>3. \A j \in Numbers : served'[j] = served[j] \/ served'[j] = Last(sent[j].path)
    BY <1>11
  <2> QED BY <1>2, <1>11, <2>1, <2>2, <2>3, StillOnTheWay
<1>24. RequestsOK' BY <1>2, <1>11 DEF RequestsOK, Numbers
<1>25. AnswerFits' BY <1>2, <1>11, StillFits
<1> QED BY <1>23, <1>24, <1>25 DEF NetIInv

\* All hops done, RotateRoute turns the whole list round.
Turned(E, D) == /\ E \in Seq(Frame) /\ Len(E) = Len(D)
                /\ \A j \in 1..Len(D) : E[j] = D[Len(D) + 1 - j]

LEMMA TurnIs ==
    ASSUME NEW D \in Seq(Frame), NEW h, h = Len(D)
    PROVE  Turned(RotateRoute(D, h), D)
<1>1. Len(D) \in Nat OBVIOUS
<1>2. \A j \in 1..Len(D) : Len(D) + 1 - j \in 1..Len(D) BY <1>1
<1>3. \A j \in 1..Len(D) : D[Len(D) + 1 - j] \in Frame BY <1>2, ElementOfSeq
<1>4. CASE h = 0
  <2>1. RotateRoute(D, h) = D BY <1>4 DEF RotateRoute
  <2>2. \A j \in 1..Len(D) : FALSE BY <1>4
  <2>3. Turned(D, D) BY <2>2 DEF Turned
  <2> QED BY <2>1, <2>3
<1>5. CASE h # 0
  <2>1. ~(Len(D) > h + 1) BY <1>1
  <2>2. RotateRoute(D, h) = [j \in 1..Len(D) |-> IF j <= h THEN D[h + 1 - j] ELSE D[j]]
    BY <1>5, <2>1 DEF RotateRoute
  <2>3. PICK E : E = RotateRoute(D, h) OBVIOUS
  <2>4. \A j \in 1..Len(D) : E[j] = D[Len(D) + 1 - j] BY <1>1, <2>2, <2>3
  <2>5. E \in Seq(Frame) /\ Len(E) = Len(D)
    <3>1. E = [j \in 1..Len(D) |-> E[j]] BY <2>2, <2>3
    <3>2. \A j \in 1..Len(D) : E[j] \in Frame BY <1>3, <2>4
    <3> QED BY <1>1, <3>1, <3>2
  <2> QED BY <2>3, <2>4, <2>5 DEF Turned
<1> QED BY <1>4, <1>5

\* The route of a request, all hops done, is turned into the one back.
LEMMA TurnsBack ==
    ASSUME NEW t \in Seq(Nodes), NEW u \in Seq(Nodes), NEW n \in Nat, n >= 1,
           Len(t) = n + 1, Len(u) = n + 1, \A j \in 1..n + 1 : u[j] = t[n + 2 - j],
           NEW E, Turned(E, Others(t, n - 1))
    PROVE  E = Others(u, 0)
<1>1. n - 1 \in Nat /\ n - 1 + 2 <= Len(t) /\ Len(t) >= 2 OBVIOUS
<1>2. PICK D : D = Others(t, n - 1) OBVIOUS
<1>3. /\ Len(D) = n - 1
      /\ \A j \in 1..n - 1 : D[j] = Id(t[IF j <= n - 1 THEN j ELSE j + 2])
  <2>1. Names(D, t, n - 1) BY <1>1, <1>2, OthersAre
  <2>2. Len(t) - 2 = n - 1 OBVIOUS
  <2> QED BY <2>1, <2>2 DEF Names
<1>4. /\ E \in Seq(Frame) /\ Len(E) = n - 1 /\ \A j \in 1..n - 1 : E[j] = D[n - 1 + 1 - j]
  BY <1>2, <1>3 DEF Turned
<1>5. \A j \in 1..n - 1 : E[j] = Id(u[j + 2])
  <2> TAKE j \in 1..n - 1
  <2>1. /\ n - 1 + 1 - j \in 1..n - 1 /\ n - 1 + 1 - j <= n - 1
        /\ j + 2 \in 1..n + 1 /\ n + 2 - (j + 2) = n - 1 + 1 - j
    OBVIOUS
  <2>2. E[j] = D[n - 1 + 1 - j] BY <1>4
  <2>3. D[n - 1 + 1 - j] = Id(t[n - 1 + 1 - j]) BY <1>3, <2>1
  <2>4. u[j + 2] = t[n - 1 + 1 - j] BY <2>1
  <2> QED BY <2>2, <2>3, <2>4
<1>6. Others(u, 0) = [j \in 1..n - 1 |-> Id(u[j + 2])]
  <2>1. Len(u) - 2 = n - 1 OBVIOUS
  <2>2. \A j \in 1..n - 1 : ~(j <= 0) OBVIOUS
  <2> QED BY <2>1, <2>2 DEF Others
<1>7. E = [j \in 1..n - 1 |-> E[j]] BY <1>4
<1> QED BY <1>5, <1>6, <1>7

\* The target's answer starts on its way back.
LEMMA AnswerKeeps ==
    ASSUME NetIInv, NEW n \in Routers, NEW p \in packets, Answer(n, p)
    PROVE  NetIInv'
<1>1. PICK k, kind, h : Travels(p, k, kind, h) BY DEF NetIInv, OnTheWay
<1>2. RequestsOK /\ OnTheWay /\ AnswerFits BY DEF NetIInv
<1>3. PICK t : t = Trail(k, kind) OBVIOUS
<1>4. PICK D : D = Others(t, h) OBVIOUS
<1>5. PICK d : d = sent[k].payload OBVIOUS
<1>6. PICK path : path = sent[k].path OBVIOUS
<1>7. Reads(p, k, kind, h, t, D) BY <1>1, <1>2, <1>3, <1>4, PacketReads
<1>8. Place(p, k, kind, h, path) BY <1>1, <1>2, <1>6, Places
<1>9. /\ k \in Numbers /\ kind \in {"req", "rep"} /\ h \in Nat /\ h <= Len(path) - 1
      /\ Len(path) \in Nat /\ Len(path) >= 1 /\ path \in Paths /\ path \in Seq(Routers)
      /\ Len(t) = Len(path) + 1 /\ t \in Seq(Nodes)
      /\ p.from = t[h + 1] /\ p.to = t[h + 2]
  BY <1>1, <1>3, <1>8 DEF Travels, Place
<1>10. PICK r : /\ r = [src |-> <<Id(p.from)>>, msg |-> <<Ctl(k, kind, h), d>>, dest |-> D]
                /\ Hops(r) = Len(r.dest) /\ d # Empty
                /\ packets' = (packets \ {p}) \cup {Packet(n,
                      [r EXCEPT !.msg[1] = Ctl(Number(p), "rep", 0),
                                !.dest = RotateRoute(r.dest, Hops(r))])}
  <2>1. /\ p.to = n /\ RecvOk(Arrived(p)) /\ Hops(RecvPath(Arrived(p))) = Len(RecvPath(Arrived(p)).dest)
        /\ packets' = (packets \ {p}) \cup {Packet(n,
               [RecvPath(Arrived(p)) EXCEPT !.msg[1] = Ctl(Number(p), "rep", 0),
                     !.dest = RotateRoute(RecvPath(Arrived(p)).dest, Hops(RecvPath(Arrived(p))))])}
    BY DEF Answer
  <2>2. /\ d # Empty
        /\ RecvPath(Arrived(p)) = [src |-> <<Id(p.from)>>, msg |-> <<Ctl(k, kind, h), d>>, dest |-> D]
    BY <1>5, <1>7, <2>1 DEF Reads
  <2> QED BY <2>1, <2>2
<1>11. /\ p.to = n /\ sent' = sent /\ served' = [served EXCEPT ![k] = n] /\ answer' = answer
       /\ refused' = refused /\ lost' = lost
  <2>1. Number(p) = k BY <1>7 DEF Reads
  <2> QED BY <2>1 DEF Answer
<1>12. /\ D \in Seq(Frame) /\ Len(D) = Len(path) - 1 /\ d \in Frame /\ Number(p) = k
       /\ p.from \in Nodes
  <2>1. /\ D \in Seq(Frame) /\ Len(D) = Len(t) - 2 /\ sent[k].payload \in Frame
        /\ Number(p) = k /\ p.from \in Nodes
    BY <1>7 DEF Reads
  <2>2. Len(t) - 2 = Len(path) - 1 BY <1>9
  <2> QED BY <1>5, <2>1, <2>2
<1>13. h = Len(path) - 1 /\ h = Len(D)
  <2>1. Hops(r) = h BY <1>10 DEF Hops, Ctl
  <2>2. r.dest = D BY <1>10
  <2> QED BY <1>10, <1>12, <2>1, <2>2
<1>14. kind = "req" /\ n = path[Len(path)]
  <2>1. kind = "req" BY <1>8, <1>11, <1>13, <1>9 DEF Place
  <2>2. p.to = path[h + 1] BY <1>8, <2>1 DEF Place
  <2>3. h + 1 = Len(path) BY <1>9, <1>13
  <2> QED BY <1>11, <2>1, <2>2, <2>3
<1>15. n = Last(sent[k].path) BY <1>6, <1>14 DEF Last
<1>16. PICK u : u = Trail(k, "rep") OBVIOUS
<1>17. /\ u \in Seq(Nodes) /\ Len(u) = Len(path) + 1
       /\ \A j \in 1..Len(path) + 1 : u[j] = t[Len(path) + 2 - j]
  <2>1. TrailOK(k, path) BY <1>2, <1>6, <1>9, TrailIs
  <2> QED BY <1>3, <1>14, <1>16, <2>1 DEF TrailOK
<1>18. PICK E : E = RotateRoute(D, h) OBVIOUS
<1>19. E \in Seq(Frame) /\ E = Others(u, 0)
  <2>1. Turned(E, D) BY <1>12, <1>13, <1>18, TurnIs
  <2>2. D = Others(t, Len(path) - 1) BY <1>4, <1>13
  <2>3. E = Others(u, 0) BY <1>9, <1>17, <2>1, <2>2, TurnsBack
  <2> QED BY <2>1, <2>3 DEF Turned
<1>20. PICK q : q = Packet(n, [r EXCEPT !.msg[1] = Ctl(Number(p), "rep", 0),
                                        !.dest = RotateRoute(r.dest, Hops(r))])
  OBVIOUS
<1>21. /\ q.from = n /\ q.to = p.from
       /\ q.frames = Tail(Wire([src |-> <<Id(p.from)>>, msg |-> <<Ctl(k, "rep", 0), d>>,
                                dest |-> E]))
  <2>1. RotateRoute(r.dest, Hops(r)) = E
    <3>1. Hops(r) = h BY <1>10 DEF Hops, Ctl
    <3>2. r.dest = D BY <1>10
    <3> QED BY <1>18, <3>1, <3>2
  <2>2. PICK e : e = Ctl(k, "rep", 0) OBVIOUS
  <2>3. PICK x : x = [src |-> <<Id(p.from)>>, msg |-> <<e, d>>, dest |-> E] OBVIOUS
  <2>4. [r EXCEPT !.msg[1] = e, !.dest = E] = x
    <3>1. PICK m : m = r.msg OBVIOUS
    <3>2. [m EXCEPT ![1] = e] = <<e, d>> BY <1>10, <3>1
    <3>3. [r EXCEPT !.msg[1] = e, !.dest = E] = [r EXCEPT !.msg = [m EXCEPT ![1] = e], !.dest = E]
      BY <3>1
    <3>4. [r EXCEPT !.msg[1] = e, !.dest = E] = [r EXCEPT !.msg = <<e, d>>, !.dest = E]
      BY <3>2, <3>3
    <3>5. PICK mm : mm = <<e, d>> OBVIOUS
    <3>6. PICK y : y = <<Id(p.from)>> OBVIOUS
    <3>7. r = [src |-> y, msg |-> m, dest |-> D] /\ x = [src |-> y, msg |-> mm, dest |-> E]
      BY <1>10, <2>3, <3>1, <3>5, <3>6
    <3>8. PICK z : z = [r EXCEPT !.msg = mm, !.dest = E] OBVIOUS
    <3>9. z = x
      <4>1. DOMAIN z = {"src", "msg", "dest"} /\ DOMAIN x = {"src", "msg", "dest"} BY <3>7, <3>8
      <4>2. z.src = x.src /\ z.msg = x.msg /\ z.dest = x.dest BY <3>7, <3>8
      <4>3. z = [f \in DOMAIN z |-> z[f]] /\ x = [f \in DOMAIN x |-> x[f]] BY <3>7, <3>8
      <4> QED BY <4>1, <4>2, <4>3
    <3> QED BY <3>4, <3>5, <3>8, <3>9
  <2>5. q = Packet(n, x) BY <1>12, <1>20, <2>1, <2>2, <2>4
  <2>6. q = [from |-> n, to |-> x.src[1][2], frames |-> Tail(Wire(x))] BY <2>5 DEF Packet
  <2>7. x.src[1] = Id(p.from) BY <2>3
  <2>8. x.src[1][2] = p.from BY <2>7 DEF Id
  <2> QED BY <2>2, <2>3, <2>6, <2>8
<1>22. IsBody(q.frames, 0, Ctl(k, "rep", 0), d, E)
  <2>1. Ctl(k, "rep", 0) \in Frame
    <3>1. k \in Nat BY <1>9 DEF Numbers
    <3> QED BY <3>1 DEF Ctl, Frame
  <2>2. Id(p.from) \in Frame BY <1>12 DEF Frame
  <2>3. IsBody(Tail(Wire([src |-> <<Id(p.from)>>, msg |-> <<Ctl(k, "rep", 0), d>>,
                          dest |-> E])), 0, Ctl(k, "rep", 0), d, E)
    BY <1>12, <1>19, <2>1, <2>2, WireIs
  <2> QED BY <1>21, <2>3
<1>23. /\ served' \in Seq(Routers \cup {"none"}) /\ Len(served') = Len(sent) /\ served'[k] = n
       /\ \A j \in Numbers : j # k => served'[j] = served[j]
  <2>1. served \in Seq(Routers \cup {"none"}) /\ Len(served) = Len(sent) BY <1>2 DEF RequestsOK
  <2>2. k \in 1..Len(served) BY <1>9, <2>1 DEF Numbers
  <2>3. n \in Routers \cup {"none"} OBVIOUS
  <2> QED BY <1>11, <2>1, <2>2, <2>3 DEF Numbers
<1>24. Travels(q, k, "rep", 0)'
  <2>1. 0 \in 0..255 /\ 0 + 2 <= Len(u) /\ 0 + 1 = 1 /\ 0 + 2 = 2 BY <1>9, <1>17
  <2>2. q.from = u[0 + 1] /\ q.to = u[0 + 2]
    <3>1. 1 \in 1..Len(path) + 1 /\ 2 \in 1..Len(path) + 1 BY <1>9
    <3>2. Len(path) + 2 - 1 = h + 2 /\ Len(path) + 2 - 2 = h + 1 BY <1>9, <1>13
    <3>3. u[1] = t[h + 2] /\ u[2] = t[h + 1] BY <1>17, <3>1, <3>2
    <3> QED BY <1>9, <1>11, <1>21, <2>1, <3>3
  <2>3. served'[k] = Last(sent[k].path) /\ sent[k].payload # Empty
    BY <1>5, <1>10, <1>15, <1>23
  <2>4. IsBody(q.frames, 0, Ctl(k, "rep", 0), sent[k].payload, Others(u, 0))
    BY <1>5, <1>19, <1>22
  <2> QED BY <1>9, <1>11, <1>16, <2>1, <2>2, <2>3, <2>4, NewTravels
<1>25. OnTheWay'
  <2> PICK Q : Q = {q} OBVIOUS
  <2>1. packets' \subseteq packets \cup Q BY <1>10, <1>20
  <2>2. \A x \in Q : \E j, o, m : Travels(x, j, o, m)' BY <1>24
  <2>3. \A j \in Numbers : served'[j] = served[j] \/ served'[j] = Last(sent[j].path)
    BY <1>15, <1>23
  <2> QED BY <1>2, <1>11, <2>1, <2>2, <2>3, StillOnTheWay
<1>26. RequestsOK' BY <1>2, <1>11, <1>23 DEF RequestsOK, Numbers
<1>27. AnswerFits'
  <2>1. Numbers' = Numbers /\ n # "none" /\ sent[k].payload # Empty
    BY <1>5, <1>10, <1>11, RPAssumption DEF Numbers
  <2>2. ServedByTarget' BY <1>2, <1>11, <1>15, <1>23, <2>1 DEF AnswerFits, ServedByTarget
  <2>3. EmptyRefused' BY <1>2, <1>11, <1>23, <2>1 DEF AnswerFits, EmptyRefused
  <2>4. ASSUME NEW j \in Numbers, answer[j] # NoAnswer
        PROVE  /\ answer[j].client = sent[j].client /\ answer[j].kind = "rep"
               /\ answer[j].payload = sent[j].payload /\ served'[j] # "none"
               /\ answer[j].route = [m \in 1..Len(sent[j].path) - 1 |-> Id(sent[j].path[m + 1])]
    <3>1. served[j] # "none" BY <1>2, <2>4 DEF AnswerFits
    <3>2. served'[j] # "none" BY <1>23, <2>1, <3>1
    <3> QED BY <1>2, <2>4, <3>2 DEF AnswerFits
  <2> QED BY <1>11, <2>1, <2>2, <2>3, <2>4 DEF AnswerFits
<1> QED BY <1>25, <1>26, <1>27 DEF NetIInv

\* The destinations as BackTrace states them: those before the packet's hop, and
\* those after its receiver.
LEMMA OthersSplit ==
    ASSUME NEW t \in Seq(Nodes), NEW h \in Nat, h + 2 <= Len(t),
           NEW ids, ids = [j \in 1..Len(t) |-> Id(t[j])]
    PROVE  Others(t, h) = SubSeq(ids, 1, h) \o SubSeq(ids, h + 3, Len(ids))
<1>1. Len(t) \in Nat /\ \A j \in 1..Len(t) : Id(t[j]) \in Frame BY DEF Frame
<1>2. ids \in Seq(Frame) /\ Len(ids) = Len(t) /\ \A j \in 1..Len(t) : ids[j] = Id(t[j])
  BY <1>1
<1>3. PICK A : A = SubSeq(ids, 1, h) OBVIOUS
<1>4. A \in Seq(Frame) /\ Len(A) = h /\ \A j \in 1..h : A[j] = ids[j]
  BY <1>1, <1>2, <1>3
<1>5. PICK B : B = SubSeq(ids, h + 3, Len(ids)) OBVIOUS
<1>6. /\ B \in Seq(Frame) /\ Len(B) = Len(t) - 2 - h
      /\ \A j \in 1..Len(t) - 2 - h : B[j] = ids[h + 2 + j]
  <2>1. PICK a, b : a = h + 3 /\ b = Len(ids) OBVIOUS
  <2>2. a \in Nat /\ b \in Nat /\ b - a + 1 = Len(t) - 2 - h /\ a >= 1 /\ b <= Len(ids)
        /\ Len(t) - 2 - h \in Nat
    BY <1>1, <1>2, <2>1
  <2>3. B = SubSeq(ids, a, b) BY <1>5, <2>1
  <2>4. B \in Seq(Frame) /\ Len(B) = b - a + 1 BY <1>2, <2>2, <2>3
  <2>5. \A j \in 1..b - a + 1 : B[j] = ids[a + j - 1] BY <1>2, <2>2, <2>3
  <2>6. \A j \in 1..b - a + 1 : a + j - 1 = h + 2 + j BY <1>1, <2>1, <2>2
  <2> QED BY <2>2, <2>4, <2>5, <2>6
<1>7. PICK C : C = A \o B OBVIOUS
<1>8. /\ C \in Seq(Frame) /\ Len(C) = Len(A) + Len(B)
      /\ \A j \in 1..Len(A) + Len(B) : C[j] = IF j <= Len(A) THEN A[j] ELSE B[j - Len(A)]
  BY <1>4, <1>6, <1>7, ConcatProperties
<1>9. Len(A) + Len(B) = Len(t) - 2 BY <1>1, <1>4, <1>6
<1>10. \A j \in 1..Len(t) - 2 : C[j] = Id(t[IF j <= h THEN j ELSE j + 2])
  <2> TAKE j \in 1..Len(t) - 2
  <2>1. C[j] = IF j <= h THEN A[j] ELSE B[j - h] BY <1>4, <1>8, <1>9
  <2>2. CASE j <= h
    <3>1. j \in 1..h /\ j \in 1..Len(t) BY <1>1, <2>2
    <3> QED BY <1>2, <1>4, <2>1, <2>2, <3>1
  <2>3. CASE ~(j <= h)
    <3>1. j - h \in 1..Len(t) - 2 - h /\ h + 2 + (j - h) = j + 2 /\ j + 2 \in 1..Len(t)
      BY <1>1, <2>3
    <3> QED BY <1>2, <1>6, <2>1, <2>3, <3>1
  <2> QED BY <2>2, <2>3
<1>11. PICK O : O = Others(t, h) OBVIOUS
<1>12. O \in Seq(Frame) /\ Len(O) = Len(t) - 2
       /\ \A j \in 1..Len(t) - 2 : O[j] = Id(t[IF j <= h THEN j ELSE j + 2])
  <2>1. Len(t) >= 2 BY <1>1
  <2> QED BY <1>11, <2>1, OthersAre DEF Names
<1>13. O = C BY <1>8, <1>9, <1>10, <1>12, SeqEqual
<1> QED BY <1>3, <1>5, <1>7, <1>11, <1>13

\* The client gets what it asked for, with the route it asked along.
LEMMA DeliverKeeps ==
    ASSUME NetIInv, NEW c \in Clients, NEW p \in packets, Deliver(c, p)
    PROVE  NetIInv'
<1>1. PICK k, kind, h : Travels(p, k, kind, h) BY DEF NetIInv, OnTheWay
<1>2. RequestsOK /\ OnTheWay /\ AnswerFits BY DEF NetIInv
<1>3. PICK t : t = Trail(k, kind) OBVIOUS
<1>4. PICK D : D = Others(t, h) OBVIOUS
<1>5. PICK d : d = sent[k].payload OBVIOUS
<1>6. PICK path : path = sent[k].path OBVIOUS
<1>7. Reads(p, k, kind, h, t, D) BY <1>1, <1>2, <1>3, <1>4, PacketReads
<1>8. Place(p, k, kind, h, path) BY <1>1, <1>2, <1>6, Places
<1>9. /\ p.to = c /\ sent' = sent /\ served' = served /\ refused' = refused /\ lost' = lost
      /\ packets' = packets \ {p}
  BY DEF Deliver
<1>10. kind = "rep" /\ h = Len(path) - 1 /\ c = sent[k].client BY <1>8, <1>9 DEF Place
<1>11. /\ k \in Numbers /\ h \in Nat /\ Len(path) \in Nat /\ Len(path) >= 1
       /\ path \in Paths /\ path \in Seq(Routers) /\ Len(t) = Len(path) + 1 /\ t \in Seq(Nodes)
       /\ served[k] = Last(sent[k].path) /\ d # Empty
  BY <1>1, <1>3, <1>5, <1>8, <1>10 DEF Travels, Place
<1>12. PICK r : /\ r.msg = <<Ctl(k, "rep", h), d>> /\ r.dest = D
                /\ answer' = [answer EXCEPT ![k] =
                      [client |-> c, kind |-> r.msg[1][3], payload |-> r.msg[2],
                       route |-> RotateRoute(r.dest, Hops(r))]]
  <2>1. /\ RecvOk(Arrived(p)) /\ Number(p) = k
        /\ answer' = [answer EXCEPT ![Number(p)] =
              [client |-> c, kind |-> RecvPath(Arrived(p)).msg[1][3],
               payload |-> RecvPath(Arrived(p)).msg[2],
               route |-> RotateRoute(RecvPath(Arrived(p)).dest, Hops(RecvPath(Arrived(p))))]]
    BY <1>7 DEF Deliver, Reads
  <2>2. PICK r : r = RecvPath(Arrived(p)) OBVIOUS
  <2>3. r.msg = <<Ctl(k, "rep", h), d>> /\ r.dest = D BY <1>5, <1>7, <1>10, <2>1, <2>2 DEF Reads
  <2> QED BY <2>1, <2>2, <2>3
<1>13. D \in Seq(Frame) /\ Len(D) = h /\ d \in Payloads
  <2>1. D \in Seq(Frame) /\ Len(D) = Len(t) - 2 /\ sent[k].payload \in Payloads
    BY <1>7 DEF Reads
  <2>2. Len(t) - 2 = h BY <1>10, <1>11
  <2> QED BY <1>5, <2>1, <2>2
<1>14. PICK E : E = RotateRoute(D, h) OBVIOUS
<1>15. answer' = [answer EXCEPT ![k] = [client |-> c, kind |-> "rep", payload |-> d, route |-> E]]
  <2>1. Hops(r) = h /\ r.msg[1][3] = "rep" /\ r.msg[2] = d BY <1>12 DEF Hops, Ctl
  <2> QED BY <1>12, <1>14, <2>1
<1>16. Turned(E, D) BY <1>13, <1>14, TurnIs
<1>17. PICK u : u = Trail(k, "req") OBVIOUS
<1>18. /\ u \in Seq(Nodes) /\ Len(u) = Len(path) + 1
       /\ \A j \in 1..Len(path) : u[j + 1] = path[j]
       /\ \A j \in 1..Len(path) + 1 : t[j] = u[Len(path) + 2 - j]
  <2>1. TrailOK(k, path) BY <1>2, <1>6, <1>11, TrailIs
  <2> QED BY <1>3, <1>10, <1>17, <2>1 DEF TrailOK
<1>19. \A j \in 1..Len(path) + 1 : u[j] = t[Len(path) + 2 - j]
  <2> TAKE j \in 1..Len(path) + 1
  <2>1. Len(path) + 2 - j \in 1..Len(path) + 1 /\ Len(path) + 2 - (Len(path) + 2 - j) = j
    BY <1>11
  <2> QED BY <1>18, <2>1
<1>20. E = Others(u, 0)
  <2>1. Turned(E, Others(t, Len(path) - 1)) BY <1>4, <1>10, <1>16
  <2> QED BY <1>11, <1>18, <1>19, <2>1, TurnsBack
<1>21. E = [j \in 1..Len(path) - 1 |-> Id(path[j + 1])]
  <2>1. Len(u) - 2 = Len(path) - 1 BY <1>11, <1>18
  <2>2. \A j \in 1..Len(path) - 1 : ~(j <= 0) /\ j + 1 \in 1..Len(path) /\ j + 2 = j + 1 + 1
    BY <1>11
  <2>3. \A j \in 1..Len(path) - 1 : Id(u[IF j <= 0 THEN j ELSE j + 2]) = Id(path[j + 1])
    BY <1>18, <2>2
  <2> QED BY <1>20, <2>1, <2>3 DEF Others
<1>22. PICK a : a = [client |-> c, kind |-> "rep", payload |-> d, route |-> E] OBVIOUS
<1>23. a \in RouteAnswer BY <1>13, <1>16, <1>22 DEF RouteAnswer, Turned
<1>24. /\ answer' \in Seq(RouteAnswer) /\ Len(answer') = Len(sent) /\ answer'[k] = a
       /\ \A j \in Numbers : j # k => answer'[j] = answer[j]
  <2>1. answer \in Seq(RouteAnswer) /\ Len(answer) = Len(sent) BY <1>2 DEF RequestsOK
  <2>2. k \in 1..Len(answer) BY <1>11, <2>1 DEF Numbers
  <2>3. answer' = [answer EXCEPT ![k] = a] BY <1>15, <1>22
  <2> QED BY <1>23, <2>1, <2>2, <2>3 DEF Numbers
<1>25. RequestsOK' BY <1>2, <1>9, <1>24 DEF RequestsOK, Numbers
<1>26. OnTheWay'
  <2> PICK Q : Q = {} OBVIOUS
  <2>1. packets' \subseteq packets \cup Q BY <1>9
  <2>2. \A x \in Q : \E j, o, m : Travels(x, j, o, m)' OBVIOUS
  <2>3. \A j \in Numbers : served'[j] = served[j] \/ served'[j] = Last(sent[j].path)
    BY <1>9
  <2> QED BY <1>2, <1>9, <2>1, <2>2, <2>3, StillOnTheWay
<1>27. AnswerFits'
  <2>1. Numbers' = Numbers BY <1>9 DEF Numbers
  <2>2. ServedByTarget' BY <1>2, <1>9, <2>1 DEF AnswerFits, ServedByTarget
  <2>3. EmptyRefused' BY <1>2, <1>9, <2>1 DEF AnswerFits, EmptyRefused
  <2>4. ASSUME NEW j \in Numbers, answer'[j] # NoAnswer
        PROVE  /\ answer'[j].client = sent[j].client /\ answer'[j].kind = "rep"
               /\ answer'[j].payload = sent[j].payload /\ served[j] # "none"
               /\ answer'[j].route = [m \in 1..Len(sent[j].path) - 1 |-> Id(sent[j].path[m + 1])]
    <3>1. CASE j # k
      <4>1. answer'[j] = answer[j] BY <1>24, <3>1
      <4> QED BY <1>2, <2>4, <4>1 DEF AnswerFits
    <3>2. CASE j = k
      <4>1. served[k] # "none"
        <5>1. Last(path) = path[Len(path)] /\ Len(path) \in 1..Len(path) BY <1>11 DEF Last
        <5>2. Last(path) \in Routers BY <1>11, <5>1, ElementOfSeq
        <5> QED BY <1>6, <1>11, <5>2, RPAssumption
      <4>2. answer'[j] = a BY <1>24, <3>2
      <4>3. /\ a.client = sent[j].client /\ a.kind = "rep" /\ a.payload = sent[j].payload
            /\ a.route = [m \in 1..Len(sent[j].path) - 1 |-> Id(sent[j].path[m + 1])]
        BY <1>5, <1>6, <1>10, <1>21, <1>22, <3>2
      <4> QED BY <3>2, <4>1, <4>2, <4>3
    <3> QED BY <3>1, <3>2
  <2> QED BY <1>9, <2>1, <2>2, <2>3, <2>4 DEF AnswerFits
<1> QED BY <1>25, <1>26, <1>27 DEF NetIInv

\* Only a request with an empty frame is refused, and before it is served.
LEMMA RefuseKeeps ==
    ASSUME NetIInv, NEW n, NEW p \in packets, Refuse(n, p)
    PROVE  NetIInv'
<1>1. PICK k, kind, h : Travels(p, k, kind, h) BY DEF NetIInv, OnTheWay
<1>2. RequestsOK /\ OnTheWay /\ AnswerFits BY DEF NetIInv
<1>3. Reads(p, k, kind, h, Trail(k, kind), Others(Trail(k, kind), h)) BY <1>1, <1>2, PacketReads
<1>4. k \in Numbers BY <1>1 DEF Travels
<1>5. /\ sent' = sent /\ served' = served /\ answer' = answer /\ lost' = lost
      /\ packets' = packets \ {p} /\ refused' = refused \cup {k} /\ sent[k].payload = Empty
  BY <1>3 DEF Refuse, Reads
<1>6. RequestsOK' BY <1>2, <1>4, <1>5 DEF RequestsOK, Numbers
<1>7. OnTheWay'
  <2> PICK Q : Q = {} OBVIOUS
  <2>1. packets' \subseteq packets \cup Q BY <1>5
  <2>2. \A x \in Q : \E j, o, m : Travels(x, j, o, m)' OBVIOUS
  <2>3. \A j \in Numbers : served'[j] = served[j] \/ served'[j] = Last(sent[j].path)
    BY <1>5
  <2> QED BY <1>2, <1>5, <2>1, <2>2, <2>3, StillOnTheWay
<1>8. AnswerFits'
  <2>1. EmptyRefused' BY <1>2, <1>5 DEF AnswerFits, EmptyRefused, Numbers
  <2> QED BY <1>2, <1>5, <2>1 DEF AnswerFits, ServedByTarget, Numbers
<1> QED BY <1>6, <1>7, <1>8 DEF NetIInv

\* A packet that is lost leaves the others where they are.
LEMMA LoseKeeps ==
    ASSUME NetIInv, NEW p \in packets, LosePacket(p)
    PROVE  NetIInv'
<1>1. PICK k, kind, h : Travels(p, k, kind, h) BY DEF NetIInv, OnTheWay
<1>2. RequestsOK /\ OnTheWay /\ AnswerFits BY DEF NetIInv
<1>3. Reads(p, k, kind, h, Trail(k, kind), Others(Trail(k, kind), h)) BY <1>1, <1>2, PacketReads
<1>4. k \in Numbers BY <1>1 DEF Travels
<1>5. /\ sent' = sent /\ served' = served /\ answer' = answer /\ refused' = refused
      /\ packets' = packets \ {p} /\ lost' = lost \cup {k}
  BY <1>3 DEF LosePacket, Reads
<1>6. RequestsOK' BY <1>2, <1>4, <1>5 DEF RequestsOK, Numbers
<1>7. OnTheWay'
  <2> PICK Q : Q = {} OBVIOUS
  <2>1. packets' \subseteq packets \cup Q BY <1>5
  <2>2. \A x \in Q : \E j, o, m : Travels(x, j, o, m)' OBVIOUS
  <2>3. \A j \in Numbers : served'[j] = served[j] \/ served'[j] = Last(sent[j].path)
    BY <1>5
  <2> QED BY <1>2, <1>5, <2>1, <2>2, <2>3, StillOnTheWay
<1>8. AnswerFits' BY <1>2, <1>5, StillFits
<1> QED BY <1>6, <1>7, <1>8 DEF NetIInv

\* At first no packet is on its way.
LEMMA NetStart == RouteInit => NetIInv
<1> SUFFICES ASSUME RouteInit PROVE NetIInv OBVIOUS
<1>1. /\ packets = {} /\ sent = <<>> /\ served = <<>> /\ answer = <<>> /\ refused = {} /\ lost = {}
  BY DEF RouteInit
<1>2. Numbers = {} BY <1>1 DEF Numbers
<1>3. RequestsOK BY <1>1, RPAssumption DEF RequestsOK
<1>4. OnTheWay BY <1>1 DEF OnTheWay
<1>5. AnswerFits BY <1>2 DEF AnswerFits, ServedByTarget, EmptyRefused
<1> QED BY <1>3, <1>4, <1>5 DEF NetIInv

\* No step of a client, a router or ZeroMQ disturbs the invariant.
LEMMA NetKeeps == ShortRoutes /\ NetIInv /\ [RouteNext]_routeVars => NetIInv'
<1> SUFFICES ASSUME ShortRoutes, NetIInv, [RouteNext]_routeVars PROVE NetIInv' OBVIOUS
<1>1. ASSUME NEW c \in Clients, NEW path \in Paths, NEW d \in Payloads, SendRequest(c, path, d)
      PROVE  NetIInv'
  BY <1>1, RequestKeeps
<1>2. ASSUME NEW c \in Clients, NEW p \in packets, Deliver(c, p) PROVE NetIInv'
  BY <1>2, DeliverKeeps
<1>3. ASSUME NEW n \in Routers, NEW p \in packets, Forward(n, p) \/ Answer(n, p) \/ Refuse(n, p)
      PROVE  NetIInv'
  <2>1. CASE Forward(n, p) BY <2>1, ForwardKeeps
  <2>2. CASE Answer(n, p) BY <2>2, AnswerKeeps
  <2>3. CASE Refuse(n, p) BY <2>3, RefuseKeeps
  <2> QED BY <1>3, <2>1, <2>2, <2>3
<1>4. ASSUME NEW p \in packets, LosePacket(p) PROVE NetIInv' BY <1>4, LoseKeeps
<1>5. CASE UNCHANGED routeVars
  <2>1. /\ packets' = packets /\ sent' = sent /\ served' = served /\ answer' = answer
        /\ refused' = refused /\ lost' = lost
    BY <1>5 DEF routeVars
  <2>2. RequestsOK /\ OnTheWay /\ AnswerFits BY DEF NetIInv
  <2>3. RequestsOK' BY <2>1, <2>2 DEF RequestsOK, Numbers
  <2>4. OnTheWay'
    <3> PICK Q : Q = {} OBVIOUS
    <3>1. packets' \subseteq packets \cup Q BY <2>1
    <3>2. \A x \in Q : \E j, o, m : Travels(x, j, o, m)' OBVIOUS
    <3>3. \A j \in Numbers : served'[j] = served[j] \/ served'[j] = Last(sent[j].path)
      BY <2>1
    <3> QED BY <2>1, <2>2, <3>1, <3>2, <3>3, StillOnTheWay
  <2>5. AnswerFits' BY <2>1, <2>2, StillFits
  <2> QED BY <2>3, <2>4, <2>5 DEF NetIInv
<1> QED BY <1>1, <1>2, <1>3, <1>4, <1>5 DEF RouteNext, Router

-----------------------------------------------------------------------------
(* The theorems *)

\* What holds of the chain of routers in every state, as long as no path is longer
\* than CalcRoute's hop counter can count.
THEOREM RouteInductive == ASSUME ShortRoutes PROVE RouteSpec => []NetIInv
<1>1. ShortRoutes /\ NetIInv /\ [RouteNext]_routeVars => NetIInv' BY NetKeeps
<1>2. ShortRoutes OBVIOUS
<1>3. NetIInv /\ [RouteNext]_routeVars => NetIInv' BY <1>1, <1>2
<1> QED BY <1>3, NetStart, PTL DEF RouteSpec

\* RouteNet's BackTrace: wherever a packet is, in whichever direction it goes, the
\* destinations it holds are the nodes before it, in order, and those to come.  So
\* no exchange of CalcRoute and no RotateRoute loses or reorders a node.
THEOREM BackTraced == ASSUME ShortRoutes PROVE RouteSpec => []BackTrace
<1>1. NetIInv => BackTrace
  <2> SUFFICES ASSUME NetIInv PROVE BackTrace OBVIOUS
  <2>1. RequestsOK /\ OnTheWay BY DEF NetIInv
  <2>2. RouteTypeOK
    <3>1. \A p \in packets : p.from \in Nodes /\ p.to \in Nodes /\ Len(p.frames) >= 4
      <4> TAKE p \in packets
      <4>1. PICK k, kind, h : Travels(p, k, kind, h) BY <2>1 DEF OnTheWay
      <4>2. Reads(p, k, kind, h, Trail(k, kind), Others(Trail(k, kind), h))
        BY <2>1, <4>1, PacketReads
      <4> QED BY <4>2 DEF Reads
    <3>2. \A k \in Numbers : sent[k] \in [client : Clients, path : Paths, payload : Payloads]
      BY <2>1, ElementOfSeq DEF RequestsOK, RouteRequest, Numbers
    <3>3. \A k \in Numbers : served[k] \in Routers \cup {"none"}
      BY <2>1, ElementOfSeq DEF RequestsOK, Numbers
    <3> QED BY <2>1, <3>1, <3>2, <3>3 DEF RouteTypeOK, RequestsOK
  <2>3. ASSUME NEW p \in packets, RecvOk(Arrived(p))
        PROVE  LET r == RecvPath(Arrived(p))
                   h == Hops(r)
                   trail == Trail(r.msg[1][2], r.msg[1][3])
                   ids == [i \in 1..Len(trail) |-> Id(trail[i])]
               IN  /\ h + 2 <= Len(trail)
                   /\ p.from = trail[h + 1] /\ p.to = trail[h + 2]
                   /\ r.dest = SubSeq(ids, 1, h) \o SubSeq(ids, h + 3, Len(ids))
    <3>1. PICK k, kind, h : Travels(p, k, kind, h) BY <2>1 DEF OnTheWay
    <3>2. PICK t : t = Trail(k, kind) OBVIOUS
    <3>3. PICK D : D = Others(t, h) OBVIOUS
    <3>4. Reads(p, k, kind, h, t, D) BY <2>1, <3>1, <3>2, <3>3, PacketReads
    <3>5. PICK r : r = RecvPath(Arrived(p)) OBVIOUS
    <3>6. r.msg = <<Ctl(k, kind, h), sent[k].payload>> /\ r.dest = D
      BY <2>3, <3>4, <3>5 DEF Reads
    <3>7. Hops(r) = h /\ r.msg[1][2] = k /\ r.msg[1][3] = kind BY <3>6 DEF Hops, Ctl
    <3>8. /\ h \in Nat /\ h + 2 <= Len(t) /\ p.from = t[h + 1] /\ p.to = t[h + 2]
          /\ t \in Seq(Nodes)
      <4>1. Place(p, k, kind, h, sent[k].path) BY <2>1, <3>1, Places
      <4> QED BY <3>1, <3>2, <4>1 DEF Travels, Place
    <3>9. PICK ids : ids = [j \in 1..Len(t) |-> Id(t[j])] OBVIOUS
    <3>10. D = SubSeq(ids, 1, h) \o SubSeq(ids, h + 3, Len(ids))
      BY <3>3, <3>8, <3>9, OthersSplit
    <3> QED BY <3>2, <3>5, <3>6, <3>7, <3>8, <3>9, <3>10
  <2> QED BY <2>2, <2>3 DEF BackTrace
<1> QED BY <1>1, RouteInductive, PTL

\* RouteNet's AnswerFits, and with it ServedByTarget and EmptyRefused: the last
\* router of its path and no other serves a request, an empty payload is refused and
\* nothing else is, and an answer is the one to the client's own request, with the
\* route of the request.
THEOREM AnswersFit == ASSUME ShortRoutes PROVE RouteSpec => []AnswerFits
<1>1. NetIInv => AnswerFits BY DEF NetIInv
<1> QED BY <1>1, RouteInductive, PTL
=============================================================================
