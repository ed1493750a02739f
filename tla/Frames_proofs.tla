---------------------------- MODULE Frames_proofs ----------------------------
(***************************************************************************)
(* Proofs about the modules the Frames run checks.  FrameOwner: for any    *)
(* objects, references and bound on the lists, every frame is closed once  *)
(* and none is lost.  RotateLoop and RestResource: the loops of RotateRoute*)
(* and IsResource, for lists and strings of every length.  Sqlite: for any *)
(* wrappers, connections and statements, callers that Prepare a SqliteStmt *)
(* once lose nothing of SQLite's and ask no freed connection.              *)
(***************************************************************************)
EXTENDS RotateLoop, RestResource, Sqlite, FrameOwner, SequenceTheorems, TLAPS

-----------------------------------------------------------------------------
(* FrameOwner.                                                             *)

FramesSpec == FramesInit /\ [][FramesNext]_frameVars

Frame == Refs \cup {None}
FrameSeqs == {xs \in Seq(Frame) : Len(xs) <= ListMax}

FramesTypeOK ==
    /\ paths \in [Paths -> [msgs : [FrameLists -> FrameSeqs], need_close : BOOLEAN]]
    /\ stacks \in [Stacks -> [msgs : FrameSeqs, notClose : BOOLEAN]]
    /\ messages \in [Messages -> [msg : Frame, need_close : BOOLEAN]]
    /\ hand \in Frame
    /\ live \in SUBSET Refs

\* What does not close has nothing: a path or a Message that was sent.
SentEmpty ==
    /\ \A p \in Paths : ~Ready(p) => \A n \in FrameLists : RefsIn(paths[p].msgs[n]) = {}
    /\ \A m \in Messages : ~messages[m].need_close => messages[m].msg = None

\* The lists of frames that are closed with their object: those of the paths and
\* the stacks, and those of one frame, a Message's and the caller's.
PathHold(p, n) == <<"path", p, n>>
StackHold(s) == <<"stack", s, 0>>
MessageHold(m) == <<"message", m, 0>>
HandHold == <<"hand", 0, 0>>
Holders == {PathHold(p, n) : p \in Paths, n \in FrameLists}
           \cup {StackHold(s) : s \in Stacks}
           \cup {MessageHold(m) : m \in Messages} \cup {HandHold}

Held == [h \in Holders |->
            IF h[1] = "path" THEN paths[h[2]].msgs[h[3]]
            ELSE IF h[1] = "stack" THEN IF Owner(h[2]) THEN stacks[h[2]].msgs ELSE <<>>
            ELSE IF h[1] = "message" THEN <<messages[h[2]].msg>>
            ELSE <<hand>>]

\* A list with no reference twice.
Each(xs) == \A j, k \in 1..Len(xs) : xs[j] = xs[k] /\ xs[j] # None => j = k

\* Lists H of frames that have each reference of L once, and no other.
Partition(H, L) ==
    /\ \A h \in Holders : H[h] \in Seq(Frame) /\ Each(H[h]) /\ RefsIn(H[h]) \subseteq L
    /\ \A g, h \in Holders : g # h => RefsIn(H[g]) \cap RefsIn(H[h]) = {}
    /\ \A r \in L : \E h \in Holders : r \in RefsIn(H[h])

FramesIInv == FramesTypeOK /\ SentEmpty /\ Partition(Held, live)

-----------------------------------------------------------------------------
(* Lists of frames.                                                        *)

LEMMA RefsInIs ==
    ASSUME NEW xs \in Seq(Frame)
    PROVE  /\ \A r : r \in RefsIn(xs) <=> r # None /\ \E j \in 1..Len(xs) : xs[j] = r
           /\ RefsIn(xs) \subseteq Refs
BY DEF RefsIn, Frame

LEMMA RefsInNone == RefsIn(<<>>) = {} /\ Each(<<>>) /\ <<>> \in FrameSeqs
BY FrameAssumption DEF RefsIn, Each, FrameSeqs

\* A list of one frame: a Message's or the caller's.
LEMMA RefsInOne ==
    ASSUME NEW x \in Frame
    PROVE  <<x>> \in Seq(Frame) /\ RefsIn(<<x>>) = {x} \ {None} /\ Each(<<x>>)
BY DEF RefsIn, Each

\* A frame at the end of a list.
LEMMA RefsInAppend ==
    ASSUME NEW xs \in Seq(Frame), NEW x \in Frame
    PROVE  /\ RefsIn(Append(xs, x)) = RefsIn(xs) \cup ({x} \ {None})
           /\ Each(xs) /\ x \notin RefsIn(xs) => Each(Append(xs, x))
<1> DEFINE ys == Append(xs, x)
<1>1. /\ ys \in Seq(Frame) /\ Len(ys) = Len(xs) + 1 /\ Len(xs) \in Nat
      /\ ys[Len(xs) + 1] = x /\ \A j \in 1..Len(xs) : ys[j] = xs[j]
  OBVIOUS
<1> HIDE DEF ys
<1>2. \A j \in 1..Len(ys) : j \in 1..Len(xs) \/ j = Len(xs) + 1 BY <1>1
<1>3. \A j \in 1..Len(xs) : j \in 1..Len(ys) BY <1>1
<1>6. Len(xs) + 1 \in 1..Len(ys) BY <1>1
<1>4. RefsIn(ys) = RefsIn(xs) \cup ({x} \ {None})
  <2>1. ASSUME NEW r \in RefsIn(ys) PROVE r \in RefsIn(xs) \cup ({x} \ {None})
    <3>1. PICK j \in 1..Len(ys) : ys[j] = r BY <1>1, RefsInIs
    <3>2. r # None BY <1>1, RefsInIs
    <3> QED BY <1>1, <1>2, <3>1, <3>2, RefsInIs
  <2>2. ASSUME NEW r \in RefsIn(xs) PROVE r \in RefsIn(ys)
    <3>1. PICK j \in 1..Len(xs) : xs[j] = r BY RefsInIs
    <3>2. r # None /\ ys[j] = r BY <1>1, <3>1, RefsInIs
    <3> QED BY <1>1, <1>3, <3>2, RefsInIs
  <2>3. x # None => x \in RefsIn(ys) BY <1>1, <1>6, RefsInIs
  <2> QED BY <2>1, <2>2, <2>3
<1>5. ASSUME Each(xs), x \notin RefsIn(xs), NEW j \in 1..Len(ys), NEW k \in 1..Len(ys),
             ys[j] = ys[k], ys[j] # None
      PROVE  j = k
  <2>1. \A l \in 1..Len(xs) : ys[l] = x /\ x # None => x \in RefsIn(xs) BY <1>1, RefsInIs
  <2>2. CASE j \in 1..Len(xs) /\ k \in 1..Len(xs) BY <1>1, <1>5, <2>2 DEF Each
  <2>3. CASE j = Len(xs) + 1 /\ k \in 1..Len(xs) BY <1>1, <1>5, <2>1, <2>3
  <2>4. CASE j \in 1..Len(xs) /\ k = Len(xs) + 1 BY <1>1, <1>5, <2>1, <2>4
  <2> QED BY <1>2, <2>2, <2>3, <2>4
<1>7. Each(xs) /\ x \notin RefsIn(xs) => Each(ys) BY <1>5 DEF Each
<1> QED BY <1>4, <1>7 DEF ys

\* The last frame of a list taken off.
LEMMA RefsInFront ==
    ASSUME NEW xs \in Seq(Frame), xs # <<>>, Each(xs)
    PROVE  /\ Front(xs) \in Seq(Frame) /\ Len(Front(xs)) = Len(xs) - 1 /\ Last(xs) \in Frame
           /\ Each(Front(xs))
           /\ RefsIn(Front(xs)) = RefsIn(xs) \ {Last(xs)}
           /\ RefsIn(xs) = RefsIn(Front(xs)) \cup ({Last(xs)} \ {None})
<1> DEFINE L == Len(xs)
           ys == Front(xs)
<1>1. L \in Nat /\ L # 0 /\ L \in 1..L /\ Last(xs) = xs[L] /\ xs[L] \in Frame BY DEF Last
<1>2. ys \in Seq(Frame) /\ Len(ys) = L - 1 /\ \A j \in 1..L - 1 : ys[j] = xs[j]
  <2>1. 1 \in Int /\ L - 1 \in Int /\ \A j \in 1..L - 1 : xs[j] \in Frame BY <1>1
  <2>2. ys = SubSeq(xs, 1, L - 1) BY DEF Front
  <2> HIDE DEF ys, L
  <2>3. /\ ys \in Seq(Frame) /\ Len(ys) = IF 1 <= L - 1 THEN L - 1 - 1 + 1 ELSE 0
        /\ \A j \in 1..L - 1 - 1 + 1 : ys[j] = xs[1 + j - 1]
    BY <2>1, <2>2, SubSeqProperties
  <2>4. \A j \in 1..L - 1 : 1 + j - 1 = j /\ j \in 1..L - 1 - 1 + 1 BY <1>1
  <2>5. Len(ys) = L - 1 BY <1>1, <2>3
  <2> QED BY <2>3, <2>4, <2>5
<1> HIDE DEF ys
<1>3. Each(ys) BY <1>1, <1>2 DEF Each
<1>4. ASSUME NEW r \in RefsIn(ys) PROVE r \in RefsIn(xs) /\ r # xs[L]
  <2>1. PICK j \in 1..L - 1 : xs[j] = r BY <1>2, RefsInIs
  <2>2. r # None /\ j \in 1..L /\ j # L BY <1>1, <1>2, <2>1, RefsInIs
  <2> QED BY <1>1, <2>1, <2>2, RefsInIs DEF Each
<1>5. ASSUME NEW r \in RefsIn(xs), r # xs[L] PROVE r \in RefsIn(ys)
  <2>1. PICK j \in 1..L : xs[j] = r BY RefsInIs
  <2>2. r # None /\ j \in 1..L - 1 BY <1>1, <1>5, <2>1, RefsInIs
  <2> QED BY <1>2, <2>1, <2>2, RefsInIs
<1>6. xs[L] # None => xs[L] \in RefsIn(xs) BY <1>1, RefsInIs
<1>7. None \notin RefsIn(xs) BY RefsInIs
<1>8. RefsIn(ys) = RefsIn(xs) \ {xs[L]} BY <1>4, <1>5
<1>9. RefsIn(xs) = RefsIn(ys) \cup ({xs[L]} \ {None}) BY <1>6, <1>7, <1>8
<1> HIDE DEF L
<1>10. ys \in Seq(Frame) /\ Len(ys) = L - 1 BY <1>2
<1> QED BY <1>1, <1>3, <1>8, <1>9, <1>10 DEF ys, L

\* Two lists joined.
LEMMA RefsInConcat ==
    ASSUME NEW xs \in Seq(Frame), NEW ys \in Seq(Frame)
    PROVE  /\ xs \o ys \in Seq(Frame) /\ Len(xs \o ys) = Len(xs) + Len(ys)
           /\ RefsIn(xs \o ys) = RefsIn(xs) \cup RefsIn(ys)
           /\ Each(xs) /\ Each(ys) /\ RefsIn(xs) \cap RefsIn(ys) = {} => Each(xs \o ys)
<1> DEFINE zs == xs \o ys
<1>1. /\ zs \in Seq(Frame) /\ Len(zs) = Len(xs) + Len(ys)
      /\ \A j \in 1..Len(xs) + Len(ys) : zs[j] = IF j <= Len(xs) THEN xs[j] ELSE ys[j - Len(xs)]
  BY ConcatProperties
<1> HIDE DEF zs
<1>2. Len(xs) \in Nat /\ Len(ys) \in Nat OBVIOUS
<1>3. \A j \in 1..Len(zs) : \/ j \in 1..Len(xs) /\ zs[j] = xs[j]
                            \/ j - Len(xs) \in 1..Len(ys) /\ zs[j] = ys[j - Len(xs)]
  BY <1>1, <1>2
<1>4. \A j \in 1..Len(xs) : j \in 1..Len(zs) /\ zs[j] = xs[j] BY <1>1, <1>2
<1>5. ASSUME NEW k \in 1..Len(ys) PROVE k + Len(xs) \in 1..Len(zs) /\ zs[k + Len(xs)] = ys[k]
  <2>1. PICK j \in 1..Len(xs) + Len(ys) : j = k + Len(xs) BY <1>2
  <2>2. ~(j <= Len(xs)) /\ j - Len(xs) = k BY <1>2, <2>1
  <2> QED BY <1>1, <2>1, <2>2
<1>6. ASSUME NEW r PROVE r \in RefsIn(zs) <=> r \in RefsIn(xs) \cup RefsIn(ys)
  <2>1. ASSUME r \in RefsIn(zs) PROVE r \in RefsIn(xs) \cup RefsIn(ys)
    <3>1. PICK j \in 1..Len(zs) : zs[j] = r BY <1>1, <2>1, RefsInIs
    <3>2. r # None BY <1>1, <2>1, RefsInIs
    <3> QED BY <1>3, <3>1, <3>2, RefsInIs
  <2>2. ASSUME r \in RefsIn(xs) PROVE r \in RefsIn(zs)
    <3>1. PICK j \in 1..Len(xs) : xs[j] = r BY <2>2, RefsInIs
    <3> QED BY <1>1, <1>4, <2>2, <3>1, RefsInIs
  <2>3. ASSUME r \in RefsIn(ys) PROVE r \in RefsIn(zs)
    <3>1. PICK j \in 1..Len(ys) : ys[j] = r BY <2>3, RefsInIs
    <3> QED BY <1>1, <1>5, <2>3, <3>1, RefsInIs
  <2> QED BY <2>1, <2>2, <2>3
<1>7. ASSUME Each(xs), Each(ys), RefsIn(xs) \cap RefsIn(ys) = {},
             NEW j \in 1..Len(zs), NEW k \in 1..Len(zs), zs[j] = zs[k], zs[j] # None
      PROVE  j = k
  <2>1. \A l \in 1..Len(xs), m \in 1..Len(ys) : xs[l] = ys[m] => xs[l] = None
    BY <1>7, RefsInIs
  <2>2. CASE j \in 1..Len(xs) /\ zs[j] = xs[j] /\ k \in 1..Len(xs) /\ zs[k] = xs[k]
    BY <1>7, <2>2 DEF Each
  <2>3. CASE /\ j - Len(xs) \in 1..Len(ys) /\ zs[j] = ys[j - Len(xs)]
             /\ k - Len(xs) \in 1..Len(ys) /\ zs[k] = ys[k - Len(xs)]
    <3>1. j - Len(xs) = k - Len(xs) BY <1>7, <2>3 DEF Each
    <3> QED BY <1>2, <3>1
  <2> QED BY <1>3, <1>7, <2>1, <2>2, <2>3
<1>8. RefsIn(zs) = RefsIn(xs) \cup RefsIn(ys) BY <1>6
<1> QED BY <1>1, <1>7, <1>8 DEF zs, Each

\* ys is xs with the frame x in place of the one in slot k.
SlotGets(xs, k, x, ys) ==
    /\ ys \in Seq(Frame) /\ Len(ys) = Len(xs) /\ Each(ys)
    /\ RefsIn(ys) = (RefsIn(xs) \ {xs[k]}) \cup ({x} \ {None})

\* One frame of a list replaced.
LEMMA RefsInExcept ==
    ASSUME NEW xs \in Seq(Frame), NEW k \in 1..Len(xs), NEW x \in Frame,
           Each(xs), x \notin RefsIn(xs) \ {xs[k]}
    PROVE  SlotGets(xs, k, x, [xs EXCEPT ![k] = x])
<1> DEFINE ys == [xs EXCEPT ![k] = x]
<1>1. /\ ys \in Seq(Frame) /\ Len(ys) = Len(xs)
      /\ \A j \in 1..Len(xs) : ys[j] = IF j = k THEN x ELSE xs[j]
  OBVIOUS
<1> HIDE DEF ys
<1>2. ASSUME NEW j \in 1..Len(ys), NEW l \in 1..Len(ys), ys[j] = ys[l], ys[j] # None
      PROVE  j = l
  <2>1. \A v \in 1..Len(xs) : v # k /\ xs[v] # None => xs[v] \in RefsIn(xs) \ {xs[k]}
    BY RefsInIs DEF Each
  <2> QED BY <1>1, <1>2, <2>1 DEF Each
<1>3. ASSUME NEW r PROVE r \in RefsIn(ys) <=> r \in (RefsIn(xs) \ {xs[k]}) \cup ({x} \ {None})
  <2>1. ASSUME r \in RefsIn(ys), r # x PROVE r \in RefsIn(xs) \ {xs[k]}
    <3>1. PICK j \in 1..Len(ys) : ys[j] = r BY <1>1, <2>1, RefsInIs
    <3>2. r # None /\ j # k /\ xs[j] = r BY <1>1, <2>1, <3>1, RefsInIs
    <3> QED BY <1>1, <3>1, <3>2, RefsInIs DEF Each
  <2>2. ASSUME r \in RefsIn(xs) \ {xs[k]} PROVE r \in RefsIn(ys)
    <3>1. PICK j \in 1..Len(xs) : xs[j] = r BY <2>2, RefsInIs
    <3> QED BY <1>1, <2>2, <3>1, RefsInIs
  <2>3. x # None => x \in RefsIn(ys) BY <1>1, RefsInIs
  <2>4. r \in RefsIn(ys) => r # None BY <1>1, RefsInIs
  <2> QED BY <2>1, <2>2, <2>3, <2>4
<1>4. Each(ys) BY <1>2 DEF Each
<1>5. RefsIn(ys) = (RefsIn(xs) \ {xs[k]}) \cup ({x} \ {None}) BY <1>3
<1>6. SlotGets(xs, k, x, ys) BY <1>1, <1>4, <1>5 DEF SlotGets
<1> QED BY <1>6 DEF ys

\* A part of a list.
LEMMA RefsInSub ==
    ASSUME NEW xs \in Seq(Frame), NEW v \in 1..Len(xs) + 1, NEW k \in 0..Len(xs), v <= k + 1
    PROVE  LET ys == SubSeq(xs, v, k) IN
           /\ ys \in Seq(Frame) /\ Len(ys) = k + 1 - v
           /\ \A l \in 1..k + 1 - v : ys[l] = xs[v + l - 1]
           /\ \A r : r \in RefsIn(ys) <=> r # None /\ \E j \in v..k : xs[j] = r
           /\ Each(xs) => Each(ys)
<1> DEFINE ys == SubSeq(xs, v, k)
<1>1. /\ Len(xs) \in Nat /\ v \in Int /\ k \in Int /\ 1 <= v /\ k <= Len(xs)
      /\ \A j \in v..k : j \in 1..Len(xs) /\ xs[j] \in Frame
  OBVIOUS
<1>2. /\ ys \in Seq(Frame) /\ Len(ys) = IF v <= k THEN k - v + 1 ELSE 0
      /\ \A l \in 1..k - v + 1 : ys[l] = xs[v + l - 1]
  BY <1>1, SubSeqProperties
<1> HIDE DEF ys
<1>3. Len(ys) = k + 1 - v /\ k - v + 1 = k + 1 - v BY <1>1, <1>2
<1>4. \A l \in 1..Len(ys) : v + l - 1 \in v..k /\ ys[l] = xs[v + l - 1] BY <1>1, <1>2, <1>3
<1>5. ASSUME NEW j \in v..k PROVE j + 1 - v \in 1..Len(ys) /\ ys[j + 1 - v] = xs[j]
  <2>1. PICK l \in 1..Len(ys) : l = j + 1 - v BY <1>1, <1>3
  <2>2. v + l - 1 = j BY <1>1, <2>1
  <2> QED BY <1>4, <2>1, <2>2
<1>6. \A r : r \in RefsIn(ys) <=> r # None /\ \E j \in v..k : xs[j] = r
  <2> TAKE r
  <2>1. (\E l \in 1..Len(ys) : ys[l] = r) <=> \E j \in v..k : xs[j] = r BY <1>4, <1>5
  <2> QED BY <1>2, <2>1, RefsInIs
<1>7. ASSUME Each(xs), NEW l \in 1..Len(ys), NEW m \in 1..Len(ys), ys[l] = ys[m], ys[l] # None
      PROVE  l = m
  <2>1. v + l - 1 = v + m - 1 BY <1>1, <1>4, <1>7 DEF Each
  <2> QED BY <1>1, <2>1
<1>8. Each(xs) => Each(ys) BY <1>7 DEF Each
<1> QED BY <1>2, <1>3, <1>6, <1>8 DEF ys

\* A list cut in two.
LEMMA RefsInSplit ==
    ASSUME NEW xs \in Seq(Frame), Each(xs), NEW k \in 0..Len(xs)
    PROVE  LET a == SubSeq(xs, 1, k)
               b == SubSeq(xs, k + 1, Len(xs)) IN
           /\ a \in Seq(Frame) /\ Each(a) /\ Len(a) = k
           /\ b \in Seq(Frame) /\ Each(b) /\ Len(b) = Len(xs) - k
           /\ RefsIn(xs) = RefsIn(a) \cup RefsIn(b)
           /\ RefsIn(a) \cap RefsIn(b) = {}
<1> DEFINE a == SubSeq(xs, 1, k)
           b == SubSeq(xs, k + 1, Len(xs))
           L == Len(xs)
<1>1. L \in Nat /\ k \in 0..L /\ 1 \in 1..L + 1 /\ 1 <= k + 1 /\ k + 1 \in 1..L + 1
      /\ L \in 0..L /\ k + 1 <= L + 1
  OBVIOUS
<1>2. /\ a \in Seq(Frame) /\ Each(a) /\ Len(a) = k + 1 - 1
      /\ \A r : r \in RefsIn(a) <=> r # None /\ \E j \in 1..k : xs[j] = r
  BY <1>1, RefsInSub
<1>3. /\ b \in Seq(Frame) /\ Each(b) /\ Len(b) = L + 1 - (k + 1)
      /\ \A r : r \in RefsIn(b) <=> r # None /\ \E j \in k + 1..L : xs[j] = r
  BY <1>1, RefsInSub
<1> HIDE DEF a, b
<1>4. \A j \in 1..L : j \in 1..k \/ j \in k + 1..L BY <1>1
<1>5. /\ \A j \in 1..k : j \in 1..L
      /\ \A j \in k + 1..L : j \in 1..L /\ j \notin 1..k
  BY <1>1
<1>6. RefsIn(xs) = RefsIn(a) \cup RefsIn(b) BY <1>2, <1>3, <1>4, <1>5, RefsInIs
<1>7. RefsIn(a) \cap RefsIn(b) = {}
  <2> SUFFICES ASSUME NEW r \in RefsIn(a), r \in RefsIn(b) PROVE FALSE OBVIOUS
  <2>1. PICK j \in 1..k : xs[j] = r BY <1>2
  <2>2. PICK l \in k + 1..L : xs[l] = r BY <1>3
  <2>3. j = l BY <1>2, <1>5, <2>1, <2>2 DEF Each
  <2> QED BY <1>5, <2>3
<1>8. Len(a) = k /\ Len(b) = L - k BY <1>1, <1>2, <1>3
<1> QED BY <1>2, <1>3, <1>6, <1>7, <1>8 DEF a, b

\* Erase takes a frame without a reference out.
LEMMA RefsInRemove ==
    ASSUME NEW xs \in Seq(Frame), Each(xs), NEW k \in 1..Len(xs)
    PROVE  LET ys == RemoveAt(xs, k) IN
           /\ ys \in Seq(Frame) /\ Len(ys) = Len(xs) - 1 /\ Each(ys)
           /\ xs[k] = None => RefsIn(ys) = RefsIn(xs)
           /\ RefsIn(ys) \subseteq RefsIn(xs)
<1> DEFINE a == SubSeq(xs, 1, k - 1)
           b == SubSeq(xs, k + 1, Len(xs))
           L == Len(xs)
<1>1. /\ L \in Nat /\ k \in 1..L /\ 1 \in 1..L + 1 /\ k - 1 \in 0..L /\ 1 <= (k - 1) + 1
      /\ k + 1 \in 1..L + 1 /\ L \in 0..L /\ k + 1 <= L + 1
  OBVIOUS
<1>2. /\ a \in Seq(Frame) /\ Each(a) /\ Len(a) = (k - 1) + 1 - 1
      /\ \A r : r \in RefsIn(a) <=> r # None /\ \E j \in 1..k - 1 : xs[j] = r
  BY <1>1, RefsInSub
<1>3. /\ b \in Seq(Frame) /\ Each(b) /\ Len(b) = L + 1 - (k + 1)
      /\ \A r : r \in RefsIn(b) <=> r # None /\ \E j \in k + 1..L : xs[j] = r
  BY <1>1, RefsInSub
<1> HIDE DEF a, b
<1>4. \A j \in 1..L : j \in 1..k - 1 \/ j \in k + 1..L \/ j = k BY <1>1
<1>5. /\ \A j \in 1..k - 1 : j \in 1..L
      /\ \A j \in k + 1..L : j \in 1..L /\ j \notin 1..k - 1
  BY <1>1
<1>6. RefsIn(xs) \cup {xs[k]} = RefsIn(a) \cup RefsIn(b) \cup {xs[k]}
  BY <1>1, <1>2, <1>3, <1>4, <1>5, RefsInIs
<1>7. RefsIn(a) \cap RefsIn(b) = {}
  <2> SUFFICES ASSUME NEW r \in RefsIn(a), r \in RefsIn(b) PROVE FALSE OBVIOUS
  <2>1. PICK j \in 1..k - 1 : xs[j] = r BY <1>2
  <2>2. PICK l \in k + 1..L : xs[l] = r BY <1>3
  <2>3. j = l BY <1>2, <1>5, <2>1, <2>2 DEF Each
  <2> QED BY <1>5, <2>3
<1>8. RefsIn(a) \cup RefsIn(b) \subseteq RefsIn(xs) BY <1>2, <1>3, <1>5, RefsInIs
<1>9. None \notin RefsIn(xs) BY RefsInIs
<1>10. RemoveAt(xs, k) = a \o b BY DEF RemoveAt, a, b
<1>11. /\ a \o b \in Seq(Frame) /\ Len(a \o b) = Len(a) + Len(b) /\ Each(a \o b)
       /\ RefsIn(a \o b) = RefsIn(a) \cup RefsIn(b)
  BY <1>2, <1>3, <1>7, RefsInConcat
<1>12. Len(a) + Len(b) = L - 1 BY <1>1, <1>2, <1>3
<1>13. xs[k] = None => RefsIn(xs) = RefsIn(a) \cup RefsIn(b) BY <1>6, <1>8, <1>9
<1> QED BY <1>8, <1>10, <1>11, <1>12, <1>13

\* A list whose first frames were sent.
LEMMA RefsInSent ==
    ASSUME NEW xs \in Seq(Frame), Each(xs), NEW b \in Int, NEW k \in Int
    PROVE  LET ys == [j \in DOMAIN xs |-> IF b + j <= k THEN None ELSE xs[j]] IN
           /\ ys \in Seq(Frame) /\ Len(ys) = Len(xs) /\ Each(ys)
           /\ \A r : r \in RefsIn(ys) <=> r # None /\ \E j \in 1..Len(xs) : b + j > k /\ xs[j] = r
<1> DEFINE ys == [j \in DOMAIN xs |-> IF b + j <= k THEN None ELSE xs[j]]
<1>1. /\ Len(xs) \in Nat /\ DOMAIN xs = 1..Len(xs) /\ DOMAIN ys = 1..Len(xs)
      /\ \A j \in 1..Len(xs) : /\ xs[j] \in Frame /\ ys[j] \in Frame
                               /\ b + j <= k => ys[j] = None
                               /\ ~(b + j <= k) => ys[j] = xs[j]
  BY DEF Frame
<1>2. ys \in [1..Len(xs) -> Frame] BY <1>1
<1>3. ys \in Seq(Frame) /\ Len(ys) = Len(xs)
  <2> HIDE DEF ys
  <2> QED BY <1>1, <1>2
<1> HIDE DEF ys
<1>4. Each(ys) BY <1>1, <1>3 DEF Each
<1>5. ASSUME NEW r PROVE r \in RefsIn(ys) <=> r # None /\ \E j \in 1..Len(xs) : b + j > k /\ xs[j] = r
  <2>1. \A j \in 1..Len(xs) : b + j <= k \/ b + j > k BY <1>1
  <2>2. \A j \in 1..Len(xs) : ~(b + j <= k /\ b + j > k) BY <1>1
  <2> QED BY <1>1, <1>3, <2>1, <2>2, RefsInIs
<1> QED BY <1>3, <1>4, <1>5 DEF ys

\* A list turned round.
LEMMA RefsInReverse ==
    ASSUME NEW xs \in Seq(Frame), Each(xs)
    PROVE  /\ Reverse(xs) \in Seq(Frame) /\ Len(Reverse(xs)) = Len(xs)
           /\ Each(Reverse(xs)) /\ RefsIn(Reverse(xs)) = RefsIn(xs)
<1> DEFINE ys == Reverse(xs)
           L == Len(xs)
<1>1. L \in Nat /\ ys = [j \in 1..L |-> xs[(L - j) + 1]] BY DEF Reverse
<1>2. \A j \in 1..L : (L - j) + 1 \in 1..L /\ (L - ((L - j) + 1)) + 1 = j BY <1>1
<1>3. ys \in Seq(Frame) /\ Len(ys) = L
  <2>1. ys \in [1..L -> Frame] BY <1>1, <1>2
  <2> HIDE DEF ys
  <2> QED BY <1>1, <2>1
<1>4. \A j \in 1..L : ys[j] = xs[(L - j) + 1] BY <1>1
<1> HIDE DEF ys
<1>5. ASSUME NEW j \in 1..L, NEW k \in 1..L, ys[j] = ys[k], ys[j] # None PROVE j = k
  <2>1. (L - j) + 1 = (L - k) + 1 BY <1>2, <1>4, <1>5 DEF Each
  <2> QED BY <1>1, <2>1
<1>6. ASSUME NEW r PROVE r \in RefsIn(ys) <=> r \in RefsIn(xs)
  <2>1. ASSUME NEW j \in 1..L, ys[j] = r PROVE \E k \in 1..L : xs[k] = r BY <1>2, <1>4, <2>1
  <2>2. ASSUME NEW k \in 1..L, xs[k] = r PROVE \E j \in 1..L : ys[j] = r
    <3>1. PICK j \in 1..L : j = (L - k) + 1 BY <1>2
    <3>2. (L - j) + 1 = k BY <1>1, <3>1
    <3> QED BY <1>4, <2>2, <3>2
  <2> QED BY <1>3, <2>1, <2>2, RefsInIs
<1>7. Each(ys) BY <1>3, <1>5 DEF Each
<1>8. RefsIn(ys) = RefsIn(xs) BY <1>6
<1> QED BY <1>3, <1>7, <1>8 DEF ys

\* Two frames of a list swapped.
LEMMA RefsInSwap ==
    ASSUME NEW xs \in Seq(Frame), Each(xs), NEW v \in 1..Len(xs), NEW k \in 1..Len(xs)
    PROVE  LET ys == [xs EXCEPT ![v] = xs[k], ![k] = xs[v]] IN
           /\ ys \in Seq(Frame) /\ Len(ys) = Len(xs) /\ Each(ys) /\ RefsIn(ys) = RefsIn(xs)
<1> DEFINE ys == [xs EXCEPT ![v] = xs[k], ![k] = xs[v]]
           L == Len(xs)
<1>1. /\ ys \in Seq(Frame) /\ Len(ys) = L
      /\ \A j \in 1..L : ys[j] = IF j = k THEN xs[v] ELSE IF j = v THEN xs[k] ELSE xs[j]
  OBVIOUS
<1> HIDE DEF ys
<1>2. Each(ys)
  <2> SUFFICES ASSUME NEW j \in 1..L, NEW l \in 1..L, ys[j] = ys[l], ys[j] # None PROVE j = l
    BY <1>1 DEF Each
  <2> QED BY <1>1 DEF Each
<1>3. ASSUME NEW r PROVE r \in RefsIn(ys) <=> r \in RefsIn(xs)
  <2>1. ASSUME NEW j \in 1..L, ys[j] = r PROVE \E l \in 1..L : xs[l] = r BY <1>1, <2>1
  <2>2. ASSUME NEW l \in 1..L, xs[l] = r PROVE \E j \in 1..L : ys[j] = r BY <1>1, <2>2
  <2> QED BY <1>1, <2>1, <2>2, RefsInIs
<1>4. RefsIn(ys) = RefsIn(xs) BY <1>3
<1> QED BY <1>1, <1>2, <1>4 DEF ys

-----------------------------------------------------------------------------
(* Frames that change places.                                              *)

\* The lists D of F exchange, lose and gain frames: the others keep theirs.
Exchanged(F, G, L, M, D, lost, new) ==
    /\ Partition(F, L)
    /\ new \cap L = {} /\ M = (L \ lost) \cup new
    /\ \A h \in Holders \ D : G[h] = F[h]
    /\ \A h \in D : G[h] \in Seq(Frame) /\ Each(G[h])
    /\ \A g, h \in D : g # h => RefsIn(G[g]) \cap RefsIn(G[h]) = {}
    /\ UNION {RefsIn(G[h]) : h \in D} = ((UNION {RefsIn(F[h]) : h \in D}) \ lost) \cup new
    /\ lost \cap L \subseteq UNION {RefsIn(F[h]) : h \in D}

LEMMA Exchange ==
    ASSUME NEW F, NEW G, NEW L, NEW M, NEW D \in SUBSET Holders, NEW lost, NEW new,
           Exchanged(F, G, L, M, D, lost, new)
    PROVE  Partition(G, M)
<1> USE DEF Exchanged
<1>1. /\ \A h \in D : \A r : r \in RefsIn(G[h]) =>
                \/ r \in new
                \/ r \notin lost /\ \E g \in D : r \in RefsIn(F[g])
      /\ \A r : \/ r \in new
                \/ r \notin lost /\ \E g \in D : r \in RefsIn(F[g])
                => \E h \in D : r \in RefsIn(G[h])
      /\ \A r \in lost \cap L : \E g \in D : r \in RefsIn(F[g])
  OBVIOUS
<1>2. ASSUME NEW h \in Holders
      PROVE  G[h] \in Seq(Frame) /\ Each(G[h]) /\ RefsIn(G[h]) \subseteq M
  <2>1. CASE h \in D BY <1>1, <2>1 DEF Partition
  <2>2. CASE h \notin D
    <3>1. G[h] = F[h] BY <2>2
    <3>2. ASSUME NEW r \in RefsIn(F[h]) PROVE r \in M
      <4>1. r \in L BY DEF Partition
      <4>2. \A g \in D : r \notin RefsIn(F[g]) BY <2>2 DEF Partition
      <4> QED BY <1>1, <4>1, <4>2
    <3> QED BY <3>1, <3>2 DEF Partition
  <2> QED BY <2>1, <2>2
<1>3. ASSUME NEW g \in Holders, NEW h \in Holders, g # h
      PROVE  RefsIn(G[g]) \cap RefsIn(G[h]) = {}
  <2>1. CASE g \in D /\ h \in D BY <1>3, <2>1
  <2>2. ASSUME NEW v \in D, NEW j \in Holders \ D, NEW r \in RefsIn(G[v]), r \in RefsIn(G[j])
        PROVE  FALSE
    <3>1. r \in RefsIn(F[j]) /\ r \in L BY <2>2 DEF Partition
    <3>2. PICK k \in D : r \in RefsIn(F[k]) BY <1>1, <3>1
    <3> QED BY <3>1, <3>2 DEF Partition
  <2>3. CASE g \notin D /\ h \notin D BY <1>3, <2>3 DEF Partition
  <2> QED BY <2>1, <2>2, <2>3
<1>4. ASSUME NEW r \in M PROVE \E h \in Holders : r \in RefsIn(G[h])
  <2>1. CASE r \in new BY <1>1, <2>1
  <2>2. CASE r \in L /\ r \notin lost
    <3>1. PICK h \in Holders : r \in RefsIn(F[h]) BY <2>2 DEF Partition
    <3>2. CASE h \in D BY <1>1, <2>2, <3>1, <3>2
    <3>3. CASE h \notin D BY <3>1, <3>3
    <3> QED BY <3>2, <3>3
  <2> QED BY <2>1, <2>2
<1> QED BY <1>2, <1>3, <1>4 DEF Partition

LEMMA ExchangeOne ==
    ASSUME NEW F, NEW G, NEW L, NEW M, NEW h \in Holders, NEW lost, NEW new,
           Partition(F, L), new \cap L = {}, M = (L \ lost) \cup new,
           \A g \in Holders \ {h} : G[g] = F[g],
           G[h] \in Seq(Frame) /\ Each(G[h]),
           RefsIn(G[h]) = (RefsIn(F[h]) \ lost) \cup new,
           lost \cap L \subseteq RefsIn(F[h])
    PROVE  Partition(G, M)
<1> DEFINE D == {h}
<1>1. D \in SUBSET Holders OBVIOUS
<1>2. UNION {RefsIn(G[g]) : g \in D} = RefsIn(G[h]) /\ UNION {RefsIn(F[g]) : g \in D} = RefsIn(F[h])
  OBVIOUS
<1>3. \A f, g \in D : f = g OBVIOUS
<1>4. /\ \A g \in Holders \ D : G[g] = F[g]
      /\ \A g \in D : G[g] \in Seq(Frame) /\ Each(G[g])
      /\ \A f, g \in D : f # g => RefsIn(G[f]) \cap RefsIn(G[g]) = {}
      /\ UNION {RefsIn(G[g]) : g \in D} = ((UNION {RefsIn(F[g]) : g \in D}) \ lost) \cup new
      /\ lost \cap L \subseteq UNION {RefsIn(F[g]) : g \in D}
  <2> HIDE DEF D
  <2>1. \A g \in D : g = h BY DEF D
  <2>2. \A g \in Holders \ D : G[g] = F[g] BY DEF D
  <2> QED BY <1>2, <1>3, <2>1, <2>2
<1>5. Exchanged(F, G, L, M, D, lost, new) BY <1>4 DEF Exchanged
<1> HIDE DEF D
<1> QED BY <1>1, <1>5, Exchange

LEMMA ExchangeTwo ==
    ASSUME NEW F, NEW G, NEW L, NEW M, NEW g \in Holders, NEW h \in Holders, g # h,
           NEW lost, NEW new,
           Partition(F, L), new \cap L = {}, M = (L \ lost) \cup new,
           \A f \in Holders \ {g, h} : G[f] = F[f],
           G[g] \in Seq(Frame) /\ Each(G[g]),
           G[h] \in Seq(Frame) /\ Each(G[h]),
           RefsIn(G[g]) \cap RefsIn(G[h]) = {},
           RefsIn(G[g]) \cup RefsIn(G[h]) = ((RefsIn(F[g]) \cup RefsIn(F[h])) \ lost) \cup new,
           lost \cap L \subseteq RefsIn(F[g]) \cup RefsIn(F[h])
    PROVE  Partition(G, M)
<1> DEFINE D == {g, h}
<1>1. D \in SUBSET Holders OBVIOUS
<1>2. /\ UNION {RefsIn(G[f]) : f \in D} = RefsIn(G[g]) \cup RefsIn(G[h])
      /\ UNION {RefsIn(F[f]) : f \in D} = RefsIn(F[g]) \cup RefsIn(F[h])
  OBVIOUS
<1>4. /\ \A f \in Holders \ D : G[f] = F[f]
      /\ \A f \in D : G[f] \in Seq(Frame) /\ Each(G[f])
      /\ \A e, f \in D : e # f => RefsIn(G[e]) \cap RefsIn(G[f]) = {}
      /\ UNION {RefsIn(G[f]) : f \in D} = ((UNION {RefsIn(F[f]) : f \in D}) \ lost) \cup new
      /\ lost \cap L \subseteq UNION {RefsIn(F[f]) : f \in D}
  <2> HIDE DEF D
  <2>1. \A f \in D : f = g \/ f = h BY DEF D
  <2>2. \A f \in Holders \ D : G[f] = F[f] BY DEF D
  <2>3. RefsIn(G[h]) \cap RefsIn(G[g]) = {} OBVIOUS
  <2>4. \A e, f \in D : e # f => RefsIn(G[e]) \cap RefsIn(G[f]) = {} BY <2>1, <2>3
  <2> QED BY <1>2, <2>1, <2>2, <2>4
<1>5. Exchanged(F, G, L, M, D, lost, new) BY <1>4 DEF Exchanged
<1> HIDE DEF D
<1> QED BY <1>1, <1>5, Exchange

\* The frames of a path's three lists.
ExchangedPath(F, G, L, M, p, lost, new) ==
    /\ Partition(F, L)
    /\ new \cap L = {} /\ M = (L \ lost) \cup new
    /\ \A h \in Holders : (\A n \in FrameLists : h # PathHold(p, n)) => G[h] = F[h]
    /\ \A n \in FrameLists : G[PathHold(p, n)] \in Seq(Frame) /\ Each(G[PathHold(p, n)])
    /\ \A m, n \in FrameLists : m # n =>
            RefsIn(G[PathHold(p, m)]) \cap RefsIn(G[PathHold(p, n)]) = {}
    /\ \A r : (\E n \in FrameLists : r \in RefsIn(G[PathHold(p, n)])) <=>
            \/ r \in new
            \/ r \notin lost /\ \E n \in FrameLists : r \in RefsIn(F[PathHold(p, n)])
    /\ \A r \in lost \cap L : \E n \in FrameLists : r \in RefsIn(F[PathHold(p, n)])

LEMMA ExchangePath ==
    ASSUME NEW F, NEW G, NEW L, NEW M, NEW p \in Paths, NEW lost, NEW new,
           ExchangedPath(F, G, L, M, p, lost, new)
    PROVE  Partition(G, M)
<1> USE DEF ExchangedPath
<1> DEFINE D == {PathHold(p, n) : n \in FrameLists}
<1>1. D \in SUBSET Holders BY DEF Holders
<1>2. /\ \A r : r \in UNION {RefsIn(G[f]) : f \in D}
                    <=> \E n \in FrameLists : r \in RefsIn(G[PathHold(p, n)])
      /\ \A r : r \in UNION {RefsIn(F[f]) : f \in D}
                    <=> \E n \in FrameLists : r \in RefsIn(F[PathHold(p, n)])
  OBVIOUS
<1>3. \A h \in D : \E n \in FrameLists : h = PathHold(p, n) OBVIOUS
<1>4. \A h \in Holders \ D : G[h] = F[h] OBVIOUS
<1>5. \A e, f \in D : e # f => RefsIn(G[e]) \cap RefsIn(G[f]) = {} OBVIOUS
<1> HIDE DEF D
<1>6. UNION {RefsIn(G[f]) : f \in D} = ((UNION {RefsIn(F[f]) : f \in D}) \ lost) \cup new BY <1>2
<1>7. lost \cap L \subseteq UNION {RefsIn(F[f]) : f \in D} BY <1>2
<1>8. \A h \in D : G[h] \in Seq(Frame) /\ Each(G[h]) BY <1>3
<1>9. Exchanged(F, G, L, M, D, lost, new) BY <1>4, <1>5, <1>6, <1>7, <1>8 DEF Exchanged
<1> QED BY <1>1, <1>9, Exchange

-----------------------------------------------------------------------------
(* What the objects hold.                                                  *)

HoldIs ==
    /\ \A p \in Paths, n \in FrameLists : /\ PathHold(p, n) \in Holders
                                          /\ Held[PathHold(p, n)] = paths[p].msgs[n]
    /\ \A s \in Stacks : /\ StackHold(s) \in Holders
                         /\ Owner(s) => Held[StackHold(s)] = stacks[s].msgs
                         /\ ~Owner(s) => Held[StackHold(s)] = <<>>
    /\ \A m \in Messages : /\ MessageHold(m) \in Holders
                           /\ Held[MessageHold(m)] = <<messages[m].msg>>
    /\ HandHold \in Holders /\ Held[HandHold] = <<hand>>

LEMMA HeldIs == HoldIs /\ HoldIs'
<1> DEFINE V(h, ps, ss, ms, x) ==
        IF h[1] = "path" THEN ps[h[2]].msgs[h[3]]
        ELSE IF h[1] = "stack" THEN IF ~ss[h[2]].notClose THEN ss[h[2]].msgs ELSE <<>>
        ELSE IF h[1] = "message" THEN <<ms[h[2]].msg>>
        ELSE <<x>>
<1>1. ASSUME NEW ps, NEW ss, NEW ms, NEW x
      PROVE  /\ \A p, n : V(PathHold(p, n), ps, ss, ms, x) = ps[p].msgs[n]
             /\ \A s : V(StackHold(s), ps, ss, ms, x) =
                            IF ~ss[s].notClose THEN ss[s].msgs ELSE <<>>
             /\ \A m : V(MessageHold(m), ps, ss, ms, x) = <<ms[m].msg>>
             /\ V(HandHold, ps, ss, ms, x) = <<x>>
  BY DEF PathHold, StackHold, MessageHold, HandHold
<1>2. /\ Held = [h \in Holders |-> V(h, paths, stacks, messages, hand)]
      /\ Held' = [h \in Holders |-> V(h, paths', stacks', messages', hand')]
  BY DEF Held, Owner
<1>3. /\ \A p \in Paths, n \in FrameLists : PathHold(p, n) \in Holders
      /\ \A s \in Stacks : StackHold(s) \in Holders
      /\ \A m \in Messages : MessageHold(m) \in Holders
      /\ HandHold \in Holders
  BY DEF Holders
<1> HIDE DEF V
<1>4. /\ \A h \in Holders : Held[h] = V(h, paths, stacks, messages, hand)
      /\ \A h \in Holders : Held'[h] = V(h, paths', stacks', messages', hand')
  BY <1>2
<1>5. HoldIs BY <1>1, <1>3, <1>4 DEF HoldIs, Owner
<1>6. HoldIs' BY <1>1, <1>3, <1>4 DEF HoldIs, Owner
<1> QED BY <1>5, <1>6

LEMMA HolderKinds ==
    /\ \A h \in Holders : \/ \E p \in Paths, n \in FrameLists : h = PathHold(p, n)
                          \/ \E s \in Stacks : h = StackHold(s)
                          \/ \E m \in Messages : h = MessageHold(m)
                          \/ h = HandHold
    /\ \A p, n, q, m : PathHold(p, n) = PathHold(q, m) => p = q /\ n = m
    /\ \A s, t : StackHold(s) = StackHold(t) => s = t
    /\ \A s, t : MessageHold(s) = MessageHold(t) => s = t
    /\ \A p, n, s, m : /\ PathHold(p, n) # StackHold(s) /\ PathHold(p, n) # MessageHold(m)
                       /\ PathHold(p, n) # HandHold /\ StackHold(s) # MessageHold(m)
                       /\ StackHold(s) # HandHold /\ MessageHold(m) # HandHold
<1>1. \A h \in Holders : \/ \E p \in Paths, n \in FrameLists : h = PathHold(p, n)
                         \/ \E s \in Stacks : h = StackHold(s)
                         \/ \E m \in Messages : h = MessageHold(m)
                         \/ h = HandHold
  BY DEF Holders
<1> QED BY <1>1 DEF PathHold, StackHold, MessageHold, HandHold

\* A list is the same if what it is the list of has not changed.
LEMMA SameHeld ==
    ASSUME NEW h \in Holders,
           \A p \in Paths, n \in FrameLists : h = PathHold(p, n) => paths'[p].msgs[n] = paths[p].msgs[n],
           \A s \in Stacks : h = StackHold(s) => stacks'[s] = stacks[s],
           \A m \in Messages : h = MessageHold(m) => messages'[m].msg = messages[m].msg,
           h = HandHold => hand' = hand
    PROVE  Held'[h] = Held[h]
<1>1. HoldIs /\ HoldIs' BY HeldIs
<1>2. CASE \E p \in Paths, n \in FrameLists : h = PathHold(p, n)
  <2>1. PICK p \in Paths, n \in FrameLists : h = PathHold(p, n) BY <1>2
  <2> QED BY <1>1, <2>1 DEF HoldIs
<1>3. CASE \E s \in Stacks : h = StackHold(s)
  <2>1. PICK s \in Stacks : h = StackHold(s) BY <1>3
  <2>2. Owner(s)' = Owner(s) BY <2>1 DEF Owner
  <2> QED BY <1>1, <2>1, <2>2 DEF HoldIs
<1>4. CASE \E m \in Messages : h = MessageHold(m)
  <2>1. PICK m \in Messages : h = MessageHold(m) BY <1>4
  <2> QED BY <1>1, <2>1 DEF HoldIs
<1>5. CASE h = HandHold BY <1>1, <1>5 DEF HoldIs
<1> QED BY <1>2, <1>3, <1>4, <1>5, HolderKinds

-----------------------------------------------------------------------------
(* One list changes.                                                       *)

LEMMA ListTypes ==
    ASSUME FramesTypeOK
    PROVE  /\ \A p \in Paths, n \in FrameLists :
                 /\ paths[p].msgs[n] \in Seq(Frame) /\ paths[p].msgs[n] \in FrameSeqs
                 /\ Len(paths[p].msgs[n]) \in Nat /\ DOMAIN paths[p].msgs[n] = 1..Len(paths[p].msgs[n])
                 /\ Len(paths[p].msgs[n]) <= ListMax
           /\ \A s \in Stacks :
                 /\ stacks[s].msgs \in Seq(Frame) /\ stacks[s].msgs \in FrameSeqs
                 /\ Len(stacks[s].msgs) \in Nat /\ DOMAIN stacks[s].msgs = 1..Len(stacks[s].msgs)
                 /\ Len(stacks[s].msgs) <= ListMax
           /\ \A m \in Messages : messages[m].msg \in Frame
           /\ hand \in Frame
           /\ 0 \in FrameLists /\ 1 \in FrameLists /\ 2 \in FrameLists
BY DEF FramesTypeOK, FrameSeqs, FrameLists

LEMMA ListParts ==
    ASSUME FramesIInv
    PROVE  /\ \A p \in Paths, n \in FrameLists :
                 /\ Each(paths[p].msgs[n]) /\ RefsIn(paths[p].msgs[n]) \subseteq live
           /\ \A s \in Stacks : Owner(s) =>
                 /\ Each(stacks[s].msgs) /\ RefsIn(stacks[s].msgs) \subseteq live
           /\ \A m \in Messages : {messages[m].msg} \ {None} \subseteq live
           /\ {hand} \ {None} \subseteq live
<1>1. HoldIs /\ Partition(Held, live) BY HeldIs DEF FramesIInv
<1>2. \A h \in Holders : Each(Held[h]) /\ RefsIn(Held[h]) \subseteq live BY <1>1 DEF Partition
<1>3. \A m \in Messages : RefsIn(<<messages[m].msg>>) = {messages[m].msg} \ {None}
  BY ListTypes, RefsInOne DEF FramesIInv
<1>4. RefsIn(<<hand>>) = {hand} \ {None} BY ListTypes, RefsInOne DEF FramesIInv
<1> QED BY <1>1, <1>2, <1>3, <1>4 DEF HoldIs

LEMMA PathKeeps ==
    ASSUME FramesIInv, NEW p \in Paths, NEW n \in FrameLists, NEW ys \in FrameSeqs, Each(ys),
           paths' = [paths EXCEPT ![p].msgs[n] = ys], UNCHANGED <<stacks, messages, hand>>,
           NEW lost, NEW new \in SUBSET Refs, new \cap live = {}, live' = (live \ lost) \cup new,
           RefsIn(ys) = (RefsIn(paths[p].msgs[n]) \ lost) \cup new,
           lost \cap live \subseteq RefsIn(paths[p].msgs[n]), Ready(p) \/ new = {}
    PROVE  FramesIInv'
<1>1. FramesTypeOK'
  <2>1. paths' \in [Paths -> [msgs : [FrameLists -> FrameSeqs], need_close : BOOLEAN]]
    BY DEF FramesIInv, FramesTypeOK
  <2>2. live' \in SUBSET Refs BY DEF FramesIInv, FramesTypeOK
  <2> QED BY <2>1, <2>2 DEF FramesIInv, FramesTypeOK
<1>2. /\ paths'[p].msgs[n] = ys
      /\ \A q \in Paths, m \in FrameLists : q # p \/ m # n => paths'[q].msgs[m] = paths[q].msgs[m]
      /\ \A q \in Paths : paths'[q].need_close = paths[q].need_close
  BY DEF FramesIInv, FramesTypeOK
<1>3. SentEmpty'
  <2>1. ASSUME NEW q \in Paths, ~paths'[q].need_close, NEW m \in FrameLists
        PROVE  RefsIn(paths'[q].msgs[m]) = {}
    BY <1>2, <2>1 DEF FramesIInv, SentEmpty, Ready
  <2>2. ASSUME NEW m \in Messages, ~messages'[m].need_close PROVE messages'[m].msg = None
    BY <2>2 DEF FramesIInv, SentEmpty
  <2> QED BY <2>1, <2>2 DEF SentEmpty, Ready
<1>4. Partition(Held', live')
  <2> DEFINE h == PathHold(p, n)
  <2>1. \A g \in Holders \ {h} : Held'[g] = Held[g]
    <3> TAKE g \in Holders \ {h}
    <3>1. \A q \in Paths, m \in FrameLists : g = PathHold(q, m) => paths'[q].msgs[m] = paths[q].msgs[m]
      BY <1>2
    <3> QED BY <3>1, SameHeld
  <2>2. h \in Holders /\ Held[h] = paths[p].msgs[n] /\ Held'[h] = ys BY <1>2, HeldIs DEF HoldIs
  <2> HIDE DEF h
  <2>3. Held'[h] \in Seq(Frame) /\ Each(Held'[h]) BY <2>2 DEF FrameSeqs
  <2>4. Partition(Held, live) BY DEF FramesIInv
  <2>5. /\ RefsIn(Held'[h]) = (RefsIn(Held[h]) \ lost) \cup new
        /\ lost \cap live \subseteq RefsIn(Held[h])
    BY <2>2
  <2> QED BY <2>1, <2>2, <2>3, <2>4, <2>5, ExchangeOne
<1> QED BY <1>1, <1>3, <1>4 DEF FramesIInv

\* The references that a stack closes when it ends.
LEMMA StackKeeps ==
    ASSUME FramesIInv, NEW s \in Stacks, NEW ys \in FrameSeqs, NEW c \in BOOLEAN,
           stacks' = [stacks EXCEPT ![s] = [msgs |-> ys, notClose |-> c]],
           UNCHANGED <<paths, messages, hand>>,
           NEW lost, NEW new \in SUBSET Refs, new \cap live = {}, live' = (live \ lost) \cup new,
           ~c => Each(ys),
           IF c THEN {} = (RefsIn(Held[StackHold(s)]) \ lost) \cup new
                ELSE RefsIn(ys) = (RefsIn(Held[StackHold(s)]) \ lost) \cup new,
           lost \cap live \subseteq RefsIn(Held[StackHold(s)])
    PROVE  FramesIInv'
<1>1. FramesTypeOK'
  <2>1. stacks' \in [Stacks -> [msgs : FrameSeqs, notClose : BOOLEAN]]
    BY DEF FramesIInv, FramesTypeOK
  <2>2. live' \in SUBSET Refs BY DEF FramesIInv, FramesTypeOK
  <2> QED BY <2>1, <2>2 DEF FramesIInv, FramesTypeOK
<1>2. /\ stacks'[s].msgs = ys /\ stacks'[s].notClose = c
      /\ \A t \in Stacks : t # s => stacks'[t] = stacks[t]
  BY DEF FramesIInv, FramesTypeOK
<1>3. SentEmpty' BY DEF FramesIInv, SentEmpty, Ready
<1>4. Partition(Held', live')
  <2> DEFINE h == StackHold(s)
  <2>1. \A g \in Holders \ {h} : Held'[g] = Held[g]
    <3> TAKE g \in Holders \ {h}
    <3>1. \A t \in Stacks : g = StackHold(t) => stacks'[t] = stacks[t] BY <1>2
    <3> QED BY <3>1, SameHeld
  <2>2. h \in Holders /\ (c => Held'[h] = <<>>) /\ (~c => Held'[h] = ys)
    <3>1. Owner(s)' = ~c BY <1>2 DEF Owner
    <3> QED BY <1>2, <3>1, HeldIs DEF HoldIs
  <2>3. /\ Held'[h] \in Seq(Frame) /\ Each(Held'[h])
        /\ RefsIn(Held'[h]) = (RefsIn(Held[h]) \ lost) \cup new
    BY <2>2, RefsInNone DEF FrameSeqs
  <2> HIDE DEF h
  <2>4. Partition(Held, live) BY DEF FramesIInv
  <2>5. lost \cap live \subseteq RefsIn(Held[h]) BY DEF h
  <2> QED BY <2>1, <2>2, <2>3, <2>4, <2>5, ExchangeOne
<1> QED BY <1>1, <1>3, <1>4 DEF FramesIInv

LEMMA MessageKeeps ==
    ASSUME FramesIInv, NEW m \in Messages, NEW x \in Frame, NEW c \in BOOLEAN,
           messages' = [messages EXCEPT ![m] = [msg |-> x, need_close |-> c]],
           UNCHANGED <<paths, stacks, hand>>, c \/ x = None,
           NEW lost, NEW new \in SUBSET Refs, new \cap live = {}, live' = (live \ lost) \cup new,
           {x} \ {None} = (({messages[m].msg} \ {None}) \ lost) \cup new,
           lost \cap live \subseteq {messages[m].msg} \ {None}
    PROVE  FramesIInv'
<1>1. FramesTypeOK'
  <2>1. messages' \in [Messages -> [msg : Frame, need_close : BOOLEAN]]
    BY DEF FramesIInv, FramesTypeOK
  <2>2. live' \in SUBSET Refs BY DEF FramesIInv, FramesTypeOK
  <2> QED BY <2>1, <2>2 DEF FramesIInv, FramesTypeOK
<1>2. /\ messages'[m].msg = x /\ messages'[m].need_close = c
      /\ \A k \in Messages : k # m => messages'[k] = messages[k]
  BY DEF FramesIInv, FramesTypeOK
<1>3. SentEmpty'
  <2>1. ASSUME NEW k \in Messages, ~messages'[k].need_close PROVE messages'[k].msg = None
    BY <1>2, <2>1 DEF FramesIInv, SentEmpty
  <2> QED BY <2>1 DEF FramesIInv, SentEmpty, Ready
<1>4. Partition(Held', live')
  <2> DEFINE h == MessageHold(m)
  <2>1. \A g \in Holders \ {h} : Held'[g] = Held[g]
    <3> TAKE g \in Holders \ {h}
    <3>1. \A k \in Messages : g = MessageHold(k) => messages'[k].msg = messages[k].msg BY <1>2
    <3> QED BY <3>1, SameHeld
  <2>2. h \in Holders /\ Held[h] = <<messages[m].msg>> /\ Held'[h] = <<x>>
    BY <1>2, HeldIs DEF HoldIs
  <2>3. /\ Held'[h] \in Seq(Frame) /\ Each(Held'[h]) /\ RefsIn(Held'[h]) = {x} \ {None}
        /\ RefsIn(Held[h]) = {messages[m].msg} \ {None}
    BY <2>2, RefsInOne, ListTypes DEF FramesIInv
  <2> HIDE DEF h
  <2>4. Partition(Held, live) BY DEF FramesIInv
  <2>5. /\ RefsIn(Held'[h]) = (RefsIn(Held[h]) \ lost) \cup new
        /\ lost \cap live \subseteq RefsIn(Held[h])
    BY <2>3
  <2> QED BY <2>1, <2>2, <2>3, <2>4, <2>5, ExchangeOne
<1> QED BY <1>1, <1>3, <1>4 DEF FramesIInv

LEMMA HandKeeps ==
    ASSUME FramesIInv, NEW x \in Frame, hand' = x,
           UNCHANGED <<paths, stacks, messages>>,
           NEW lost, NEW new \in SUBSET Refs, new \cap live = {}, live' = (live \ lost) \cup new,
           {x} \ {None} = (({hand} \ {None}) \ lost) \cup new,
           lost \cap live \subseteq {hand} \ {None}
    PROVE  FramesIInv'
<1>1. FramesTypeOK' BY DEF FramesIInv, FramesTypeOK
<1>3. SentEmpty' BY DEF FramesIInv, SentEmpty, Ready
<1>4. Partition(Held', live')
  <2> DEFINE h == HandHold
  <2>1. \A g \in Holders \ {h} : Held'[g] = Held[g] BY SameHeld
  <2>2. h \in Holders /\ Held[h] = <<hand>> /\ Held'[h] = <<x>> BY HeldIs DEF HoldIs
  <2>3. /\ Held'[h] \in Seq(Frame) /\ Each(Held'[h]) /\ RefsIn(Held'[h]) = {x} \ {None}
        /\ RefsIn(Held[h]) = {hand} \ {None}
    BY <2>2, RefsInOne, ListTypes DEF FramesIInv
  <2> HIDE DEF h
  <2>4. Partition(Held, live) BY DEF FramesIInv
  <2>5. /\ RefsIn(Held'[h]) = (RefsIn(Held[h]) \ lost) \cup new
        /\ lost \cap live \subseteq RefsIn(Held[h])
    BY <2>3
  <2> QED BY <2>1, <2>2, <2>3, <2>4, <2>5, ExchangeOne
<1> QED BY <1>1, <1>3, <1>4 DEF FramesIInv

LEMMA UnusedIs == Unused \subseteq Refs /\ Unused \cap live = {} /\ Unused \subseteq Frame
BY DEF Unused, Frame

\* Copies have references of their own.
LEMMA CopiesAre ==
    ASSUME NEW xs \in Seq(Frame), NEW ys \in Copies(xs)
    PROVE  /\ ys \in Seq(Frame) /\ Len(ys) = Len(xs) /\ Each(ys)
           /\ RefsIn(ys) \in SUBSET Refs /\ RefsIn(ys) \cap live = {}
<1>1. /\ ys \in [1..Len(xs) -> Unused \cup {None}] /\ Len(xs) \in Nat
      /\ \A j, k \in 1..Len(xs) : ys[j] = ys[k] /\ ys[j] # None => j = k
  BY DEF Copies
<1>2. \A j \in 1..Len(xs) : ys[j] \in Frame BY <1>1, UnusedIs DEF Frame
<1>3. ys \in Seq(Frame) /\ Len(ys) = Len(xs)
  <2>1. ys \in [1..Len(xs) -> Frame] BY <1>1, <1>2
  <2> QED BY <1>1, <2>1
<1>4. Each(ys) BY <1>1, <1>3 DEF Each
<1>5. \A r \in RefsIn(ys) : r \in Unused BY <1>1, <1>3, RefsInIs
<1> QED BY <1>3, <1>4, <1>5, UnusedIs

\* The lists that are copied are lists.
LEMMA SourcesAre ==
    ASSUME FramesTypeOK, NEW x, NEW xs \in Sources(x)
    PROVE  xs \in Seq(Frame)
<1>1. \A m \in Messages : <<messages[m].msg>> \in Seq(Frame) BY ListTypes
<1>2. \A s \in Stacks : stacks[s].msgs \in Seq(Frame) BY ListTypes
<1>3. \A p \in Paths, n \in FrameLists : paths[p].msgs[n] \in Seq(Frame) BY ListTypes
<1>4. \/ \E m \in Messages : xs = <<messages[m].msg>>
      \/ \E s \in Stacks : xs = stacks[s].msgs
      \/ \E p \in Paths, n \in FrameLists : xs = paths[p].msgs[n]
  BY DEF Sources
<1> QED BY <1>1, <1>2, <1>3, <1>4

-----------------------------------------------------------------------------
(* The calls that change one list.                                         *)

LEMMA CloseFrameKeeps == FramesIInv /\ CloseFrame => FramesIInv'
<1> SUFFICES ASSUME FramesIInv, CloseFrame PROVE FramesIInv' OBVIOUS
<1> DEFINE lost == {hand}
<1>1. /\ hand' = None /\ None \in Frame /\ UNCHANGED <<paths, stacks, messages>>
      /\ live' = (live \ lost) \cup {}
  BY DEF CloseFrame, Frame
<1>2. {None} \ {None} = (({hand} \ {None}) \ lost) \cup {} OBVIOUS
<1>3. None \notin live BY FrameAssumption DEF FramesIInv, FramesTypeOK
<1>4. lost \cap live \subseteq {hand} \ {None} BY <1>3
<1>5. {} \in SUBSET Refs /\ {} \cap live = {} OBVIOUS
<1> HIDE DEF lost
<1> QED BY <1>1, <1>2, <1>4, <1>5, HandKeeps

\* A Message is filled, over a frame that it held or not.
LEMMA OverwriteKeeps ==
    ASSUME FramesIInv, NEW m \in Messages, NEW x \in Frame, NEW new \in SUBSET Refs,
           new \cap live = {}, {x} \ {None} = new,
           Overwrite(m, x, new), UNCHANGED <<paths, stacks, hand>>
    PROVE  FramesIInv'
<1> DEFINE lost == {messages[m].msg}
<1>1. messages' = [messages EXCEPT ![m] = [msg |-> x, need_close |-> TRUE]]
  <2>1. messages[m] \in [msg : Frame, need_close : BOOLEAN] BY DEF FramesIInv, FramesTypeOK
  <2>2. [messages[m] EXCEPT !.msg = x] = [msg |-> x, need_close |-> messages[m].need_close]
    BY <2>1
  <2>3. messages[m].need_close = TRUE /\ messages' = [messages EXCEPT ![m].msg = x]
    BY <2>1 DEF Overwrite, Unsent
  <2> QED BY <2>2, <2>3
<1>2. None \notin live BY FrameAssumption DEF FramesIInv, FramesTypeOK
<1>3. /\ live' = (live \ lost) \cup new
      /\ {x} \ {None} = (({messages[m].msg} \ {None}) \ lost) \cup new
      /\ lost \cap live \subseteq {messages[m].msg} \ {None}
  BY <1>2 DEF Overwrite
<1> HIDE DEF lost
<1> QED BY <1>1, <1>3, MessageKeeps

LEMMA FillKeeps == ASSUME FramesIInv, NEW m \in Messages, Fill(m) PROVE FramesIInv'
<1>1. PICK r \in Unused \cup {None} : Overwrite(m, r, RefsIn(<<r>>)) BY DEF Fill
<1>2. r \in Frame BY UnusedIs DEF Frame
<1>3. RefsIn(<<r>>) = {r} \ {None} BY <1>2, RefsInOne
<1>4. {r} \ {None} \in SUBSET Refs /\ ({r} \ {None}) \cap live = {} BY UnusedIs
<1>5. UNCHANGED <<paths, stacks, hand>> BY DEF Fill
<1> QED BY <1>1, <1>2, <1>3, <1>4, <1>5, OverwriteKeeps

\* A copy of one frame.
LEMMA CopyIs ==
    ASSUME NEW x \in Frame, NEW ys \in Copies(<<x>>)
    PROVE  /\ ys[1] \in Frame /\ RefsIn(ys) = {ys[1]} \ {None}
           /\ RefsIn(ys) \in SUBSET Refs /\ RefsIn(ys) \cap live = {}
<1>1. /\ ys \in Seq(Frame) /\ Len(ys) = 1
      /\ RefsIn(ys) \in SUBSET Refs /\ RefsIn(ys) \cap live = {}
  BY RefsInOne, CopiesAre
<1>2. 1 \in 1..Len(ys) BY <1>1
<1>3. ys[1] \in Frame BY <1>1, <1>2, ElementOfSeq
<1>4. PICK y \in Frame : y = ys[1] BY <1>3
<1>5. ys = <<y>> BY <1>1, <1>4
<1> QED BY <1>1, <1>4, <1>5, RefsInOne

LEMMA InitCopyKeeps ==
    ASSUME FramesIInv, NEW m \in Messages, NEW s \in Stacks, InitCopy(m, s)
    PROVE  FramesIInv'
<1>1. PICK k \in DOMAIN stacks[s].msgs : \E ys \in Copies(<<stacks[s].msgs[k]>>) :
            Overwrite(m, ys[1], RefsIn(ys))
  BY DEF InitCopy
<1>2. stacks[s].msgs[k] \in Frame
  <2>1. stacks[s].msgs \in Seq(Frame) BY ListTypes DEF FramesIInv
  <2> QED BY <2>1, ElementOfSeq
<1>3. PICK x \in Frame : x = stacks[s].msgs[k] BY <1>2
<1>4. PICK ys \in Copies(<<x>>) : Overwrite(m, ys[1], RefsIn(ys)) BY <1>1, <1>3
<1>5. UNCHANGED <<paths, stacks, hand>> BY DEF InitCopy
<1> QED BY <1>4, <1>5, CopyIs, OverwriteKeeps

LEMMA CopyMessageKeeps ==
    ASSUME FramesIInv, NEW m \in Messages, NEW n \in Messages, CopyMessage(m, n)
    PROVE  FramesIInv'
<1>1. PICK ys \in Copies(<<messages[n].msg>>) :
            /\ messages' = [messages EXCEPT ![m].msg = ys[1]]
            /\ live' = (live \ {messages[m].msg}) \cup RefsIn(ys)
  BY DEF CopyMessage
<1>2. messages[n].msg \in Frame BY ListTypes DEF FramesIInv
<1>4. /\ ys[1] \in Frame /\ RefsIn(ys) = {ys[1]} \ {None}
      /\ RefsIn(ys) \in SUBSET Refs /\ RefsIn(ys) \cap live = {}
  BY <1>2, CopyIs
<1>5. messages' = [messages EXCEPT ![m] = [msg |-> ys[1], need_close |-> TRUE]]
  BY <1>1 DEF CopyMessage, Unsent, FramesIInv, FramesTypeOK
<1>6. None \notin live BY FrameAssumption DEF FramesIInv, FramesTypeOK
<1> DEFINE lost == {messages[m].msg}
           new == RefsIn(ys)
<1>7. /\ live' = (live \ lost) \cup new
      /\ {ys[1]} \ {None} = (({messages[m].msg} \ {None}) \ lost) \cup new
      /\ lost \cap live \subseteq {messages[m].msg} \ {None}
  BY <1>1, <1>4, <1>6
<1>8. UNCHANGED <<paths, stacks, hand>> BY DEF CopyMessage
<1> HIDE DEF lost, new
<1>9. new \in SUBSET Refs /\ new \cap live = {} BY <1>4 DEF new
<1> QED BY <1>4, <1>5, <1>7, <1>8, <1>9, MessageKeeps

LEMMA SendMessageKeeps == ASSUME FramesIInv, NEW m \in Messages, SendMessage(m) PROVE FramesIInv'
<1> DEFINE lost == {messages[m].msg}
<1>1. None \notin live BY FrameAssumption DEF FramesIInv, FramesTypeOK
<1>2. /\ live' = (live \ lost) \cup {}
      /\ {None} \ {None} = (({messages[m].msg} \ {None}) \ lost) \cup {}
      /\ lost \cap live \subseteq {messages[m].msg} \ {None}
      /\ {} \in SUBSET Refs /\ {} \cap live = {}
  BY <1>1 DEF SendMessage
<1> HIDE DEF lost
<1>3. /\ messages' = [messages EXCEPT ![m] = [msg |-> None, need_close |-> FALSE]]
      /\ None \in Frame /\ FALSE \in BOOLEAN /\ UNCHANGED <<paths, stacks, hand>>
  BY DEF SendMessage, Frame
<1> QED BY <1>2, <1>3, MessageKeeps

LEMMA EndMessageKeeps == ASSUME FramesIInv, NEW m \in Messages, EndMessage(m) PROVE FramesIInv'
<1> DEFINE lost == {messages[m].msg}
<1>1. None \notin live BY FrameAssumption DEF FramesIInv, FramesTypeOK
<1>2. ~messages[m].need_close => messages[m].msg = None BY DEF FramesIInv, SentEmpty
<1>3. /\ live' = (live \ lost) \cup {}
      /\ {None} \ {None} = (({messages[m].msg} \ {None}) \ lost) \cup {}
      /\ lost \cap live \subseteq {messages[m].msg} \ {None}
      /\ {} \in SUBSET Refs /\ {} \cap live = {}
  BY <1>1, <1>2 DEF EndMessage
<1> HIDE DEF lost
<1>4. /\ messages' = [messages EXCEPT ![m] = [msg |-> None, need_close |-> TRUE]]
      /\ None \in Frame /\ TRUE \in BOOLEAN /\ UNCHANGED <<paths, stacks, hand>>
  BY DEF EndMessage, NewMessage, Frame
<1> QED BY <1>3, <1>4, MessageKeeps

\* The first k frames of a list were sent.
LEMMA RefsInSentOf ==
    ASSUME NEW xs \in Seq(Frame), Each(xs), NEW k \in 0..Len(xs)
    PROVE  LET ys == [j \in DOMAIN xs |-> IF j <= k THEN None ELSE xs[j]] IN
           /\ ys \in Seq(Frame) /\ Len(ys) = Len(xs) /\ Each(ys)
           /\ RefsIn(ys) = RefsIn(xs) \ RefsIn(SubSeq(xs, 1, k))
           /\ RefsIn(SubSeq(xs, 1, k)) \subseteq RefsIn(xs)
           /\ k = Len(xs) => RefsIn(ys) = {}
<1> DEFINE ys == [j \in DOMAIN xs |-> IF j <= k THEN None ELSE xs[j]]
           zs == [j \in DOMAIN xs |-> IF 0 + j <= k THEN None ELSE xs[j]]
           L == Len(xs)
<1>1. L \in Nat /\ DOMAIN xs = 1..L /\ \A j \in 1..L : 0 + j = j OBVIOUS
<1>2. ys = zs BY <1>1
<1>3. 0 \in Int /\ k \in Int OBVIOUS
<1>4. /\ zs \in Seq(Frame) /\ Len(zs) = L /\ Each(zs)
      /\ \A r : r \in RefsIn(zs) <=> r # None /\ \E j \in 1..L : 0 + j > k /\ xs[j] = r
  BY <1>3, RefsInSent
<1> HIDE DEF ys, zs
<1>5. \A r : r \in RefsIn(ys) <=> r # None /\ \E j \in k + 1..L : xs[j] = r
  <2>1. \A j \in 1..L : 0 + j > k <=> j \in k + 1..L BY <1>1
  <2>2. \A j \in k + 1..L : j \in 1..L BY <1>1
  <2> QED BY <1>2, <1>4, <2>1, <2>2
<1>6. /\ L \in 0..L /\ 1 \in 1..L + 1 /\ 1 <= k + 1 /\ k \in 0..L
      /\ k + 1 \in 1..L + 1 /\ k + 1 <= L + 1
  BY <1>1
<1>7. \A r : r \in RefsIn(SubSeq(xs, 1, k)) <=> r # None /\ \E j \in 1..k : xs[j] = r
  BY <1>6, RefsInSub
<1>8. ASSUME NEW r PROVE r \in RefsIn(ys) <=> r \in RefsIn(xs) /\ r \notin RefsIn(SubSeq(xs, 1, k))
  <2>1. \A j \in 1..L : j \in 1..k \/ j \in k + 1..L BY <1>1
  <2>2. \A j \in k + 1..L : j \in 1..L /\ j \notin 1..k BY <1>1
  <2>3. \A j \in 1..k : j \in 1..L BY <1>1
  <2>4. ASSUME r \in RefsIn(ys) PROVE r \in RefsIn(xs) /\ r \notin RefsIn(SubSeq(xs, 1, k))
    <3>1. PICK j \in k + 1..L : xs[j] = r BY <1>5, <2>4
    <3>2. r # None BY <1>5, <2>4
    <3>3. ASSUME NEW v \in 1..k, xs[v] = r PROVE FALSE
      <4>1. v = j BY <2>2, <2>3, <3>1, <3>2, <3>3 DEF Each
      <4> QED BY <2>2, <4>1
    <3> QED BY <1>7, <2>2, <3>1, <3>2, <3>3, RefsInIs
  <2>5. ASSUME r \in RefsIn(xs), r \notin RefsIn(SubSeq(xs, 1, k)) PROVE r \in RefsIn(ys)
    <3>1. PICK j \in 1..L : xs[j] = r BY <2>5, RefsInIs
    <3>2. r # None BY <2>5, RefsInIs
    <3> QED BY <1>5, <1>7, <2>1, <2>5, <3>1, <3>2
  <2> QED BY <2>4, <2>5
<1>9. RefsIn(SubSeq(xs, 1, k)) \subseteq RefsIn(xs)
  <2>1. \A j \in 1..k : j \in 1..L BY <1>1
  <2> QED BY <1>7, <2>1, RefsInIs
<1>10. k = L => RefsIn(ys) = {}
  <2>1. k = L => k + 1..L = {} BY <1>1
  <2> QED BY <1>5, <2>1
<1>11. RefsIn(ys) = RefsIn(xs) \ RefsIn(SubSeq(xs, 1, k)) BY <1>8
<1> QED BY <1>2, <1>4, <1>9, <1>10, <1>11 DEF ys

LEMMA StackMsgs ==
    ASSUME FramesTypeOK, NEW s \in Stacks, NEW ys, stacks' = [stacks EXCEPT ![s].msgs = ys]
    PROVE  stacks' = [stacks EXCEPT ![s] = [msgs |-> ys, notClose |-> stacks[s].notClose]]
           /\ stacks[s].notClose \in BOOLEAN
<1>1. stacks[s] \in [msgs : FrameSeqs, notClose : BOOLEAN] BY DEF FramesTypeOK
<1>2. [stacks[s] EXCEPT !.msgs = ys] = [msgs |-> ys, notClose |-> stacks[s].notClose] BY <1>1
<1> QED BY <1>1, <1>2

\* A stack that closes its frames gets and loses some.
LEMMA OwnerKeeps ==
    ASSUME FramesIInv, NEW s \in Stacks, Owner(s), NEW ys \in FrameSeqs, Each(ys),
           stacks' = [stacks EXCEPT ![s].msgs = ys], UNCHANGED <<paths, messages, hand>>,
           NEW lost, NEW new \in SUBSET Refs, new \cap live = {}, live' = (live \ lost) \cup new,
           RefsIn(ys) = (RefsIn(stacks[s].msgs) \ lost) \cup new,
           lost \cap live \subseteq RefsIn(stacks[s].msgs)
    PROVE  FramesIInv'
<1>1. PICK c \in BOOLEAN : c = stacks[s].notClose BY StackMsgs DEF FramesIInv
<1>2. stacks' = [stacks EXCEPT ![s] = [msgs |-> ys, notClose |-> c]]
  BY <1>1, StackMsgs DEF FramesIInv
<1>3. ~c BY <1>1 DEF Owner
<1>4. Held[StackHold(s)] = stacks[s].msgs BY HeldIs DEF HoldIs
<1>5. /\ IF c THEN {} = (RefsIn(Held[StackHold(s)]) \ lost) \cup new
              ELSE RefsIn(ys) = (RefsIn(Held[StackHold(s)]) \ lost) \cup new
      /\ lost \cap live \subseteq RefsIn(Held[StackHold(s)])
  BY <1>3, <1>4
<1> QED BY <1>2, <1>5, StackKeeps

LEMMA PushNewKeeps == ASSUME FramesIInv, NEW s \in Stacks, PushNew(s) PROVE FramesIInv'
<1> DEFINE xs == stacks[s].msgs
<1>1. PICK r \in Unused : /\ stacks' = [stacks EXCEPT ![s].msgs = Append(xs, r)]
                          /\ live' = live \cup {r}
  BY DEF PushNew
<1>2. /\ xs \in Seq(Frame) /\ Len(xs) \in Nat /\ Len(xs) < ListMax /\ Owner(s)
      /\ Each(xs) /\ RefsIn(xs) \subseteq live
  BY ListTypes, ListParts DEF PushNew, FramesIInv
<1>3. r \in Frame /\ {r} \in SUBSET Refs /\ {r} \cap live = {} /\ r # None
  BY UnusedIs, FrameAssumption
<1> HIDE DEF xs
<1>4. /\ RefsIn(Append(xs, r)) = (RefsIn(xs) \ {}) \cup {r} /\ Each(Append(xs, r))
  BY <1>2, <1>3, RefsInAppend
<1>5. Append(xs, r) \in FrameSeqs BY <1>2, <1>3, FrameAssumption DEF FrameSeqs
<1>6. live' = (live \ {}) \cup {r} /\ {} \cap live \subseteq RefsIn(xs) BY <1>1
<1>7. UNCHANGED <<paths, messages, hand>> BY DEF PushNew
<1> QED BY <1>1, <1>2, <1>3, <1>4, <1>5, <1>6, <1>7, OwnerKeeps DEF xs

LEMMA PushCopyKeeps == ASSUME FramesIInv, NEW s \in Stacks, PushCopy(s) PROVE FramesIInv'
<1> DEFINE xs == stacks[s].msgs
<1>1. PICK from \in Sources(s) :
            /\ Len(xs) + Len(from) <= ListMax
            /\ \E ys \in Copies(from) :
                  /\ stacks' = [stacks EXCEPT ![s].msgs = xs \o ys]
                  /\ live' = live \cup RefsIn(ys)
  BY DEF PushCopy
<1>2. PICK ys \in Copies(from) : /\ stacks' = [stacks EXCEPT ![s].msgs = xs \o ys]
                                 /\ live' = live \cup RefsIn(ys)
  BY <1>1
<1>3. /\ xs \in Seq(Frame) /\ Owner(s) /\ Each(xs) /\ RefsIn(xs) \subseteq live
  BY ListTypes, ListParts DEF PushCopy, FramesIInv
<1>4. /\ ys \in Seq(Frame) /\ Len(ys) = Len(from) /\ Each(ys)
      /\ RefsIn(ys) \in SUBSET Refs /\ RefsIn(ys) \cap live = {}
  BY SourcesAre, CopiesAre DEF FramesIInv
<1> HIDE DEF xs
<1>5. /\ xs \o ys \in Seq(Frame) /\ Len(xs \o ys) = Len(xs) + Len(ys) /\ Each(xs \o ys)
      /\ RefsIn(xs \o ys) = RefsIn(xs) \cup RefsIn(ys)
  BY <1>3, <1>4, RefsInConcat
<1>6. xs \o ys \in FrameSeqs BY <1>1, <1>4, <1>5 DEF FrameSeqs
<1>7. /\ RefsIn(xs \o ys) = (RefsIn(xs) \ {}) \cup RefsIn(ys)
      /\ live' = (live \ {}) \cup RefsIn(ys) /\ {} \cap live \subseteq RefsIn(xs)
  BY <1>2, <1>5
<1>8. UNCHANGED <<paths, messages, hand>> BY DEF PushCopy
<1> QED BY <1>2, <1>3, <1>4, <1>5, <1>6, <1>7, <1>8, OwnerKeeps DEF xs

LEMMA ReplaceBackKeeps == ASSUME FramesIInv, NEW s \in Stacks, ReplaceBack(s) PROVE FramesIInv'
<1> DEFINE xs == stacks[s].msgs
           k == Len(xs)
<1>1. PICK r \in Unused : /\ stacks' = [stacks EXCEPT ![s].msgs[k] = r]
                          /\ live' = (live \ {Last(xs)}) \cup {r}
  BY DEF ReplaceBack
<1>2. /\ xs \in FrameSeqs /\ xs \in Seq(Frame) /\ Owner(s) /\ xs # <<>> /\ Each(xs)
      /\ RefsIn(xs) \subseteq live
  BY ListTypes, ListParts DEF ReplaceBack, FramesIInv
<1>3. /\ r \in Frame /\ {r} \in SUBSET Refs /\ {r} \cap live = {} /\ r # None /\ r \notin RefsIn(xs)
  BY <1>2, UnusedIs, FrameAssumption
<1>4. stacks' = [stacks EXCEPT ![s].msgs = [xs EXCEPT ![k] = r]] BY <1>1
<1> HIDE DEF xs
<1>5. k \in 1..Len(xs) /\ Last(xs) = xs[k] BY <1>2 DEF Last
<1> HIDE DEF k
<1> DEFINE ys == [xs EXCEPT ![k] = r]
           lost == {xs[k]}
<1>6. /\ ys \in Seq(Frame) /\ Len(ys) = Len(xs) /\ Each(ys)
      /\ RefsIn(ys) = (RefsIn(xs) \ {xs[k]}) \cup ({r} \ {None})
  BY <1>2, <1>3, <1>5, RefsInExcept DEF SlotGets
<1> HIDE DEF ys
<1>7. None \notin live BY FrameAssumption DEF FramesIInv, FramesTypeOK
<1>8. /\ ys \in FrameSeqs /\ RefsIn(ys) = (RefsIn(xs) \ lost) \cup {r}
      /\ lost \cap live \subseteq RefsIn(xs) /\ live' = (live \ lost) \cup {r}
  BY <1>1, <1>2, <1>3, <1>5, <1>6, <1>7, RefsInIs DEF FrameSeqs
<1>9. UNCHANGED <<paths, messages, hand>> BY DEF ReplaceBack
<1>10. stacks' = [stacks EXCEPT ![s].msgs = ys] BY <1>4 DEF ys
<1> HIDE DEF lost
<1> QED BY <1>2, <1>3, <1>6, <1>8, <1>9, <1>10, OwnerKeeps DEF xs

LEMMA EraseKeeps == ASSUME FramesIInv, NEW s \in Stacks, NEW k, Erase(s, k) PROVE FramesIInv'
<1> DEFINE xs == stacks[s].msgs
           ys == RemoveAt(xs, k)
<1>1. /\ xs \in FrameSeqs /\ xs \in Seq(Frame) /\ k \in 1..Len(xs) /\ Len(xs) \in Nat
      /\ Owner(s) => xs[k] = None /\ Each(xs)
      /\ stacks' = [stacks EXCEPT ![s].msgs = ys] /\ UNCHANGED <<paths, messages, hand, live>>
  BY ListTypes, ListParts DEF Erase, FramesIInv
<1>2. /\ {} \in SUBSET Refs /\ {} \cap live = {} /\ live' = (live \ {}) \cup {}
  BY <1>1
<1>3. ys \in FrameSeqs
  <2> HIDE DEF xs
  <2>1. ys \in Seq(Frame) /\ Len(ys) = Len(xs) - 1
    <3> DEFINE a == SubSeq(xs, 1, k - 1)
               b == SubSeq(xs, k + 1, Len(xs))
    <3>1. /\ 1 \in 1..Len(xs) + 1 /\ k - 1 \in 0..Len(xs) /\ 1 <= (k - 1) + 1
          /\ k + 1 \in 1..Len(xs) + 1 /\ Len(xs) \in 0..Len(xs) /\ k + 1 <= Len(xs) + 1
      BY <1>1
    <3>2. /\ a \in Seq(Frame) /\ Len(a) = (k - 1) + 1 - 1
          /\ b \in Seq(Frame) /\ Len(b) = Len(xs) + 1 - (k + 1)
      BY <1>1, <3>1, RefsInSub
    <3>3. ys = a \o b BY DEF RemoveAt
    <3> HIDE DEF a, b
    <3>4. a \o b \in Seq(Frame) /\ Len(a \o b) = Len(a) + Len(b) BY <3>2, ConcatProperties
    <3> QED BY <1>1, <3>2, <3>3, <3>4
  <2> QED BY <1>1, <2>1, FrameAssumption DEF FrameSeqs
<1>4. CASE Owner(s)
  <2>1. Each(ys) /\ RefsIn(ys) = RefsIn(xs) BY <1>1, <1>4, RefsInRemove
  <2> HIDE DEF ys
  <2>2. RefsIn(ys) = (RefsIn(xs) \ {}) \cup {} /\ {} \cap live \subseteq RefsIn(xs) BY <2>1
  <2> QED BY <1>1, <1>2, <1>3, <1>4, <2>1, <2>2, OwnerKeeps
<1>5. CASE ~Owner(s)
  <2>1. Held[StackHold(s)] = <<>> BY <1>5, HeldIs DEF HoldIs
  <2> HIDE DEF ys
  <2>2. PICK c \in BOOLEAN : c = stacks[s].notClose BY <1>1, StackMsgs DEF FramesIInv
  <2>3. stacks' = [stacks EXCEPT ![s] = [msgs |-> ys, notClose |-> c]] /\ c
    BY <1>1, <1>5, <2>2, StackMsgs DEF FramesIInv, Owner
  <2>4. /\ IF c THEN {} = (RefsIn(Held[StackHold(s)]) \ {}) \cup {}
                ELSE RefsIn(ys) = (RefsIn(Held[StackHold(s)]) \ {}) \cup {}
        /\ {} \cap live \subseteq RefsIn(Held[StackHold(s)])
        /\ ~c => Each(ys)
    BY <2>1, <2>3, RefsInNone
  <2> QED BY <1>1, <1>2, <1>3, <2>3, <2>4, StackKeeps
<1> QED BY <1>4, <1>5

\* What a stack that does not close has is not held.
LEMMA StackHeld ==
    ASSUME FramesIInv, NEW s \in Stacks
    PROVE  /\ Owner(s) => Held[StackHold(s)] = stacks[s].msgs
           /\ ~Owner(s) => RefsIn(Held[StackHold(s)]) = {}
BY HeldIs, RefsInNone DEF HoldIs

LEMMA SetCloseKeeps ==
    ASSUME FramesIInv, NEW s \in Stacks, NEW need \in BOOLEAN, SetClose(s, need)
    PROVE  FramesIInv'
<1> DEFINE xs == stacks[s].msgs
<1>1. /\ xs \in FrameSeqs /\ xs \in Seq(Frame) /\ RefsIn(xs) = {}
      /\ stacks' = [stacks EXCEPT ![s].notClose = ~need]
      /\ UNCHANGED <<paths, messages, hand, live>>
  BY ListTypes DEF SetClose, FramesIInv
<1>2. PICK c \in BOOLEAN : c = ~need OBVIOUS
<1>3. stacks' = [stacks EXCEPT ![s] = [msgs |-> xs, notClose |-> c]]
  <2>1. stacks[s] \in [msgs : FrameSeqs, notClose : BOOLEAN] BY DEF FramesIInv, FramesTypeOK
  <2>2. [stacks[s] EXCEPT !.notClose = c] = [msgs |-> xs, notClose |-> c] BY <2>1
  <2>3. stacks' = [stacks EXCEPT ![s].notClose = c] BY <1>1, <1>2
  <2> QED BY <2>2, <2>3
<1>4. RefsIn(Held[StackHold(s)]) = {} BY <1>1, StackHeld
<1> HIDE DEF xs
<1>5. Each(xs) BY <1>1, RefsInIs DEF Each
<1>6. /\ {} \in SUBSET Refs /\ {} \cap live = {} /\ live' = (live \ {}) \cup {}
      /\ {} \cap live \subseteq RefsIn(Held[StackHold(s)])
      /\ IF c THEN {} = (RefsIn(Held[StackHold(s)]) \ {}) \cup {}
              ELSE RefsIn(xs) = (RefsIn(Held[StackHold(s)]) \ {}) \cup {}
  BY <1>1, <1>4
<1> QED BY <1>1, <1>3, <1>5, <1>6, StackKeeps

LEMMA SendStackKeeps == ASSUME FramesIInv, NEW s \in Stacks, SendStack(s) PROVE FramesIInv'
<1> DEFINE xs == stacks[s].msgs
           ys(n) == [j \in DOMAIN xs |-> IF j <= n THEN None ELSE xs[j]]
<1>1. PICK k \in 0..Len(xs) :
            /\ stacks' = [stacks EXCEPT ![s].msgs = ys(k), ![s].notClose = (k = Len(xs))]
            /\ live' = live \ RefsIn(SubSeq(xs, 1, k))
  BY DEF SendStack
<1>2. /\ xs \in FrameSeqs /\ xs \in Seq(Frame) /\ Each(xs) /\ Owner(s)
      /\ Held[StackHold(s)] = xs /\ UNCHANGED <<paths, messages, hand>>
  BY ListTypes, ListParts, StackHeld DEF SendStack, FramesIInv
<1>3. PICK c \in BOOLEAN : c = (k = Len(xs)) OBVIOUS
<1>4. stacks' = [stacks EXCEPT ![s] = [msgs |-> ys(k), notClose |-> c]]
  <2>1. stacks[s] \in [msgs : FrameSeqs, notClose : BOOLEAN] BY DEF FramesIInv, FramesTypeOK
  <2>2. PICK zs : zs = ys(k) OBVIOUS
  <2>3. [[stacks[s] EXCEPT !.msgs = zs] EXCEPT !.notClose = c] = [msgs |-> zs, notClose |-> c]
    <3>1. PICK d : d = stacks[s].notClose OBVIOUS
    <3>2. [stacks[s] EXCEPT !.msgs = zs] = [msgs |-> zs, notClose |-> d] BY <2>1, <3>1
    <3>3. [[msgs |-> zs, notClose |-> d] EXCEPT !.notClose = c] = [msgs |-> zs, notClose |-> c]
      OBVIOUS
    <3> QED BY <3>2, <3>3
  <2>4. stacks' = [stacks EXCEPT ![s] = [[stacks[s] EXCEPT !.msgs = zs] EXCEPT !.notClose = c]]
    <3>1. stacks' = [stacks EXCEPT ![s].msgs = zs, ![s].notClose = c] BY <1>1, <1>3, <2>2
    <3>2. s \in DOMAIN stacks BY DEF FramesIInv, FramesTypeOK
    <3> HIDE DEF ys, xs
    <3> QED BY <3>1, <3>2
  <2> QED BY <2>2, <2>3, <2>4
<1> HIDE DEF xs
<1>5. /\ ys(k) \in Seq(Frame) /\ Len(ys(k)) = Len(xs) /\ Each(ys(k))
      /\ RefsIn(ys(k)) = RefsIn(xs) \ RefsIn(SubSeq(xs, 1, k))
      /\ RefsIn(SubSeq(xs, 1, k)) \subseteq RefsIn(xs)
      /\ k = Len(xs) => RefsIn(ys(k)) = {}
  BY <1>2, RefsInSentOf
<1> DEFINE lost == RefsIn(SubSeq(xs, 1, k))
           zs == ys(k)
<1> HIDE DEF ys
<1>6. zs \in FrameSeqs BY <1>2, <1>5 DEF FrameSeqs
<1>7. /\ lost \cap live \subseteq RefsIn(Held[StackHold(s)])
      /\ live' = (live \ lost) \cup {}
      /\ {} \in SUBSET Refs /\ {} \cap live = {}
      /\ IF c THEN {} = (RefsIn(Held[StackHold(s)]) \ lost) \cup {}
              ELSE RefsIn(zs) = (RefsIn(Held[StackHold(s)]) \ lost) \cup {}
  BY <1>1, <1>2, <1>3, <1>5
<1>8. Each(zs) /\ stacks' = [stacks EXCEPT ![s] = [msgs |-> zs, notClose |-> c]] BY <1>4, <1>5
<1> HIDE DEF lost, zs
<1> QED BY <1>2, <1>6, <1>7, <1>8, StackKeeps

LEMMA EndStackKeeps == ASSUME FramesIInv, NEW s \in Stacks, EndStack(s) PROVE FramesIInv'
<1> DEFINE lost == RefsIn(Held[StackHold(s)])
<1>1. /\ stacks' = [stacks EXCEPT ![s] = [msgs |-> <<>>, notClose |-> FALSE]]
      /\ UNCHANGED <<paths, messages, hand>>
  BY DEF EndStack, NewStack
<1>2. live' = (live \ lost) \cup {}
  <2>1. CASE Owner(s)
    <3>1. lost = RefsIn(stacks[s].msgs) BY <2>1, StackHeld
    <3> HIDE DEF lost
    <3> QED BY <2>1, <3>1 DEF EndStack
  <2>2. CASE ~Owner(s)
    <3>1. lost = {} BY <2>2, StackHeld
    <3> HIDE DEF lost
    <3> QED BY <2>2, <3>1 DEF EndStack
  <2> QED BY <2>1, <2>2
<1>3. /\ {} = (RefsIn(Held[StackHold(s)]) \ lost) \cup {} /\ lost \cap live \subseteq lost
      /\ {} \in SUBSET Refs /\ {} \cap live = {}
  OBVIOUS
<1>4. /\ <<>> \in FrameSeqs /\ FALSE \in BOOLEAN /\ Each(<<>>) /\ RefsIn(<<>>) = {} BY RefsInNone
<1>5. IF FALSE THEN {} = (RefsIn(Held[StackHold(s)]) \ lost) \cup {}
               ELSE RefsIn(<<>>) = (RefsIn(Held[StackHold(s)]) \ lost) \cup {}
  BY <1>3, <1>4
<1>6. lost \cap live \subseteq RefsIn(Held[StackHold(s)]) OBVIOUS
<1> HIDE DEF lost
<1> QED BY <1>1, <1>2, <1>3, <1>4, <1>5, <1>6, StackKeeps

LEMMA PushStringKeeps ==
    ASSUME FramesIInv, NEW p \in Paths, NEW n \in FrameLists, PushString(p, n)
    PROVE  FramesIInv'
<1> DEFINE xs == paths[p].msgs[n]
<1>1. PICK r \in Unused : /\ paths' = [paths EXCEPT ![p].msgs[n] = Append(xs, r)]
                          /\ live' = live \cup {r}
  BY DEF PushString
<1>2. /\ xs \in Seq(Frame) /\ Len(xs) \in Nat /\ Len(xs) < ListMax /\ Ready(p)
      /\ Each(xs) /\ RefsIn(xs) \subseteq live
  BY ListTypes, ListParts DEF PushString, FramesIInv
<1>3. r \in Frame /\ {r} \in SUBSET Refs /\ {r} \cap live = {} /\ r # None
  BY UnusedIs, FrameAssumption
<1> HIDE DEF xs
<1>4. RefsIn(Append(xs, r)) = (RefsIn(xs) \ {}) \cup {r} /\ Each(Append(xs, r))
  BY <1>2, <1>3, RefsInAppend
<1>5. Append(xs, r) \in FrameSeqs BY <1>2, <1>3, FrameAssumption DEF FrameSeqs
<1>6. live' = (live \ {}) \cup {r} /\ {} \cap live \subseteq RefsIn(xs) BY <1>1
<1>7. UNCHANGED <<stacks, messages, hand>> BY DEF PushString
<1> QED BY <1>1, <1>2, <1>3, <1>4, <1>5, <1>6, <1>7, PathKeeps DEF xs

LEMMA PushFramesKeeps ==
    ASSUME FramesIInv, NEW p \in Paths, NEW n \in FrameLists, PushFrames(p, n)
    PROVE  FramesIInv'
<1> DEFINE xs == paths[p].msgs[n]
<1>1. PICK from \in Sources(p) :
            /\ Len(xs) + Len(from) <= ListMax
            /\ \E ys \in Copies(from) :
                  /\ paths' = [paths EXCEPT ![p].msgs[n] = xs \o ys]
                  /\ live' = live \cup RefsIn(ys)
  BY DEF PushFrames
<1>2. PICK ys \in Copies(from) : /\ paths' = [paths EXCEPT ![p].msgs[n] = xs \o ys]
                                 /\ live' = live \cup RefsIn(ys)
  BY <1>1
<1>3. xs \in Seq(Frame) /\ Ready(p) /\ Each(xs) /\ RefsIn(xs) \subseteq live
  BY ListTypes, ListParts DEF PushFrames, FramesIInv
<1>4. /\ ys \in Seq(Frame) /\ Len(ys) = Len(from) /\ Each(ys)
      /\ RefsIn(ys) \in SUBSET Refs /\ RefsIn(ys) \cap live = {}
  BY SourcesAre, CopiesAre DEF FramesIInv
<1> HIDE DEF xs
<1>5. /\ xs \o ys \in Seq(Frame) /\ Len(xs \o ys) = Len(xs) + Len(ys) /\ Each(xs \o ys)
      /\ RefsIn(xs \o ys) = RefsIn(xs) \cup RefsIn(ys)
  BY <1>3, <1>4, RefsInConcat
<1>6. xs \o ys \in FrameSeqs BY <1>1, <1>4, <1>5 DEF FrameSeqs
<1>7. /\ RefsIn(xs \o ys) = (RefsIn(xs) \ {}) \cup RefsIn(ys)
      /\ live' = (live \ {}) \cup RefsIn(ys) /\ {} \cap live \subseteq RefsIn(xs)
  BY <1>2, <1>5
<1>8. UNCHANGED <<stacks, messages, hand>> BY DEF PushFrames
<1> QED BY <1>2, <1>3, <1>4, <1>5, <1>6, <1>7, <1>8, PathKeeps DEF xs

LEMMA SetUserDataKeeps ==
    ASSUME FramesIInv, NEW p \in Paths, NEW k, SetUserData(p, k)
    PROVE  FramesIInv'
<1> DEFINE xs == paths[p].msgs[1]
           ys(r) == [xs EXCEPT ![k] = r]
           lost == {xs[k]}
<1>1. PICK r \in Unused : /\ paths' = [paths EXCEPT ![p].msgs[1] = ys(r)]
                          /\ live' = (live \ lost) \cup {r}
  BY DEF SetUserData
<1>2. /\ 1 \in FrameLists /\ xs \in FrameSeqs /\ xs \in Seq(Frame) /\ k \in 1..Len(xs) /\ Ready(p)
      /\ Each(xs) /\ RefsIn(xs) \subseteq live
  BY ListTypes, ListParts DEF SetUserData, FramesIInv
<1>3. /\ r \in Frame /\ {r} \in SUBSET Refs /\ {r} \cap live = {} /\ r # None /\ r \notin RefsIn(xs)
  BY <1>2, UnusedIs, FrameAssumption
<1> HIDE DEF xs
<1>6. /\ ys(r) \in Seq(Frame) /\ Len(ys(r)) = Len(xs) /\ Each(ys(r))
      /\ RefsIn(ys(r)) = (RefsIn(xs) \ {xs[k]}) \cup ({r} \ {None})
  BY <1>2, <1>3, RefsInExcept DEF SlotGets
<1> HIDE DEF ys
<1>7. None \notin live BY FrameAssumption DEF FramesIInv, FramesTypeOK
<1>8. /\ ys(r) \in FrameSeqs /\ RefsIn(ys(r)) = (RefsIn(xs) \ lost) \cup {r}
      /\ lost \cap live \subseteq RefsIn(xs)
  BY <1>2, <1>3, <1>6, <1>7, RefsInIs DEF FrameSeqs
<1>9. UNCHANGED <<stacks, messages, hand>> BY DEF SetUserData
<1> HIDE DEF lost
<1> QED BY <1>1, <1>2, <1>3, <1>6, <1>8, <1>9, PathKeeps DEF xs

LEMMA CopyFrameKeeps == ASSUME FramesIInv, NEW p \in Paths, CopyFrame(p) PROVE FramesIInv'
<1> DEFINE ds == paths[p].msgs[2]
           ss == paths[p].msgs[0]
<1>1. PICK x \in {Last(ds) : j \in {1} \cap DOMAIN ds} \cup {ss[j] : j \in {1} \cap DOMAIN ss} :
            \E ys \in Copies(<<x>>) : hand' = ys[1] /\ live' = live \cup RefsIn(ys)
  BY DEF CopyFrame
<1>2. x \in Frame
  <2>1. /\ ds \in Seq(Frame) /\ DOMAIN ds = 1..Len(ds) /\ Len(ds) \in Nat
        /\ ss \in Seq(Frame) /\ DOMAIN ss = 1..Len(ss)
    BY ListTypes DEF FramesIInv
  <2> HIDE DEF ds, ss
  <2>2. 1 \in 1..Len(ds) => Last(ds) \in Frame BY <2>1 DEF Last
  <2>3. 1 \in 1..Len(ss) => ss[1] \in Frame BY <2>1
  <2> QED BY <1>1, <2>1, <2>2, <2>3
<1>3. PICK ys \in Copies(<<x>>) : hand' = ys[1] /\ live' = live \cup RefsIn(ys) BY <1>1
<1>4. ys \in Seq(Frame) /\ Len(ys) = 1 /\ RefsIn(ys) \in SUBSET Refs /\ RefsIn(ys) \cap live = {}
  BY <1>2, RefsInOne, CopiesAre
<1>5. ys[1] \in Frame /\ RefsIn(ys) = {ys[1]} \ {None}
  <2>1. 1 \in 1..Len(ys) BY <1>4
  <2>2. ys[1] \in Frame BY <1>4, <2>1, ElementOfSeq
  <2>3. PICK y \in Frame : y = ys[1] BY <2>2
  <2>4. ys = <<y>> BY <1>4, <2>3
  <2> QED BY <2>3, <2>4, RefsInOne
<1>6. hand = None /\ UNCHANGED <<paths, stacks, messages>> BY DEF CopyFrame
<1>7. /\ live' = (live \ {}) \cup RefsIn(ys) /\ {} \cap live \subseteq {hand} \ {None}
      /\ {ys[1]} \ {None} = (({hand} \ {None}) \ {}) \cup RefsIn(ys)
  BY <1>3, <1>5, <1>6
<1> QED BY <1>3, <1>4, <1>5, <1>6, <1>7, HandKeeps

LEMMA CloseTailKeeps ==
    ASSUME FramesIInv, NEW p \in Paths, NEW k \in 1..ListMax, CloseTail(p, k)
    PROVE  FramesIInv'
<1> DEFINE xs == paths[p].msgs[2]
           L == Len(xs)
           a == SubSeq(xs, 1, k)
           b == SubSeq(xs, k + 1, k + 1)
           ys == Reverse(a) \o b
           lost == RefsIn(SubSeq(xs, k + 2, L))
<1>1. /\ xs \in FrameSeqs /\ xs \in Seq(Frame) /\ Each(xs) /\ L \in Nat /\ k \in Nat /\ k < L
      /\ Ready(p) /\ paths' = [paths EXCEPT ![p].msgs[2] = ys] /\ live' = live \ lost
      /\ UNCHANGED <<stacks, messages, hand>> /\ 2 \in FrameLists /\ RefsIn(xs) \subseteq live
  BY ListTypes, ListParts, FrameAssumption DEF CloseTail, FramesIInv
<1>16. xs \in Seq(Frame) /\ Each(xs) BY <1>1
<1> HIDE DEF xs
<1>2. /\ 1 \in 1..L + 1 /\ k \in 0..L /\ 1 <= k + 1 /\ k + 1 \in 1..L + 1 /\ k + 1 \in 0..L
      /\ k + 1 <= (k + 1) + 1 /\ k + 2 \in 1..L + 1 /\ L \in 0..L /\ k + 2 <= L + 1
  BY <1>1
<1>3. /\ a \in Seq(Frame) /\ Len(a) = k + 1 - 1 /\ Each(a)
      /\ \A r : r \in RefsIn(a) <=> r # None /\ \E j \in 1..k : xs[j] = r
  BY <1>16, <1>2, RefsInSub
<1>4. /\ b \in Seq(Frame) /\ Len(b) = (k + 1) + 1 - (k + 1) /\ Each(b)
      /\ \A r : r \in RefsIn(b) <=> r # None /\ \E j \in k + 1..k + 1 : xs[j] = r
  BY <1>16, <1>2, RefsInSub
<1>5. \A r : r \in lost <=> r # None /\ \E j \in k + 2..L : xs[j] = r
  <2> DEFINE from == k + 2
  <2>1. from \in 1..L + 1 /\ L \in 0..L /\ from <= L + 1 BY <1>2
  <2> HIDE DEF from
  <2>2. \A r : r \in RefsIn(SubSeq(xs, from, L)) <=> r # None /\ \E j \in from..L : xs[j] = r
    BY ONLY <1>16, <2>1, RefsInSub
  <2> QED BY <2>2 DEF from
<1> HIDE DEF a, b, lost
<1>6. /\ \A j \in 1..L : j \in 1..k \/ j \in k + 1..k + 1 \/ j \in k + 2..L
      /\ \A j \in 1..k : j \in 1..L /\ j \notin k + 1..k + 1 /\ j \notin k + 2..L
      /\ \A j \in k + 1..k + 1 : j \in 1..L /\ j \notin k + 2..L
      /\ \A j \in k + 2..L : j \in 1..L
  BY <1>1
<1> HIDE DEF L
<1>7. RefsIn(a) \cap RefsIn(b) = {}
  <2> SUFFICES ASSUME NEW r \in RefsIn(a), r \in RefsIn(b) PROVE FALSE OBVIOUS
  <2>1. PICK v \in 1..k : xs[v] = r BY <1>3
  <2>2. PICK j \in k + 1..k + 1 : xs[j] = r BY <1>4
  <2>3. v = j BY <1>3, <1>6, <2>1, <2>2, <1>1 DEF Each, L
  <2> QED BY <1>6, <2>3
<1>8. /\ Reverse(a) \in Seq(Frame) /\ Len(Reverse(a)) = Len(a) /\ Each(Reverse(a))
      /\ RefsIn(Reverse(a)) = RefsIn(a)
  BY <1>3, RefsInReverse
<1>9. /\ ys \in Seq(Frame) /\ Len(ys) = Len(Reverse(a)) + Len(b) /\ Each(ys)
      /\ RefsIn(ys) = RefsIn(a) \cup RefsIn(b)
  BY <1>4, <1>7, <1>8, RefsInConcat
<1> HIDE DEF ys
<1>10. Len(ys) = k + 1 BY <1>1, <1>3, <1>4, <1>8, <1>9
<1>11. ys \in FrameSeqs BY <1>1, <1>9, <1>10, FrameAssumption DEF FrameSeqs, L
<1>12. ASSUME NEW r PROVE r \in RefsIn(ys) <=> r \in RefsIn(xs) /\ r \notin lost
  <2>1. ASSUME r \in RefsIn(ys) PROVE r \in RefsIn(xs) /\ r \notin lost
    <3>1. PICK v \in 1..L : xs[v] = r /\ v \notin k + 2..L
      BY <1>3, <1>4, <1>6, <1>9, <2>1
    <3>2. r # None BY <1>9, <2>1, RefsInIs
    <3>3. ASSUME NEW j \in k + 2..L, xs[j] = r PROVE FALSE
      <4>1. v = j BY <1>1, <1>6, <3>1, <3>2, <3>3 DEF Each, L
      <4> QED BY <3>1, <4>1
    <3> QED BY <1>1, <1>5, <3>1, <3>2, <3>3, RefsInIs DEF L
  <2>2. ASSUME r \in RefsIn(xs), r \notin lost PROVE r \in RefsIn(ys)
    <3>1. r # None /\ \E v \in 1..L : xs[v] = r BY <1>1, <2>2, RefsInIs DEF L
    <3>2. PICK v \in 1..L : xs[v] = r BY <3>1
    <3> QED BY <1>3, <1>4, <1>5, <1>6, <1>9, <2>2, <3>1, <3>2
  <2> QED BY <2>1, <2>2
<1>13. RefsIn(ys) = (RefsIn(xs) \ lost) \cup {} /\ live' = (live \ lost) \cup {} BY <1>1, <1>12
<1>14. lost \cap live \subseteq RefsIn(xs) BY <1>1, <1>5, <1>6, RefsInIs DEF L
<1>15. {} \in SUBSET Refs /\ {} \cap live = {} OBVIOUS
<1> QED BY <1>1, <1>9, <1>11, <1>13, <1>14, <1>15, PathKeeps DEF xs

-----------------------------------------------------------------------------
(* The calls that move frames from one list to another.                    *)

PathsType == [Paths -> [msgs : [FrameLists -> FrameSeqs], need_close : BOOLEAN]]

\* List n of path p becomes ys.
PathSet(p, n, ys) ==
    /\ paths' \in PathsType
    /\ paths'[p].msgs[n] = ys
    /\ \A q \in Paths, m \in FrameLists : q # p \/ m # n => paths'[q].msgs[m] = paths[q].msgs[m]
    /\ \A q \in Paths : paths'[q].need_close = paths[q].need_close

LEMMA PathSets ==
    ASSUME FramesTypeOK, NEW p \in Paths, NEW n \in FrameLists, NEW ys \in FrameSeqs,
           paths' = [paths EXCEPT ![p].msgs[n] = ys]
    PROVE  PathSet(p, n, ys)
BY DEF FramesTypeOK, PathSet, PathsType

LEMMA PathSetSentEmpty ==
    ASSUME FramesIInv, NEW p \in Paths, NEW n \in FrameLists, NEW ys, PathSet(p, n, ys),
           Ready(p) \/ RefsIn(ys) = {},
           \A m \in Messages : ~messages'[m].need_close => messages'[m].msg = None
    PROVE  SentEmpty'
<1>1. ASSUME NEW q \in Paths, ~paths'[q].need_close, NEW m \in FrameLists
      PROVE  RefsIn(paths'[q].msgs[m]) = {}
  BY <1>1 DEF FramesIInv, SentEmpty, Ready, PathSet
<1> QED BY <1>1 DEF SentEmpty, Ready

LEMMA PathSetSame ==
    ASSUME NEW p \in Paths, NEW n \in FrameLists, NEW ys, PathSet(p, n, ys),
           NEW q \in Paths, NEW m \in FrameLists, PathHold(q, m) # PathHold(p, n)
    PROVE  paths'[q].msgs[m] = paths[q].msgs[m]
BY DEF PathSet, PathHold

\* Different lists have different references.
LEMMA HeldApart ==
    ASSUME FramesIInv, NEW g \in Holders, NEW h \in Holders, g # h
    PROVE  RefsIn(Held[g]) \cap RefsIn(Held[h]) = {}
BY DEF FramesIInv, Partition

LEMMA HeldParts ==
    ASSUME FramesIInv, NEW h \in Holders
    PROVE  Held[h] \in Seq(Frame) /\ Each(Held[h]) /\ RefsIn(Held[h]) \subseteq live
BY DEF FramesIInv, Partition

LEMMA MoveMessageKeeps ==
    ASSUME FramesIInv, NEW m \in Messages, NEW n \in Messages, MoveMessage(m, n)
    PROVE  FramesIInv'
<1> DEFINE a == messages[m].msg
           b == messages[n].msg
           g == MessageHold(m)
           h == MessageHold(n)
           lost == {a}
<1>1. /\ m # n /\ messages[m].need_close /\ a \in Frame /\ b \in Frame /\ None \in Frame
      /\ messages' = [messages EXCEPT ![m].msg = b, ![n].msg = None]
      /\ UNCHANGED <<paths, stacks, hand>> /\ live' = (live \ lost) \cup {}
  BY ListTypes DEF MoveMessage, Unsent, FramesIInv, Frame
<1>2. /\ messages'[m].msg = b /\ messages'[n].msg = None
      /\ \A k \in Messages : k # m /\ k # n => messages'[k].msg = messages[k].msg
      /\ \A k \in Messages : messages'[k].need_close = messages[k].need_close
      /\ messages' \in [Messages -> [msg : Frame, need_close : BOOLEAN]]
  BY SMTT(30), <1>1 DEF FramesIInv, FramesTypeOK
<1>3. FramesTypeOK'
  <2>1. live' \in SUBSET Refs BY <1>1 DEF FramesIInv, FramesTypeOK
  <2> QED BY <1>1, <1>2, <2>1 DEF FramesIInv, FramesTypeOK
<1>4. SentEmpty'
  <2>1. ASSUME NEW k \in Messages, ~messages'[k].need_close PROVE messages'[k].msg = None
    BY <1>1, <1>2, <2>1 DEF FramesIInv, SentEmpty
  <2> QED BY <1>1, <2>1 DEF FramesIInv, SentEmpty, Ready
<1>5. /\ g \in Holders /\ h \in Holders /\ g # h
      /\ Held[g] = <<a>> /\ Held[h] = <<b>> /\ Held'[g] = <<b>> /\ Held'[h] = <<None>>
  BY <1>1, <1>2, HeldIs, HolderKinds DEF HoldIs
<1>6. \A f \in Holders \ {g, h} : Held'[f] = Held[f]
  <2> TAKE f \in Holders \ {g, h}
  <2>1. \A k \in Messages : f = MessageHold(k) => messages'[k].msg = messages[k].msg BY <1>2
  <2> QED BY <1>1, <2>1, SameHeld
<1> HIDE DEF a, b, g, h
<1>7. /\ RefsIn(Held[g]) = {a} \ {None} /\ RefsIn(Held[h]) = {b} \ {None}
      /\ RefsIn(Held'[g]) = {b} \ {None} /\ RefsIn(Held'[h]) = {}
      /\ Held'[g] \in Seq(Frame) /\ Each(Held'[g]) /\ Held'[h] \in Seq(Frame) /\ Each(Held'[h])
  BY <1>1, <1>5, RefsInOne
<1>8. RefsIn(Held[g]) \cap RefsIn(Held[h]) = {} BY <1>5, HeldApart
<1>9. None \notin live BY FrameAssumption DEF FramesIInv, FramesTypeOK
<1>10. /\ RefsIn(Held'[g]) \cap RefsIn(Held'[h]) = {}
       /\ RefsIn(Held'[g]) \cup RefsIn(Held'[h])
            = ((RefsIn(Held[g]) \cup RefsIn(Held[h])) \ lost) \cup {}
       /\ lost \cap live \subseteq RefsIn(Held[g]) \cup RefsIn(Held[h])
       /\ {} \cap live = {}
  BY <1>7, <1>8, <1>9
<1>11. Partition(Held, live) BY DEF FramesIInv
<1> HIDE DEF lost
<1>12. Partition(Held', live') BY <1>1, <1>5, <1>6, <1>7, <1>10, <1>11, ExchangeTwo
<1> QED BY <1>3, <1>4, <1>12 DEF FramesIInv

LEMMA InitPointerKeeps == ASSUME FramesIInv, NEW m \in Messages, InitPointer(m) PROVE FramesIInv'
<1> DEFINE a == messages[m].msg
           g == MessageHold(m)
           h == HandHold
           lost == {a}
<1>1. /\ messages[m].need_close /\ a \in Frame /\ hand \in Frame /\ None \in Frame
      /\ messages' = [messages EXCEPT ![m].msg = hand]
      /\ UNCHANGED <<paths, stacks>> /\ live' = (live \ lost) \cup {} /\ hand' = None
  BY ListTypes DEF InitPointer, Overwrite, Unsent, FramesIInv, Frame
<1>2. /\ messages'[m].msg = hand
      /\ \A k \in Messages : k # m => messages'[k].msg = messages[k].msg
      /\ \A k \in Messages : messages'[k].need_close = messages[k].need_close
      /\ messages' \in [Messages -> [msg : Frame, need_close : BOOLEAN]]
  BY <1>1 DEF FramesIInv, FramesTypeOK
<1>3. FramesTypeOK'
  <2>1. live' \in SUBSET Refs BY <1>1 DEF FramesIInv, FramesTypeOK
  <2> QED BY <1>1, <1>2, <2>1 DEF FramesIInv, FramesTypeOK
<1>4. SentEmpty'
  <2>1. ASSUME NEW k \in Messages, ~messages'[k].need_close PROVE messages'[k].msg = None
    BY <1>1, <1>2, <2>1 DEF FramesIInv, SentEmpty
  <2> QED BY <1>1, <2>1 DEF FramesIInv, SentEmpty, Ready
<1>5. /\ g \in Holders /\ h \in Holders /\ g # h
      /\ Held[g] = <<a>> /\ Held[h] = <<hand>> /\ Held'[g] = <<hand>> /\ Held'[h] = <<None>>
  BY <1>1, <1>2, HeldIs, HolderKinds DEF HoldIs
<1>6. \A f \in Holders \ {g, h} : Held'[f] = Held[f]
  <2> TAKE f \in Holders \ {g, h}
  <2>1. \A k \in Messages : f = MessageHold(k) => messages'[k].msg = messages[k].msg BY <1>2
  <2> QED BY <1>1, <2>1, SameHeld
<1> HIDE DEF a, g, h
<1>7. /\ RefsIn(Held[g]) = {a} \ {None} /\ RefsIn(Held[h]) = {hand} \ {None}
      /\ RefsIn(Held'[g]) = {hand} \ {None} /\ RefsIn(Held'[h]) = {}
      /\ Held'[g] \in Seq(Frame) /\ Each(Held'[g]) /\ Held'[h] \in Seq(Frame) /\ Each(Held'[h])
  BY <1>1, <1>5, RefsInOne
<1>8. RefsIn(Held[g]) \cap RefsIn(Held[h]) = {} BY <1>5, HeldApart
<1>9. None \notin live BY FrameAssumption DEF FramesIInv, FramesTypeOK
<1>10. /\ RefsIn(Held'[g]) \cap RefsIn(Held'[h]) = {}
       /\ RefsIn(Held'[g]) \cup RefsIn(Held'[h])
            = ((RefsIn(Held[g]) \cup RefsIn(Held[h])) \ lost) \cup {}
       /\ lost \cap live \subseteq RefsIn(Held[g]) \cup RefsIn(Held[h])
       /\ {} \cap live = {}
  BY <1>7, <1>8, <1>9
<1>11. Partition(Held, live) BY DEF FramesIInv
<1> HIDE DEF lost
<1>12. Partition(Held', live') BY <1>1, <1>5, <1>6, <1>7, <1>10, <1>11, ExchangeTwo
<1> QED BY <1>3, <1>4, <1>12 DEF FramesIInv

\* The bits of the last frame go from a stack to the caller, or back.
LEMMA PopFrameKeeps == ASSUME FramesIInv, NEW s \in Stacks, PopFrame(s) PROVE FramesIInv'
<1> DEFINE xs == stacks[s].msgs
           ys == Front(xs)
           x == Last(xs)
           g == StackHold(s)
           h == HandHold
<1>1. /\ xs \in FrameSeqs /\ xs \in Seq(Frame) /\ Len(xs) \in Nat /\ Each(xs) /\ xs # <<>>
      /\ Owner(s) /\ hand = None /\ hand' = x /\ UNCHANGED <<paths, messages, live>>
      /\ stacks' = [stacks EXCEPT ![s].msgs = ys]
  BY ListTypes, ListParts DEF PopFrame, FramesIInv
<1>2. /\ ys \in Seq(Frame) /\ Len(ys) = Len(xs) - 1 /\ x \in Frame /\ Each(ys)
      /\ RefsIn(ys) = RefsIn(xs) \ {x} /\ RefsIn(xs) = RefsIn(ys) \cup ({x} \ {None})
  BY <1>1, RefsInFront
<1> HIDE DEF ys, x
<1>3. ys \in FrameSeqs BY <1>1, <1>2, FrameAssumption DEF FrameSeqs
<1>4. /\ stacks'[s].msgs = ys /\ stacks'[s].notClose = stacks[s].notClose
      /\ \A t \in Stacks : t # s => stacks'[t] = stacks[t]
      /\ stacks' \in [Stacks -> [msgs : FrameSeqs, notClose : BOOLEAN]]
  BY <1>1, <1>3 DEF FramesIInv, FramesTypeOK
<1>5. FramesTypeOK' BY <1>1, <1>2, <1>4 DEF FramesIInv, FramesTypeOK
<1>6. SentEmpty' BY <1>1 DEF FramesIInv, SentEmpty, Ready
<1>7. /\ g \in Holders /\ h \in Holders /\ g # h
      /\ Held[g] = xs /\ Held[h] = <<None>> /\ Held'[g] = ys /\ Held'[h] = <<x>>
  <2>1. Owner(s)' BY <1>1, <1>4 DEF Owner
  <2> QED BY <1>1, <1>4, <2>1, HeldIs, HolderKinds DEF HoldIs
<1>8. \A f \in Holders \ {g, h} : Held'[f] = Held[f]
  <2> TAKE f \in Holders \ {g, h}
  <2>1. \A t \in Stacks : f = StackHold(t) => stacks'[t] = stacks[t] BY <1>4
  <2> QED BY <1>1, <2>1, SameHeld
<1> HIDE DEF xs, g, h
<1>9. /\ RefsIn(Held[h]) = {} /\ RefsIn(Held'[h]) = {x} \ {None}
      /\ Held'[h] \in Seq(Frame) /\ Each(Held'[h])
  <2>1. None \in Frame BY DEF Frame
  <2> QED BY <1>2, <1>7, <2>1, RefsInOne
<1>10. /\ RefsIn(Held'[g]) \cap RefsIn(Held'[h]) = {}
       /\ RefsIn(Held'[g]) \cup RefsIn(Held'[h])
            = ((RefsIn(Held[g]) \cup RefsIn(Held[h])) \ {}) \cup {}
       /\ {} \cap live \subseteq RefsIn(Held[g]) \cup RefsIn(Held[h])
       /\ {} \cap live = {} /\ live' = (live \ {}) \cup {}
       /\ Held'[g] \in Seq(Frame) /\ Each(Held'[g])
  BY <1>1, <1>2, <1>7, <1>9
<1>11. Partition(Held, live) BY DEF FramesIInv
<1>12. Partition(Held', live') BY <1>7, <1>8, <1>9, <1>10, <1>11, ExchangeTwo
<1> QED BY <1>5, <1>6, <1>12 DEF FramesIInv

LEMMA PushFrameKeeps == ASSUME FramesIInv, NEW s \in Stacks, PushFrame(s) PROVE FramesIInv'
<1> DEFINE xs == stacks[s].msgs
           ys == Append(xs, hand)
           g == StackHold(s)
           h == HandHold
<1>1. /\ xs \in Seq(Frame) /\ Len(xs) \in Nat /\ Each(xs) /\ Len(xs) < ListMax
      /\ Owner(s) /\ hand # None /\ hand \in Frame /\ hand' = None
      /\ UNCHANGED <<paths, messages, live>> /\ stacks' = [stacks EXCEPT ![s].msgs = ys]
      /\ None \in Frame
  BY ListTypes, ListParts DEF PushFrame, FramesIInv, Frame
<1>2. g \in Holders /\ h \in Holders /\ g # h /\ Held[g] = xs /\ Held[h] = <<hand>>
  BY <1>1, HeldIs, HolderKinds DEF HoldIs
<1>3. RefsIn(Held[h]) = {hand} BY <1>1, <1>2, RefsInOne
<1>4. RefsIn(Held[g]) \cap RefsIn(Held[h]) = {} BY <1>2, HeldApart
<1>5. RefsIn(ys) = RefsIn(xs) \cup {hand} /\ Each(ys)
  BY <1>1, <1>2, <1>3, <1>4, RefsInAppend
<1>6. ys \in FrameSeqs BY <1>1, FrameAssumption DEF FrameSeqs
<1> HIDE DEF ys
<1>7. /\ stacks'[s].msgs = ys /\ stacks'[s].notClose = stacks[s].notClose
      /\ \A t \in Stacks : t # s => stacks'[t] = stacks[t]
      /\ stacks' \in [Stacks -> [msgs : FrameSeqs, notClose : BOOLEAN]]
  BY <1>1, <1>6 DEF FramesIInv, FramesTypeOK
<1>8. FramesTypeOK' BY <1>1, <1>7 DEF FramesIInv, FramesTypeOK
<1>9. SentEmpty' BY <1>1 DEF FramesIInv, SentEmpty, Ready
<1>10. Held'[g] = ys /\ Held'[h] = <<None>>
  <2>1. Owner(s)' BY <1>1, <1>7 DEF Owner
  <2> QED BY <1>1, <1>7, <2>1, HeldIs DEF HoldIs
<1>11. \A f \in Holders \ {g, h} : Held'[f] = Held[f]
  <2> TAKE f \in Holders \ {g, h}
  <2>1. \A t \in Stacks : f = StackHold(t) => stacks'[t] = stacks[t] BY <1>7
  <2> QED BY <1>1, <2>1, SameHeld
<1> HIDE DEF xs, g, h
<1>12. /\ RefsIn(Held'[h]) = {} /\ Held'[h] \in Seq(Frame) /\ Each(Held'[h])
  BY <1>1, <1>10, RefsInOne
<1>13. /\ RefsIn(Held'[g]) \cap RefsIn(Held'[h]) = {}
       /\ RefsIn(Held'[g]) \cup RefsIn(Held'[h])
            = ((RefsIn(Held[g]) \cup RefsIn(Held[h])) \ {}) \cup {}
       /\ {} \cap live \subseteq RefsIn(Held[g]) \cup RefsIn(Held[h])
       /\ {} \cap live = {} /\ live' = (live \ {}) \cup {}
       /\ Held'[g] \in Seq(Frame) /\ Each(Held'[g])
  BY <1>1, <1>2, <1>3, <1>5, <1>6, <1>10, <1>12 DEF FrameSeqs
<1>14. Partition(Held, live) BY DEF FramesIInv
<1>15. Partition(Held', live') BY <1>2, <1>11, <1>12, <1>13, <1>14, ExchangeTwo
<1> QED BY <1>8, <1>9, <1>15 DEF FramesIInv

LEMMA PushDestStackKeeps ==
    ASSUME FramesIInv, NEW p \in Paths, NEW s \in Stacks, PushDestStack(p, s)
    PROVE  FramesIInv'
<1> DEFINE xs == paths[p].msgs[2]
           zs == stacks[s].msgs
           ys == xs \o zs
           g == PathHold(p, 2)
           h == StackHold(s)
<1>1. /\ 2 \in FrameLists /\ xs \in Seq(Frame) /\ zs \in Seq(Frame) /\ Len(xs) + Len(zs) <= ListMax
      /\ Owner(s) /\ Ready(p) /\ UNCHANGED <<messages, hand, live>>
      /\ stacks' = [stacks EXCEPT ![s].notClose = TRUE]
      /\ paths' = [paths EXCEPT ![p].msgs[2] = ys]
  BY ListTypes DEF PushDestStack, FramesIInv
<1>2. g \in Holders /\ h \in Holders /\ g # h /\ Held[g] = xs /\ Held[h] = zs
  BY <1>1, HeldIs, HolderKinds DEF HoldIs
<1>3. RefsIn(xs) \cap RefsIn(zs) = {} /\ Each(xs) /\ Each(zs) BY <1>2, HeldApart, HeldParts
<1>4. /\ ys \in Seq(Frame) /\ Len(ys) = Len(xs) + Len(zs) /\ Each(ys)
      /\ RefsIn(ys) = RefsIn(xs) \cup RefsIn(zs)
  BY <1>1, <1>3, RefsInConcat
<1> HIDE DEF ys
<1>5. ys \in FrameSeqs BY <1>1, <1>4 DEF FrameSeqs
<1>6. PathSet(p, 2, ys) BY <1>1, <1>5, PathSets DEF FramesIInv
<1>7. /\ stacks'[s].notClose
      /\ \A t \in Stacks : t # s => stacks'[t] = stacks[t]
      /\ stacks' \in [Stacks -> [msgs : FrameSeqs, notClose : BOOLEAN]]
  BY <1>1 DEF FramesIInv, FramesTypeOK
<1>8. FramesTypeOK' BY <1>1, <1>6, <1>7 DEF FramesIInv, FramesTypeOK, PathSet, PathsType
<1>9. SentEmpty'
  <2>1. \A m \in Messages : ~messages'[m].need_close => messages'[m].msg = None
    BY <1>1 DEF FramesIInv, SentEmpty
  <2> QED BY <1>1, <1>6, <2>1, PathSetSentEmpty
<1>10. Held'[g] = ys /\ Held'[h] = <<>>
  <2>1. ~Owner(s)' BY <1>7 DEF Owner
  <2> QED BY <1>1, <1>6, <2>1, HeldIs DEF HoldIs, PathSet
<1>11. \A f \in Holders \ {g, h} : Held'[f] = Held[f]
  <2> TAKE f \in Holders \ {g, h}
  <2>1. \A t \in Stacks : f = StackHold(t) => stacks'[t] = stacks[t] BY <1>7
  <2>2. \A q \in Paths, m \in FrameLists : f = PathHold(q, m) => paths'[q].msgs[m] = paths[q].msgs[m]
    BY <1>1, <1>6, PathSetSame
  <2> QED BY <1>1, <2>1, <2>2, SameHeld
<1> HIDE DEF xs, zs, g, h
<1>12. /\ RefsIn(Held'[g]) \cap RefsIn(Held'[h]) = {}
       /\ RefsIn(Held'[g]) \cup RefsIn(Held'[h])
            = ((RefsIn(Held[g]) \cup RefsIn(Held[h])) \ {}) \cup {}
       /\ {} \cap live \subseteq RefsIn(Held[g]) \cup RefsIn(Held[h])
       /\ {} \cap live = {} /\ live' = (live \ {}) \cup {}
       /\ Held'[g] \in Seq(Frame) /\ Each(Held'[g])
       /\ Held'[h] \in Seq(Frame) /\ Each(Held'[h])
  BY <1>1, <1>2, <1>4, <1>10, RefsInNone DEF FrameSeqs
<1>13. Partition(Held, live) BY DEF FramesIInv
<1>14. Partition(Held', live') BY <1>2, <1>11, <1>12, <1>13, ExchangeTwo
<1> QED BY <1>8, <1>9, <1>14 DEF FramesIInv

LEMMA PopDestKeeps ==
    ASSUME FramesIInv, NEW p \in Paths, NEW m \in Messages, PopDest(p, m)
    PROVE  FramesIInv'
<1> DEFINE xs == paths[p].msgs[2]
           ys == Front(xs)
           x == Last(xs)
           a == messages[m].msg
           lost == {a}
           g == PathHold(p, 2)
           h == MessageHold(m)
<1>1. /\ 2 \in FrameLists /\ xs \in FrameSeqs /\ xs \in Seq(Frame) /\ Len(xs) \in Nat
      /\ Each(xs) /\ xs # <<>> /\ Ready(p) /\ UNCHANGED <<stacks, hand>>
      /\ messages' = [messages EXCEPT ![m].msg = x] /\ messages[m].need_close
      /\ live' = live \ lost /\ a \in Frame
      /\ paths' = [paths EXCEPT ![p].msgs[2] = ys]
  BY ListTypes, ListParts DEF PopDest, Overwrite, Unsent, FramesIInv
<1>2. /\ ys \in Seq(Frame) /\ Len(ys) = Len(xs) - 1 /\ x \in Frame /\ Each(ys)
      /\ RefsIn(ys) = RefsIn(xs) \ {x} /\ RefsIn(xs) = RefsIn(ys) \cup ({x} \ {None})
  BY <1>1, RefsInFront
<1> HIDE DEF ys, x
<1>3. ys \in FrameSeqs BY <1>1, <1>2, FrameAssumption DEF FrameSeqs
<1>4. PathSet(p, 2, ys) BY <1>1, <1>3, PathSets DEF FramesIInv
<1>5. /\ messages'[m].msg = x /\ messages'[m].need_close = messages[m].need_close
      /\ \A k \in Messages : k # m => messages'[k] = messages[k]
      /\ messages' \in [Messages -> [msg : Frame, need_close : BOOLEAN]]
  BY <1>1, <1>2 DEF FramesIInv, FramesTypeOK
<1>6. live' \in SUBSET Refs BY <1>1 DEF FramesIInv, FramesTypeOK
<1>7. FramesTypeOK' BY <1>1, <1>4, <1>5, <1>6 DEF FramesIInv, FramesTypeOK, PathSet, PathsType
<1>8. SentEmpty'
  <2>1. ASSUME NEW k \in Messages, ~messages'[k].need_close PROVE messages'[k].msg = None
    BY <1>1, <1>5, <2>1 DEF FramesIInv, SentEmpty
  <2> QED BY <1>1, <1>4, <2>1, PathSetSentEmpty
<1>9. /\ g \in Holders /\ h \in Holders /\ g # h
      /\ Held[g] = xs /\ Held[h] = <<a>> /\ Held'[g] = ys /\ Held'[h] = <<x>>
  BY <1>1, <1>4, <1>5, HeldIs, HolderKinds DEF HoldIs, PathSet
<1>10. \A f \in Holders \ {g, h} : Held'[f] = Held[f]
  <2> TAKE f \in Holders \ {g, h}
  <2>1. \A k \in Messages : f = MessageHold(k) => messages'[k].msg = messages[k].msg BY <1>5
  <2>2. \A q \in Paths, n \in FrameLists : f = PathHold(q, n) => paths'[q].msgs[n] = paths[q].msgs[n]
    BY <1>1, <1>4, PathSetSame
  <2> QED BY <1>1, <2>1, <2>2, SameHeld
<1> HIDE DEF xs, a, g, h
<1>11. /\ RefsIn(Held[h]) = {a} \ {None} /\ RefsIn(Held'[h]) = {x} \ {None}
       /\ Held'[h] \in Seq(Frame) /\ Each(Held'[h])
  BY <1>1, <1>2, <1>9, RefsInOne
<1>12. RefsIn(Held[g]) \cap RefsIn(Held[h]) = {} BY <1>9, HeldApart
<1>15. None \notin live BY FrameAssumption DEF FramesIInv, FramesTypeOK
<1>16. /\ RefsIn(Held'[g]) \cap RefsIn(Held'[h]) = {}
       /\ RefsIn(Held'[g]) \cup RefsIn(Held'[h])
            = ((RefsIn(Held[g]) \cup RefsIn(Held[h])) \ lost) \cup {}
       /\ lost \cap live \subseteq RefsIn(Held[g]) \cup RefsIn(Held[h])
       /\ {} \cap live = {} /\ live' = (live \ lost) \cup {}
       /\ Held'[g] \in Seq(Frame) /\ Each(Held'[g])
  <2>1. a \notin RefsIn(xs)
    <3>1. None \notin RefsIn(xs) BY <1>1, RefsInIs
    <3> QED BY <1>9, <1>11, <1>12, <3>1
  <2> QED BY <1>1, <1>2, <1>9, <1>11, <1>15, <2>1
<1>13. Partition(Held, live) BY DEF FramesIInv
<1> HIDE DEF lost
<1>14. Partition(Held', live') BY <1>9, <1>10, <1>11, <1>13, <1>16, ExchangeTwo
<1> QED BY <1>7, <1>8, <1>14 DEF FramesIInv

LEMMA SwapMessageKeeps ==
    ASSUME FramesIInv, NEW p \in Paths, NEW n \in FrameLists, NEW k, NEW m \in Messages,
           SwapMessage(p, n, k, m)
    PROVE  FramesIInv'
<1> DEFINE xs == paths[p].msgs[n]
           x == xs[k]
           y == messages[m].msg
           ys == [xs EXCEPT ![k] = y]
           g == PathHold(p, n)
           h == MessageHold(m)
<1>1. /\ xs \in FrameSeqs /\ xs \in Seq(Frame) /\ k \in 1..Len(xs) /\ y \in Frame
      /\ messages[m].need_close /\ Ready(p) /\ UNCHANGED <<stacks, hand, live>>
      /\ messages' = [messages EXCEPT ![m].msg = x]
      /\ paths' = [paths EXCEPT ![p].msgs[n] = ys]
  BY ListTypes DEF SwapMessage, Unsent, FramesIInv
<1>2. g \in Holders /\ h \in Holders /\ g # h /\ Held[g] = xs /\ Held[h] = <<y>>
  BY HeldIs, HolderKinds DEF HoldIs
<1>3. RefsIn(Held[h]) = {y} \ {None} BY <1>1, <1>2, RefsInOne
<1>4. /\ RefsIn(xs) \cap ({y} \ {None}) = {} /\ Each(xs)
  <2>1. RefsIn(Held[g]) \cap RefsIn(Held[h]) = {} /\ Each(Held[g])
    BY <1>2, HeldApart, HeldParts
  <2> HIDE DEF xs, y, g, h
  <2> QED BY <1>2, <1>3, <2>1
<1>21. None \notin RefsIn(xs) BY <1>1, RefsInIs
<1>5. y \notin RefsIn(xs) BY <1>4, <1>21
<1> HIDE DEF xs, y
<1>6. /\ ys \in Seq(Frame) /\ Len(ys) = Len(xs) /\ Each(ys)
      /\ RefsIn(ys) = (RefsIn(xs) \ {xs[k]}) \cup ({y} \ {None})
      /\ x \in Frame
  <2>1. xs \in Seq(Frame) /\ k \in 1..Len(xs) /\ y \in Frame BY <1>1
  <2>2. y \notin RefsIn(xs) \ {xs[k]} BY <1>5
  <2>3. xs[k] \in Frame BY <2>1, ElementOfSeq
  <2> QED BY <1>4, <2>1, <2>2, <2>3, RefsInExcept DEF SlotGets
<1>7. x = None \/ x \in RefsIn(xs) BY <1>1, RefsInIs
<1>8. x = y => x = None BY <1>5, <1>7
<1> HIDE DEF ys
<1>9. ys \in FrameSeqs BY <1>1, <1>6 DEF FrameSeqs
<1>10. PathSet(p, n, ys) BY <1>1, <1>9, PathSets DEF FramesIInv
<1>11. /\ messages'[m].msg = x /\ messages'[m].need_close = messages[m].need_close
       /\ \A j \in Messages : j # m => messages'[j] = messages[j]
       /\ messages' \in [Messages -> [msg : Frame, need_close : BOOLEAN]]
  BY <1>1, <1>6 DEF FramesIInv, FramesTypeOK
<1>12. FramesTypeOK' BY <1>1, <1>10, <1>11 DEF FramesIInv, FramesTypeOK, PathSet, PathsType
<1>13. SentEmpty'
  <2>1. ASSUME NEW j \in Messages, ~messages'[j].need_close PROVE messages'[j].msg = None
    BY <1>1, <1>11, <2>1 DEF FramesIInv, SentEmpty
  <2> QED BY <1>1, <1>10, <2>1, PathSetSentEmpty
<1>14. Held'[g] = ys /\ Held'[h] = <<x>>
  BY <1>10, <1>11, HeldIs DEF HoldIs, PathSet
<1>15. \A f \in Holders \ {g, h} : Held'[f] = Held[f]
  <2> TAKE f \in Holders \ {g, h}
  <2>1. \A j \in Messages : f = MessageHold(j) => messages'[j].msg = messages[j].msg BY <1>11
  <2>2. \A q \in Paths, l \in FrameLists : f = PathHold(q, l) => paths'[q].msgs[l] = paths[q].msgs[l]
    BY <1>10, PathSetSame
  <2> QED BY <1>1, <2>1, <2>2, SameHeld
<1> HIDE DEF g, h
<1>16. RefsIn(Held'[h]) = {x} \ {None} /\ Held'[h] \in Seq(Frame) /\ Each(Held'[h])
  <2> HIDE DEF x
  <2> QED BY <1>6, <1>14, RefsInOne
<1>17. /\ RefsIn(Held'[g]) = (RefsIn(xs) \ {x}) \cup ({y} \ {None})
       /\ Held'[g] \in Seq(Frame) /\ Each(Held'[g])
  BY <1>6, <1>14
<1> HIDE DEF x
<1>18. /\ RefsIn(Held'[g]) \cap RefsIn(Held'[h]) = {}
       /\ RefsIn(Held'[g]) \cup RefsIn(Held'[h])
            = ((RefsIn(Held[g]) \cup RefsIn(Held[h])) \ {}) \cup {}
       /\ {} \cap live \subseteq RefsIn(Held[g]) \cup RefsIn(Held[h])
       /\ {} \cap live = {} /\ live' = (live \ {}) \cup {}
  BY <1>1, <1>2, <1>3, <1>5, <1>7, <1>8, <1>16, <1>17, <1>21
<1>19. Partition(Held, live) BY DEF FramesIInv
<1>20. Partition(Held', live') BY <1>2, <1>15, <1>16, <1>17, <1>18, <1>19, ExchangeTwo
<1> QED BY <1>12, <1>13, <1>20 DEF FramesIInv

LEMMA SwapRouteKeeps ==
    ASSUME FramesIInv, NEW p \in Paths, NEW s \in Stacks, SwapRoute(p, s)
    PROVE  FramesIInv'
<1> DEFINE xs == paths[p].msgs[2]
           zs == stacks[s].msgs
           g == PathHold(p, 2)
           h == StackHold(s)
<1>1. /\ 2 \in FrameLists /\ xs \in FrameSeqs /\ zs \in FrameSeqs
      /\ Owner(s) /\ Ready(p) /\ UNCHANGED <<messages, hand, live>>
      /\ stacks' = [stacks EXCEPT ![s].msgs = xs]
      /\ paths' = [paths EXCEPT ![p].msgs[2] = zs]
  BY ListTypes DEF SwapRoute, FramesIInv
<1>2. g \in Holders /\ h \in Holders /\ g # h /\ Held[g] = xs /\ Held[h] = zs
  BY <1>1, HeldIs, HolderKinds DEF HoldIs
<1>3. /\ RefsIn(Held[g]) \cap RefsIn(Held[h]) = {}
      /\ Held[g] \in Seq(Frame) /\ Each(Held[g]) /\ Held[h] \in Seq(Frame) /\ Each(Held[h])
  BY <1>2, HeldApart, HeldParts
<1> HIDE DEF xs, zs
<1>4. PathSet(p, 2, zs) BY <1>1, PathSets DEF FramesIInv
<1>5. /\ stacks'[s].msgs = xs /\ stacks'[s].notClose = stacks[s].notClose
      /\ \A t \in Stacks : t # s => stacks'[t] = stacks[t]
      /\ stacks' \in [Stacks -> [msgs : FrameSeqs, notClose : BOOLEAN]]
  BY <1>1 DEF FramesIInv, FramesTypeOK
<1>6. FramesTypeOK' BY <1>1, <1>4, <1>5 DEF FramesIInv, FramesTypeOK, PathSet, PathsType
<1>7. SentEmpty'
  <2>1. \A m \in Messages : ~messages'[m].need_close => messages'[m].msg = None
    BY <1>1 DEF FramesIInv, SentEmpty
  <2> QED BY <1>1, <1>4, <2>1, PathSetSentEmpty
<1>8. Held'[g] = zs /\ Held'[h] = xs
  <2>1. Owner(s)' BY <1>1, <1>5 DEF Owner
  <2> QED BY <1>1, <1>4, <1>5, <2>1, HeldIs DEF HoldIs, PathSet
<1>9. \A f \in Holders \ {g, h} : Held'[f] = Held[f]
  <2> TAKE f \in Holders \ {g, h}
  <2>1. \A t \in Stacks : f = StackHold(t) => stacks'[t] = stacks[t] BY <1>5
  <2>2. \A q \in Paths, m \in FrameLists : f = PathHold(q, m) => paths'[q].msgs[m] = paths[q].msgs[m]
    BY <1>1, <1>4, PathSetSame
  <2> QED BY <1>1, <2>1, <2>2, SameHeld
<1> HIDE DEF g, h
<1>10. /\ RefsIn(Held'[g]) \cap RefsIn(Held'[h]) = {}
       /\ RefsIn(Held'[g]) \cup RefsIn(Held'[h])
            = ((RefsIn(Held[g]) \cup RefsIn(Held[h])) \ {}) \cup {}
       /\ {} \cap live \subseteq RefsIn(Held[g]) \cup RefsIn(Held[h])
       /\ {} \cap live = {} /\ live' = (live \ {}) \cup {}
       /\ Held'[g] \in Seq(Frame) /\ Each(Held'[g])
       /\ Held'[h] \in Seq(Frame) /\ Each(Held'[h])
  BY <1>1, <1>2, <1>3, <1>8
<1>11. Partition(Held, live) BY DEF FramesIInv
<1>12. Partition(Held', live') BY <1>2, <1>9, <1>10, <1>11, ExchangeTwo
<1> QED BY <1>6, <1>7, <1>12 DEF FramesIInv

-----------------------------------------------------------------------------
(* The calls that change several lists of a path.                          *)

\* The lists of path p become ls.
PathBecomes(p, ls) ==
    /\ paths' \in PathsType
    /\ \A n \in FrameLists : paths'[p].msgs[n] = ls[n]
    /\ \A q \in Paths : q # p => paths'[q] = paths[q]

\* The references of ls are those of p's lists, less some that are lost, and new ones.
PathGets(p, ls, lost, new) ==
    /\ new \in SUBSET Refs /\ new \cap live = {} /\ live' = (live \ lost) \cup new
    /\ \A n \in FrameLists : ls[n] \in Seq(Frame) /\ Each(ls[n])
    /\ \A m, n \in FrameLists : m # n => RefsIn(ls[m]) \cap RefsIn(ls[n]) = {}
    /\ \A r : (\E n \in FrameLists : r \in RefsIn(ls[n])) <=>
            \/ r \in new
            \/ r \notin lost /\ \E n \in FrameLists : r \in RefsIn(paths[p].msgs[n])
    /\ \A r \in lost \cap live : \E n \in FrameLists : r \in RefsIn(paths[p].msgs[n])
    /\ ~paths'[p].need_close => \A n \in FrameLists : RefsIn(ls[n]) = {}

LEMMA PathAllKeeps ==
    ASSUME FramesIInv, NEW p \in Paths, NEW ls, PathBecomes(p, ls),
           UNCHANGED <<stacks, messages, hand>>, NEW lost, NEW new, PathGets(p, ls, lost, new)
    PROVE  FramesIInv'
<1> USE DEF PathGets
<1>1. FramesTypeOK'
  <2>1. live' \in SUBSET Refs BY DEF FramesIInv, FramesTypeOK
  <2> QED BY <2>1 DEF FramesIInv, FramesTypeOK, PathBecomes, PathsType
<1>2. SentEmpty'
  <2>1. ASSUME NEW q \in Paths, ~paths'[q].need_close, NEW m \in FrameLists
        PROVE  RefsIn(paths'[q].msgs[m]) = {}
    BY <2>1 DEF FramesIInv, SentEmpty, Ready, PathBecomes
  <2> QED BY <2>1 DEF FramesIInv, SentEmpty, Ready
<1>3. \A n \in FrameLists : /\ Held[PathHold(p, n)] = paths[p].msgs[n]
                            /\ Held'[PathHold(p, n)] = ls[n]
  BY HeldIs DEF HoldIs, PathBecomes
<1>4. \A h \in Holders : (\A n \in FrameLists : h # PathHold(p, n)) => Held'[h] = Held[h]
  <2> SUFFICES ASSUME NEW h \in Holders, \A n \in FrameLists : h # PathHold(p, n)
               PROVE  Held'[h] = Held[h]
    OBVIOUS
  <2>1. \A q \in Paths, m \in FrameLists : h = PathHold(q, m) => paths'[q].msgs[m] = paths[q].msgs[m]
    BY DEF PathBecomes
  <2> QED BY <2>1, SameHeld
<1>5. Partition(Held, live) BY DEF FramesIInv
<1>6. /\ \A n \in FrameLists : /\ Held'[PathHold(p, n)] \in Seq(Frame)
                               /\ Each(Held'[PathHold(p, n)])
      /\ \A m, n \in FrameLists : m # n =>
            RefsIn(Held'[PathHold(p, m)]) \cap RefsIn(Held'[PathHold(p, n)]) = {}
  BY ZenonT(40), <1>3
<1>7. \A r : (\E n \in FrameLists : r \in RefsIn(Held'[PathHold(p, n)])) <=>
            \/ r \in new
            \/ r \notin lost /\ \E n \in FrameLists : r \in RefsIn(Held[PathHold(p, n)])
  BY <1>3
<1>8. \A r \in lost \cap live : \E n \in FrameLists : r \in RefsIn(Held[PathHold(p, n)]) BY <1>3
<1>10. ExchangedPath(Held, Held', live, live', p, lost, new)
  BY <1>4, <1>5, <1>6, <1>7, <1>8 DEF ExchangedPath
<1>9. Partition(Held', live') BY <1>10, ExchangePath
<1> QED BY <1>1, <1>2, <1>9 DEF FramesIInv

\* What the lists of a path are to each other.
LEMMA PathLists ==
    ASSUME FramesIInv, NEW p \in Paths
    PROVE  /\ \A n \in FrameLists : /\ paths[p].msgs[n] \in FrameSeqs /\ paths[p].msgs[n] \in Seq(Frame)
                                    /\ Each(paths[p].msgs[n]) /\ RefsIn(paths[p].msgs[n]) \subseteq live
           /\ \A m, n \in FrameLists : m # n =>
                RefsIn(paths[p].msgs[m]) \cap RefsIn(paths[p].msgs[n]) = {}
<1>1. ASSUME NEW m \in FrameLists, NEW n \in FrameLists, m # n
      PROVE  RefsIn(paths[p].msgs[m]) \cap RefsIn(paths[p].msgs[n]) = {}
  <2>1. /\ PathHold(p, m) \in Holders /\ PathHold(p, n) \in Holders /\ PathHold(p, m) # PathHold(p, n)
        /\ Held[PathHold(p, m)] = paths[p].msgs[m] /\ Held[PathHold(p, n)] = paths[p].msgs[n]
    BY <1>1, HeldIs, HolderKinds DEF HoldIs
  <2>2. RefsIn(Held[PathHold(p, m)]) \cap RefsIn(Held[PathHold(p, n)]) = {} BY <2>1, HeldApart
  <2> QED BY <2>1, <2>2
<1> QED BY <1>1, ListTypes, ListParts DEF FramesIInv

LEMMA ReleaseKeeps == ASSUME FramesIInv, NEW p \in Paths, Release(p) PROVE FramesIInv'
<1> DEFINE ls == [n \in FrameLists |-> <<>>]
           lost == PathRefs(p)
<1>1. PathBecomes(p, ls)
  <2>1. \A n \in FrameLists : NewPath.msgs[n] = <<>> BY DEF NewPath
  <2>2. NewPath \in [msgs : [FrameLists -> FrameSeqs], need_close : BOOLEAN]
    BY RefsInNone DEF NewPath
  <2>3. paths' = [paths EXCEPT ![p] = NewPath] BY DEF Release
  <2> QED BY <2>1, <2>2, <2>3 DEF PathBecomes, PathsType, FramesIInv, FramesTypeOK
<1>2. UNCHANGED <<stacks, messages, hand>> /\ live' = (live \ lost) \cup {} BY DEF Release
<1>3. \A n \in FrameLists : ls[n] \in Seq(Frame) /\ Each(ls[n]) /\ RefsIn(ls[n]) = {}
  BY RefsInNone DEF FrameSeqs
<1>4. \A r : r \in lost <=> \E n \in FrameLists : r \in RefsIn(paths[p].msgs[n]) BY DEF PathRefs
<1> HIDE DEF ls, lost
<1>5. /\ \A r : (\E n \in FrameLists : r \in RefsIn(ls[n])) <=>
            \/ r \in {}
            \/ r \notin lost /\ \E n \in FrameLists : r \in RefsIn(paths[p].msgs[n])
      /\ \A r \in lost \cap live : \E n \in FrameLists : r \in RefsIn(paths[p].msgs[n])
      /\ \A m, n \in FrameLists : m # n => RefsIn(ls[m]) \cap RefsIn(ls[n]) = {}
      /\ ~paths'[p].need_close => \A n \in FrameLists : RefsIn(ls[n]) = {}
  BY <1>3, <1>4
<1>6. {} \in SUBSET Refs /\ {} \cap live = {} OBVIOUS
<1>7. PathGets(p, ls, lost, {}) BY <1>2, <1>3, <1>5, <1>6 DEF PathGets
<1> QED BY <1>1, <1>2, <1>7, PathAllKeeps

LEMMA CloseMsgKeeps ==
    ASSUME FramesIInv, NEW p \in Paths, NEW which \in SUBSET FrameLists, CloseMsg(p, which)
    PROVE  FramesIInv'
<1> DEFINE gone == IF Ready(p) THEN which ELSE FrameLists
           ls == [n \in FrameLists |-> IF n \in gone THEN <<>> ELSE paths[p].msgs[n]]
           lost == UNION {RefsIn(paths[p].msgs[n]) : n \in gone}
<1>1. /\ paths' = [paths EXCEPT ![p].msgs = ls] /\ UNCHANGED <<stacks, messages, hand>>
      /\ live' = IF Ready(p) THEN live \ lost ELSE live
      /\ gone \in SUBSET FrameLists
  BY DEF CloseMsg
<1>2. ~Ready(p) => \A n \in FrameLists : RefsIn(paths[p].msgs[n]) = {} BY DEF FramesIInv, SentEmpty
<1>3. ls \in [FrameLists -> FrameSeqs] BY PathLists, RefsInNone
<1>4. \A n \in FrameLists : /\ n \in gone => ls[n] = <<>>
                            /\ n \notin gone => ls[n] = paths[p].msgs[n]
  OBVIOUS
<1>5. \A r : r \in lost <=> \E n \in gone : r \in RefsIn(paths[p].msgs[n]) OBVIOUS
<1> HIDE DEF ls, lost
<1>6. PathBecomes(p, ls) /\ paths'[p].need_close = paths[p].need_close
  BY <1>1, <1>3 DEF PathBecomes, PathsType, FramesIInv, FramesTypeOK
<1>7. live' = (live \ lost) \cup {}
  <2>1. ~Ready(p) => lost = {} BY <1>1, <1>2, <1>5
  <2> HIDE DEF gone
  <2> QED BY <1>1, <2>1
<1> HIDE DEF gone
<1>8. \A n \in FrameLists : /\ ls[n] \in Seq(Frame) /\ Each(ls[n])
                            /\ \A r : r \in RefsIn(ls[n]) <=> n \notin gone /\ r \in RefsIn(paths[p].msgs[n])
  BY <1>4, PathLists, RefsInNone DEF FrameSeqs
<1>9. \A m, n \in FrameLists : m # n => \A r : ~(r \in RefsIn(paths[p].msgs[m]) /\ r \in RefsIn(paths[p].msgs[n]))
  BY PathLists
<1>10. /\ \A r : (\E n \in FrameLists : r \in RefsIn(ls[n])) <=>
            \/ r \in {}
            \/ r \notin lost /\ \E n \in FrameLists : r \in RefsIn(paths[p].msgs[n])
       /\ \A r \in lost \cap live : \E n \in FrameLists : r \in RefsIn(paths[p].msgs[n])
       /\ \A m, n \in FrameLists : m # n => RefsIn(ls[m]) \cap RefsIn(ls[n]) = {}
       /\ ~paths'[p].need_close => \A n \in FrameLists : RefsIn(ls[n]) = {}
  <2>1. \A m, n \in FrameLists : m # n => RefsIn(ls[m]) \cap RefsIn(ls[n]) = {} BY <1>8, <1>9
  <2>2. ~paths'[p].need_close => \A n \in FrameLists : RefsIn(ls[n]) = {}
    BY <1>2, <1>6, <1>8 DEF Ready
  <2>3. \A r \in lost \cap live : \E n \in FrameLists : r \in RefsIn(paths[p].msgs[n])
    BY <1>1, <1>5
  <2>4. ASSUME NEW r
        PROVE  (\E n \in FrameLists : r \in RefsIn(ls[n])) <=>
               r \notin lost /\ \E n \in FrameLists : r \in RefsIn(paths[p].msgs[n])
    BY <1>1, <1>5, <1>8, <1>9
  <2> QED BY <2>1, <2>2, <2>3, <2>4
<1>11. {} \in SUBSET Refs /\ {} \cap live = {} OBVIOUS
<1>12. PathGets(p, ls, lost, {}) BY <1>7, <1>8, <1>10, <1>11 DEF PathGets
<1> QED BY <1>1, <1>6, <1>12, PathAllKeeps

\* g is the paths f with ys in list n of path p.
ListAssigned(f, g, p, n, ys) ==
    /\ g \in PathsType /\ g[p].msgs[n] = ys
    /\ \A m \in FrameLists : m # n => g[p].msgs[m] = f[p].msgs[m]
    /\ \A q \in Paths : q # p => g[q] = f[q]
    /\ g[p].need_close = f[p].need_close

LEMMA ListSets ==
    ASSUME NEW f \in PathsType, NEW p \in Paths, NEW n \in FrameLists, NEW ys \in FrameSeqs,
           NEW g, g = [f EXCEPT ![p].msgs[n] = ys]
    PROVE  ListAssigned(f, g, p, n, ys)
BY DEF PathsType, ListAssigned

\* A list is all that is assigned.
LEMMA AssignedIs ==
    ASSUME NEW f \in PathsType, NEW g, NEW p \in Paths, NEW n \in FrameLists, NEW ys,
           ListAssigned(f, g, p, n, ys)
    PROVE  g = [f EXCEPT ![p].msgs[n] = ys]
<1>1. /\ g \in PathsType /\ g[p].msgs[n] = ys /\ g[p].need_close = f[p].need_close
      /\ \A m \in FrameLists : m # n => g[p].msgs[m] = f[p].msgs[m]
      /\ \A q \in Paths : q # p => g[q] = f[q]
  BY DEF ListAssigned
<1>2. PICK ls : ls = [f[p].msgs EXCEPT ![n] = ys] OBVIOUS
<1>3. g[p].msgs = ls
  <2>1. g[p].msgs \in [FrameLists -> FrameSeqs] /\ f[p].msgs \in [FrameLists -> FrameSeqs]
    BY <1>1 DEF PathsType
  <2> QED BY <1>1, <1>2, <2>1
<1>4. g[p] = [f[p] EXCEPT !.msgs = ls]
  <2>1. /\ g[p] \in [msgs : [FrameLists -> FrameSeqs], need_close : BOOLEAN]
        /\ f[p] \in [msgs : [FrameLists -> FrameSeqs], need_close : BOOLEAN]
    BY <1>1 DEF PathsType
  <2> QED BY <1>1, <1>3, <2>1
<1>5. g = [f EXCEPT ![p] = [f[p] EXCEPT !.msgs = ls]] BY <1>1, <1>4 DEF PathsType
<1> QED BY <1>2, <1>5

LEMMA SlotSets ==
    ASSUME NEW f \in PathsType, NEW p \in Paths, NEW n \in FrameLists,
           NEW j \in 1..Len(f[p].msgs[n]), NEW x \in Frame,
           NEW g, g = [f EXCEPT ![p].msgs[n][j] = x]
    PROVE  ListAssigned(f, g, p, n, [f[p].msgs[n] EXCEPT ![j] = x])
<1>1. f[p].msgs[n] \in FrameSeqs BY DEF PathsType
<1>2. [f[p].msgs[n] EXCEPT ![j] = x] \in FrameSeqs BY <1>1 DEF FrameSeqs
<1>3. PICK ys \in FrameSeqs : ys = [f[p].msgs[n] EXCEPT ![j] = x] BY <1>2
<1>4. g = [f EXCEPT ![p].msgs[n] = ys] BY <1>3
<1>5. ListAssigned(f, g, p, n, ys) BY <1>4, ListSets
<1> QED BY <1>3, <1>5

LEMMA SwapSlotsKeeps ==
    ASSUME FramesIInv, NEW p \in Paths, NEW n \in FrameLists, NEW j, NEW k, SwapSlots(p, n, j, k)
    PROVE  FramesIInv'
<1> DEFINE xs == paths[p].msgs[n]
           ds == paths[p].msgs[2]
           ls == paths'[p].msgs
<1>1. /\ 2 \in FrameLists /\ j \in 1..Len(xs) /\ k \in 1..Len(ds)
      /\ xs \in Seq(Frame) /\ ds \in Seq(Frame) /\ Each(xs) /\ Each(ds)
      /\ xs[j] \in Frame /\ ds[k] \in Frame
      /\ paths \in PathsType /\ UNCHANGED <<stacks, messages, hand, live>>
  <2>1. /\ 2 \in FrameLists /\ xs \in Seq(Frame) /\ ds \in Seq(Frame) /\ Each(xs) /\ Each(ds)
        /\ j \in 1..Len(xs) /\ k \in 1..Len(ds)
        /\ paths \in PathsType /\ UNCHANGED <<stacks, messages, hand, live>>
    BY ListTypes, ListParts DEF SwapSlots, FramesIInv, FramesTypeOK, PathsType
  <2> HIDE DEF xs, ds
  <2>2. xs[j] \in Frame /\ ds[k] \in Frame BY <2>1, ElementOfSeq
  <2> QED BY <2>1, <2>2
<1>2. PICK a \in Frame, b \in Frame : a = xs[j] /\ b = ds[k] BY <1>1
<1>3. PICK f : f = [paths EXCEPT ![p].msgs[n][j] = b] OBVIOUS
<1>4. paths' = [f EXCEPT ![p].msgs[2][k] = a] BY <1>2, <1>3 DEF SwapSlots
<1>5. ListAssigned(paths, f, p, n, [xs EXCEPT ![j] = b])
  <2>1. ListAssigned(paths, f, p, n, [paths[p].msgs[n] EXCEPT ![j] = b])
    BY <1>1, <1>3, SlotSets
  <2> QED BY <2>1
<1>6. /\ f \in PathsType /\ f[p].msgs[n] = [xs EXCEPT ![j] = b]
      /\ \A m \in FrameLists : m # n => f[p].msgs[m] = paths[p].msgs[m]
      /\ \A q \in Paths : q # p => f[q] = paths[q]
      /\ f[p].need_close = paths[p].need_close
  BY <1>5 DEF ListAssigned
<1>7. k \in 1..Len(f[p].msgs[2])
  <2>1. CASE n = 2
    <3>1. f[p].msgs[2] = [xs EXCEPT ![j] = b] /\ xs = ds BY <1>6, <2>1
    <3> HIDE DEF xs, ds
    <3> QED BY <1>1, <3>1
  <2>2. CASE n # 2 BY <1>1, <1>6, <2>2
  <2> QED BY <2>1, <2>2
<1>8. PICK g : g = paths' OBVIOUS
<1>9. ListAssigned(f, g, p, 2, [f[p].msgs[2] EXCEPT ![k] = a])
  <2>1. g = [f EXCEPT ![p].msgs[2][k] = a] BY <1>4, <1>8
  <2> QED BY <1>1, <1>6, <1>7, <2>1, SlotSets
<1>10. /\ g \in PathsType /\ g[p].msgs[2] = [f[p].msgs[2] EXCEPT ![k] = a]
       /\ \A m \in FrameLists : m # 2 => g[p].msgs[m] = f[p].msgs[m]
       /\ \A q \in Paths : q # p => g[q] = f[q]
       /\ g[p].need_close = f[p].need_close
  BY <1>9 DEF ListAssigned
<1>11. PathBecomes(p, ls) /\ paths'[p].need_close = paths[p].need_close
  BY <1>6, <1>8, <1>10 DEF PathBecomes
<1>12. ~Ready(p) => \A m \in FrameLists : RefsIn(paths[p].msgs[m]) = {}
  BY DEF FramesIInv, SentEmpty
<1>13. /\ \A m \in FrameLists : ls[m] \in Seq(Frame) /\ Each(ls[m])
       /\ \A l, m \in FrameLists : l # m => RefsIn(ls[l]) \cap RefsIn(ls[m]) = {}
       /\ \A r : (\E m \in FrameLists : r \in RefsIn(ls[m])) <=>
                 \E m \in FrameLists : r \in RefsIn(paths[p].msgs[m])
  <2>1. \A m \in FrameLists : m # n /\ m # 2 => ls[m] = paths[p].msgs[m] BY <1>6, <1>8, <1>10
  <2>2. CASE n = 2
    <3>1. xs = ds /\ ls[2] = [xs EXCEPT ![j] = xs[k], ![k] = xs[j]]
      BY <1>2, <1>6, <1>8, <1>10, <2>2
    <3> HIDE DEF xs, ds
    <3>2. ls[2] \in Seq(Frame) /\ Each(ls[2]) /\ RefsIn(ls[2]) = RefsIn(xs)
      BY <1>1, <3>1, RefsInSwap
    <3>3. \A m \in FrameLists : /\ ls[m] \in Seq(Frame) /\ Each(ls[m])
                                /\ RefsIn(ls[m]) = RefsIn(paths[p].msgs[m])
      BY <2>1, <2>2, <3>2, PathLists DEF xs
    <3> QED BY <3>3, PathLists
  <2>3. CASE n # 2
    <3>1. ls[n] = [xs EXCEPT ![j] = b] /\ ls[2] = [ds EXCEPT ![k] = a]
      BY <1>1, <1>6, <1>8, <1>10, <2>3
    <3>2. RefsIn(xs) \cap RefsIn(ds) = {} BY <1>1, <2>3, PathLists
    <3> HIDE DEF xs, ds
    <3>3. /\ None \notin RefsIn(xs) /\ None \notin RefsIn(ds)
          /\ a = None \/ a \in RefsIn(xs)
          /\ b = None \/ b \in RefsIn(ds)
      BY <1>1, <1>2, RefsInIs
    <3>4. /\ ls[n] \in Seq(Frame) /\ Each(ls[n])
          /\ RefsIn(ls[n]) = (RefsIn(xs) \ {a}) \cup ({b} \ {None})
      <4>1. b \notin RefsIn(xs) \ {xs[j]} BY <3>2, <3>3
      <4>2. xs \in Seq(Frame) /\ j \in 1..Len(xs) /\ b \in Frame /\ Each(xs) BY <1>1
      <4>3. SlotGets(xs, j, b, [xs EXCEPT ![j] = b])
        BY <4>1, <4>2, RefsInExcept
      <4> HIDE DEF ls
      <4> QED BY <1>2, <3>1, <4>3 DEF SlotGets
    <3>5. /\ ls[2] \in Seq(Frame) /\ Each(ls[2])
          /\ RefsIn(ls[2]) = (RefsIn(ds) \ {b}) \cup ({a} \ {None})
      <4>1. a \notin RefsIn(ds) \ {ds[k]} BY <3>2, <3>3
      <4>2. ds \in Seq(Frame) /\ k \in 1..Len(ds) /\ a \in Frame /\ Each(ds) BY <1>1
      <4>3. SlotGets(ds, k, a, [ds EXCEPT ![k] = a])
        BY <4>1, <4>2, RefsInExcept
      <4> HIDE DEF ls
      <4> QED BY <1>2, <3>1, <4>3 DEF SlotGets
    <3>6. \A m \in FrameLists : ls[m] \in Seq(Frame) /\ Each(ls[m])
      BY <2>1, <3>4, <3>5, PathLists
    <3>7. /\ RefsIn(ls[n]) \cap RefsIn(ls[2]) = {}
          /\ RefsIn(ls[n]) \cup RefsIn(ls[2]) = RefsIn(xs) \cup RefsIn(ds)
      BY <3>2, <3>3, <3>4, <3>5
    <3>8. \A l, m \in FrameLists : l # m =>
             \A r : ~(r \in RefsIn(paths[p].msgs[l]) /\ r \in RefsIn(paths[p].msgs[m]))
      BY PathLists
    <3>9. ASSUME NEW m \in FrameLists, m # n, m # 2
          PROVE  /\ RefsIn(ls[m]) = RefsIn(paths[p].msgs[m])
                 /\ RefsIn(ls[m]) \cap RefsIn(ls[n]) = {} /\ RefsIn(ls[m]) \cap RefsIn(ls[2]) = {}
      <4>1. RefsIn(ls[m]) = RefsIn(paths[p].msgs[m]) BY <2>1, <3>9
      <4>2. RefsIn(ls[m]) \cap RefsIn(xs) = {} /\ RefsIn(ls[m]) \cap RefsIn(ds) = {}
        BY <1>1, <3>8, <3>9, <4>1 DEF xs, ds
      <4> QED BY <3>7, <4>1, <4>2
    <3>10. \A l, m \in FrameLists : l # m => RefsIn(ls[l]) \cap RefsIn(ls[m]) = {}
      <4> HIDE DEF ls
      <4>1. RefsIn(ls[2]) \cap RefsIn(ls[n]) = {} BY <3>7
      <4>2. \A m \in FrameLists : m # n /\ m # 2 =>
              /\ RefsIn(ls[n]) \cap RefsIn(ls[m]) = {} /\ RefsIn(ls[2]) \cap RefsIn(ls[m]) = {}
              /\ RefsIn(ls[m]) \cap RefsIn(ls[n]) = {} /\ RefsIn(ls[m]) \cap RefsIn(ls[2]) = {}
        BY <3>9
      <4>3. ASSUME NEW l \in FrameLists, NEW m \in FrameLists, l # m,
                   l # n, l # 2, m # n, m # 2
            PROVE  RefsIn(ls[l]) \cap RefsIn(ls[m]) = {}
        BY <3>8, <3>9, <4>3
      <4> QED BY <3>7, <4>1, <4>2, <4>3
    <3>11. ASSUME NEW r
           PROVE  (\E m \in FrameLists : r \in RefsIn(ls[m])) <=>
                  \E m \in FrameLists : r \in RefsIn(paths[p].msgs[m])
      <4> HIDE DEF ls
      <4>1. r \in RefsIn(ls[n]) \/ r \in RefsIn(ls[2])
              <=> r \in RefsIn(paths[p].msgs[n]) \/ r \in RefsIn(paths[p].msgs[2])
        BY <3>7 DEF xs, ds
      <4> QED BY <1>1, <3>9, <4>1
    <3> QED BY <3>6, <3>10, <3>11
  <2> QED BY <2>2, <2>3
<1>14. PathGets(p, ls, {}, {})
  <2>1. ~paths'[p].need_close => \A m \in FrameLists : RefsIn(ls[m]) = {}
    BY <1>11, <1>12, <1>13 DEF Ready
  <2>2. {} \in SUBSET Refs /\ {} \cap live = {} /\ live' = (live \ {}) \cup {} BY <1>1
  <2> HIDE DEF ls
  <2> QED BY <1>13, <2>1, <2>2 DEF PathGets
<1> HIDE DEF ls
<1> QED BY <1>1, <1>11, <1>14, PathAllKeeps

LEMMA MoveUserDataKeeps ==
    ASSUME FramesIInv, NEW p \in Paths, NEW q \in Paths, NEW k, MoveUserData(p, q, k)
    PROVE  FramesIInv'
<1> DEFINE xs == paths[p].msgs[1]
           zs == paths[q].msgs[1]
           a == xs[k]
           b == zs[k]
           lost == {a}
<1>1. /\ 1 \in FrameLists /\ k \in 1..Len(xs) /\ k \in 1..Len(zs) /\ None \in Frame
      /\ xs \in Seq(Frame) /\ zs \in Seq(Frame) /\ Each(xs) /\ Each(zs) /\ Ready(p)
      /\ a \in Frame /\ b \in Frame /\ xs \in FrameSeqs /\ zs \in FrameSeqs
      /\ paths \in PathsType /\ UNCHANGED <<stacks, messages, hand>>
      /\ live' = (live \ lost) \cup {}
  <2>1. /\ 1 \in FrameLists /\ xs \in Seq(Frame) /\ zs \in Seq(Frame) /\ Each(xs) /\ Each(zs)
        /\ k \in 1..Len(xs) /\ k \in 1..Len(zs) /\ None \in Frame /\ Ready(p)
        /\ xs \in FrameSeqs /\ zs \in FrameSeqs
        /\ paths \in PathsType /\ UNCHANGED <<stacks, messages, hand>>
        /\ live' = (live \ lost) \cup {}
    BY ListTypes, ListParts DEF MoveUserData, FramesIInv, FramesTypeOK, PathsType, Frame
  <2> HIDE DEF xs, zs
  <2>2. a \in Frame /\ b \in Frame BY <2>1, ElementOfSeq
  <2> HIDE DEF a, b
  <2> QED BY <2>1, <2>2
<1>2. None \notin live BY FrameAssumption DEF FramesIInv, FramesTypeOK
<1>3. /\ {} \in SUBSET Refs /\ {} \cap live = {} OBVIOUS
<1>4. CASE p = q
  <2> DEFINE ys == [xs EXCEPT ![k] = None]
  <2>1. paths' = [paths EXCEPT ![p].msgs[1] = ys]
    <3>1. PICK f : f = [paths EXCEPT ![p].msgs[1][k] = b] OBVIOUS
    <3>2. PICK w : w = paths' OBVIOUS
    <3>3. w = [f EXCEPT ![p].msgs[1][k] = None] BY <1>4, <3>1, <3>2 DEF MoveUserData
    <3>4. ListAssigned(paths, f, p, 1, [paths[p].msgs[1] EXCEPT ![k] = b]) BY <1>1, <3>1, SlotSets
    <3>5. f \in PathsType /\ f[p].msgs[1] = [xs EXCEPT ![k] = b] BY <3>4 DEF ListAssigned
    <3>6. k \in 1..Len(f[p].msgs[1])
      <4> HIDE DEF xs
      <4> QED BY <1>1, <3>5
    <3>7. ListAssigned(f, w, p, 1, [f[p].msgs[1] EXCEPT ![k] = None])
      BY <1>1, <3>3, <3>5, <3>6, SlotSets
    <3>8. [f[p].msgs[1] EXCEPT ![k] = None] = ys
      <4> HIDE DEF xs
      <4> QED BY <1>1, <3>5
    <3> HIDE DEF ys, xs, a, b
    <3>9. ListAssigned(paths, w, p, 1, ys)
      <4>1. w \in PathsType /\ w[p].msgs[1] = ys BY <3>7, <3>8 DEF ListAssigned
      <4> QED BY <3>4, <3>7, <4>1 DEF ListAssigned
    <3>10. w = [paths EXCEPT ![p].msgs[1] = ys] BY <1>1, <3>9, AssignedIs
    <3> QED BY <3>2, <3>10
  <2> HIDE DEF xs
  <2>2. None \notin RefsIn(xs) BY <1>1, RefsInIs
  <2>3. ys \in Seq(Frame) /\ Len(ys) = Len(xs) /\ Each(ys) /\ RefsIn(ys) = RefsIn(xs) \ {a}
    <3>1. xs \in Seq(Frame) /\ k \in 1..Len(xs) /\ None \in Frame /\ Each(xs) BY <1>1
    <3>2. None \notin RefsIn(xs) \ {xs[k]} BY <2>2
    <3>3. SlotGets(xs, k, None, ys) BY <3>1, <3>2, RefsInExcept
    <3> QED BY <3>3 DEF SlotGets
  <2> HIDE DEF ys
  <2>4. ys \in FrameSeqs BY <1>1, <2>3 DEF FrameSeqs
  <2>5. lost \cap live \subseteq RefsIn(xs) BY <1>1, <1>2, RefsInIs
  <2>6. RefsIn(ys) = (RefsIn(xs) \ lost) \cup {} BY <2>3
  <2> HIDE DEF lost
  <2> QED BY <1>1, <1>3, <2>1, <2>3, <2>4, <2>5, <2>6, PathKeeps DEF xs
<1>5. CASE p # q
  <2> DEFINE us == [xs EXCEPT ![k] = b]
             vs == [zs EXCEPT ![k] = None]
             g == PathHold(p, 1)
             h == PathHold(q, 1)
  <2>1. PICK f : f = [paths EXCEPT ![p].msgs[1][k] = b] OBVIOUS
  <2>2. paths' = [f EXCEPT ![q].msgs[1][k] = None] BY <2>1 DEF MoveUserData
  <2>3. ListAssigned(paths, f, p, 1, [paths[p].msgs[1] EXCEPT ![k] = b])
    BY <1>1, <2>1, SlotSets
  <2>4. /\ f \in PathsType /\ f[p].msgs[1] = us
        /\ \A m \in FrameLists : m # 1 => f[p].msgs[m] = paths[p].msgs[m]
        /\ \A r \in Paths : r # p => f[r] = paths[r]
        /\ f[p].need_close = paths[p].need_close
    BY <2>3 DEF ListAssigned
  <2>5. ListAssigned(f, paths', q, 1, [f[q].msgs[1] EXCEPT ![k] = None])
    <3>1. k \in 1..Len(f[q].msgs[1]) BY <1>1, <1>5, <2>4
    <3>2. PICK w : w = paths' OBVIOUS
    <3>3. w = [f EXCEPT ![q].msgs[1][k] = None] BY <2>2, <3>2
    <3>4. ListAssigned(f, w, q, 1, [f[q].msgs[1] EXCEPT ![k] = None])
      BY <1>1, <2>4, <3>1, <3>3, SlotSets
    <3> QED BY <3>2, <3>4
  <2>6. /\ paths' \in PathsType /\ paths'[p].msgs[1] = us /\ paths'[q].msgs[1] = vs
        /\ \A r \in Paths, m \in FrameLists : (r # p /\ r # q) \/ m # 1
              => paths'[r].msgs[m] = paths[r].msgs[m]
        /\ \A r \in Paths : paths'[r].need_close = paths[r].need_close
    <3>1. f[q].msgs[1] = zs BY <1>5, <2>4
    <3>2. /\ paths' \in PathsType /\ paths'[q].msgs[1] = vs
          /\ \A m \in FrameLists : m # 1 => paths'[q].msgs[m] = f[q].msgs[m]
          /\ \A r \in Paths : r # q => paths'[r] = f[r]
          /\ paths'[q].need_close = f[q].need_close
      BY <2>5, <3>1 DEF ListAssigned
    <3> HIDE DEF us, vs, xs, zs
    <3> QED BY <1>5, <2>4, <3>2
  <2>7. /\ g \in Holders /\ h \in Holders /\ g # h /\ Held[g] = xs /\ Held[h] = zs
        /\ Held'[g] = us /\ Held'[h] = vs
    BY <1>1, <1>5, <2>6, HeldIs, HolderKinds DEF HoldIs
  <2>8. \A d \in Holders \ {g, h} : Held'[d] = Held[d]
    <3> TAKE d \in Holders \ {g, h}
    <3>1. \A r \in Paths, m \in FrameLists : d = PathHold(r, m) => paths'[r].msgs[m] = paths[r].msgs[m]
      BY <2>6
    <3> QED BY <1>1, <3>1, SameHeld
  <2>9. RefsIn(xs) \cap RefsIn(zs) = {} BY <2>7, HeldApart
  <2>10. FramesTypeOK'
    <3>1. live' \in SUBSET Refs BY <1>1 DEF FramesIInv, FramesTypeOK
    <3> QED BY <1>1, <2>6, <3>1 DEF FramesIInv, FramesTypeOK, PathsType
  <2> HIDE DEF xs, zs, g, h
  <2>11. /\ None \notin RefsIn(xs) /\ None \notin RefsIn(zs)
         /\ a = None \/ a \in RefsIn(xs)
         /\ b = None \/ b \in RefsIn(zs)
    BY <1>1, RefsInIs
  <2>12. us \in Seq(Frame) /\ Each(us) /\ RefsIn(us) = (RefsIn(xs) \ {a}) \cup ({b} \ {None})
    <3>1. b \notin RefsIn(xs) \ {xs[k]} BY <2>9, <2>11
    <3>2. xs \in Seq(Frame) /\ k \in 1..Len(xs) /\ b \in Frame /\ Each(xs) BY <1>1
    <3>3. SlotGets(xs, k, b, us) BY <3>1, <3>2, RefsInExcept
    <3> QED BY <3>3 DEF SlotGets
  <2>13. vs \in Seq(Frame) /\ Each(vs) /\ RefsIn(vs) = RefsIn(zs) \ {b}
    <3>1. zs \in Seq(Frame) /\ k \in 1..Len(zs) /\ None \in Frame /\ Each(zs) BY <1>1
    <3>2. None \notin RefsIn(zs) \ {zs[k]} BY <2>11
    <3>3. SlotGets(zs, k, None, vs) BY <3>1, <3>2, RefsInExcept
    <3> QED BY <3>3 DEF SlotGets
  <2> HIDE DEF us, vs, a, b
  <2>14. SentEmpty'
    <3>1. ASSUME NEW r \in Paths, ~paths'[r].need_close, NEW m \in FrameLists
          PROVE  RefsIn(paths'[r].msgs[m]) = {}
      <4>1. ~Ready(r) /\ r # p BY <1>1, <2>6, <3>1 DEF Ready
      <4>2. RefsIn(paths[r].msgs[m]) = {} BY <4>1 DEF FramesIInv, SentEmpty
      <4>3. CASE r = q /\ m = 1 BY <2>6, <2>13, <4>2, <4>3 DEF zs
      <4>4. CASE r # q \/ m # 1 BY <2>6, <4>1, <4>2, <4>4
      <4> QED BY <4>3, <4>4
    <3>2. \A m \in Messages : ~messages'[m].need_close => messages'[m].msg = None
      BY <1>1 DEF FramesIInv, SentEmpty
    <3> QED BY <3>1, <3>2 DEF SentEmpty, Ready
  <2>15. /\ RefsIn(Held'[g]) \cap RefsIn(Held'[h]) = {}
         /\ RefsIn(Held'[g]) \cup RefsIn(Held'[h])
              = ((RefsIn(Held[g]) \cup RefsIn(Held[h])) \ lost) \cup {}
         /\ lost \cap live \subseteq RefsIn(Held[g]) \cup RefsIn(Held[h])
    BY <1>2, <2>7, <2>9, <2>11, <2>12, <2>13
  <2>16. Partition(Held, live) BY DEF FramesIInv
  <2>17. Held'[g] \in Seq(Frame) /\ Each(Held'[g]) /\ Held'[h] \in Seq(Frame) /\ Each(Held'[h])
    BY <2>7, <2>12, <2>13
  <2> HIDE DEF lost
  <2>18. Partition(Held', live')
    BY <1>1, <1>3, <2>7, <2>8, <2>15, <2>16, <2>17, ExchangeTwo
  <2> QED BY <2>10, <2>14, <2>18 DEF FramesIInv
<1> QED BY <1>4, <1>5

\* w is the frames of three lists in one: the source's, the data's, the destination's.
CatOf(x, y, z, w) ==
    /\ w \in Seq(Frame) /\ Each(w) /\ Len(w) = Len(x) + Len(y) + Len(z)
    /\ RefsIn(w) = RefsIn(x) \cup RefsIn(y) \cup RefsIn(z)
    /\ \A j \in 1..Len(x) : w[j] = x[j]
    /\ \A j \in 1..Len(y) : w[Len(x) + j] = y[j]
    /\ \A j \in 1..Len(z) : w[Len(x) + Len(y) + j] = z[j]

LEMMA ConcatParts ==
    ASSUME NEW x \in Seq(Frame), NEW y \in Seq(Frame)
    PROVE  /\ \A j \in 1..Len(x) : (x \o y)[j] = x[j]
           /\ \A j \in 1..Len(y) : (x \o y)[Len(x) + j] = y[j]
<1>1. Len(x) \in Nat /\ Len(y) \in Nat OBVIOUS
<1>2. \A j \in 1..Len(x) + Len(y) : (x \o y)[j] = IF j <= Len(x) THEN x[j] ELSE y[j - Len(x)]
  BY ConcatProperties
<1>3. ASSUME NEW j \in 1..Len(x) PROVE (x \o y)[j] = x[j]
  <2>1. j \in 1..Len(x) + Len(y) /\ j <= Len(x) BY <1>1
  <2> QED BY <1>2, <2>1
<1>4. ASSUME NEW j \in 1..Len(y) PROVE (x \o y)[Len(x) + j] = y[j]
  <2>1. /\ Len(x) + j \in 1..Len(x) + Len(y) /\ ~(Len(x) + j <= Len(x))
        /\ (Len(x) + j) - Len(x) = j
    BY <1>1
  <2>2. (x \o y)[Len(x) + j] = y[(Len(x) + j) - Len(x)] BY <1>2, <2>1
  <2> QED BY <2>1, <2>2
<1> QED BY <1>3, <1>4

LEMMA CatIs ==
    ASSUME NEW x \in Seq(Frame), NEW y \in Seq(Frame), NEW z \in Seq(Frame),
           Each(x), Each(y), Each(z), RefsIn(x) \cap RefsIn(y) = {},
           RefsIn(x) \cap RefsIn(z) = {}, RefsIn(y) \cap RefsIn(z) = {}
    PROVE  CatOf(x, y, z, x \o y \o z)
<1>1. PICK u : u = x \o y OBVIOUS
<1>2. /\ u \in Seq(Frame) /\ Len(u) = Len(x) + Len(y) /\ Each(u)
      /\ RefsIn(u) = RefsIn(x) \cup RefsIn(y)
  BY <1>1, RefsInConcat
<1>3. /\ \A j \in 1..Len(x) : u[j] = x[j]
      /\ \A j \in 1..Len(y) : u[Len(x) + j] = y[j]
  BY ONLY <1>1, x \in Seq(Frame), y \in Seq(Frame), ConcatParts
<1>4. PICK w : w = u \o z OBVIOUS
<1>5. RefsIn(u) \cap RefsIn(z) = {} BY <1>2
<1>6. /\ w \in Seq(Frame) /\ Len(w) = Len(u) + Len(z) /\ Each(w)
      /\ RefsIn(w) = RefsIn(u) \cup RefsIn(z)
  BY <1>2, <1>4, <1>5, RefsInConcat
<1>7. /\ \A j \in 1..Len(u) : w[j] = u[j]
      /\ \A j \in 1..Len(z) : w[Len(u) + j] = z[j]
  BY ONLY <1>2, <1>4, z \in Seq(Frame), ConcatParts
<1>8. /\ \A j \in 1..Len(x) : w[j] = x[j]
      /\ \A j \in 1..Len(y) : w[Len(x) + j] = y[j]
      /\ \A j \in 1..Len(z) : w[Len(x) + Len(y) + j] = z[j]
  <2>1. \A j \in 1..Len(x) : j \in 1..Len(u) BY <1>2
  <2>2. \A j \in 1..Len(y) : Len(x) + j \in 1..Len(u) BY <1>2
  <2> QED BY <1>2, <1>3, <1>7, <2>1, <2>2
<1>9. w = x \o y \o z BY <1>1, <1>4
<1>10. /\ w \in Seq(Frame) /\ Each(w) /\ Len(w) = Len(x) + Len(y) + Len(z)
       /\ RefsIn(w) = RefsIn(x) \cup RefsIn(y) \cup RefsIn(z)
  BY <1>2, <1>6
<1> QED BY <1>8, <1>9, <1>10 DEF CatOf

LEMMA SendRouteKeeps == ASSUME FramesIInv, NEW p \in Paths, SendRoute(p) PROVE FramesIInv'
<1> DEFINE xs == paths[p].msgs
           before == [n \in FrameLists |-> IF n = 0 THEN 0
                                   ELSE Len(xs[0]) + (IF n = 1 THEN 0 ELSE Len(xs[1]))]
           all == before[2] + Len(xs[2])
           cat == xs[0] \o xs[1] \o xs[2]
<1>1. PICK k \in 0..all :
          /\ paths' = [paths EXCEPT ![p].need_close = (k < all),
                 ![p].msgs = [n \in FrameLists |-> [j \in DOMAIN xs[n] |->
                                 IF before[n] + j <= k THEN None ELSE xs[n][j]]]]
          /\ live' = live \ RefsIn(SubSeq(cat, 1, k))
  BY DEF SendRoute
<1>2. UNCHANGED <<stacks, messages, hand>> BY DEF SendRoute
<1> DEFINE ls == [n \in FrameLists |-> [j \in DOMAIN xs[n] |->
                                 IF before[n] + j <= k THEN None ELSE xs[n][j]]]
           lost == RefsIn(SubSeq(cat, 1, k))
<1>3. /\ paths' = [paths EXCEPT ![p].need_close = (k < all), ![p].msgs = ls]
      /\ live' = live \ lost
  BY <1>1
<1>4. \A n \in FrameLists : ls[n] = [j \in DOMAIN xs[n] |->
                                 IF before[n] + j <= k THEN None ELSE xs[n][j]]
  OBVIOUS
<1>5. /\ \A n \in FrameLists : xs[n] \in Seq(Frame) /\ Each(xs[n]) /\ Len(xs[n]) <= ListMax
      /\ \A m, n \in FrameLists : m # n => RefsIn(xs[m]) \cap RefsIn(xs[n]) = {}
  BY PathLists DEF FrameSeqs
<1>6. /\ before[0] = 0 /\ before[1] = Len(xs[0]) /\ before[2] = Len(xs[0]) + Len(xs[1])
      /\ all = Len(xs[0]) + Len(xs[1]) + Len(xs[2])
      /\ before[0] + Len(xs[0]) <= all /\ before[1] + Len(xs[1]) <= all
      /\ before[2] + Len(xs[2]) <= all /\ all \in Nat
      /\ before[0] \in Nat /\ before[1] \in Nat /\ before[2] \in Nat
  <2>1. 0 \in FrameLists /\ 1 \in FrameLists /\ 2 \in FrameLists BY DEF FrameLists
  <2>2. Len(xs[0]) \in Nat /\ Len(xs[1]) \in Nat /\ Len(xs[2]) \in Nat BY <1>5, <2>1
  <2> HIDE DEF xs
  <2>3. before[0] = 0 /\ before[1] = Len(xs[0]) /\ before[2] = Len(xs[0]) + Len(xs[1])
    BY <2>1, <2>2
  <2> HIDE DEF before
  <2>4. PICK a \in Nat, b \in Nat, c \in Nat :
            a = Len(xs[0]) /\ b = Len(xs[1]) /\ c = Len(xs[2])
    BY <2>2
  <2>5. before[0] = 0 /\ before[1] = a /\ before[2] = a + b /\ all = a + b + c
    BY <2>3, <2>4
  <2>6. before[0] \in Nat /\ before[1] \in Nat /\ before[2] \in Nat /\ all \in Nat
    <3> HIDE DEF all
    <3> QED BY <2>5
  <2>7. before[0] + a <= all /\ before[1] + b <= all /\ before[2] + c <= all
    <3> HIDE DEF all
    <3> QED BY <2>5
  <2> HIDE DEF all
  <2> QED BY <2>3, <2>4, <2>5, <2>6, <2>7
<1>7. FrameLists = {0, 1, 2} BY DEF FrameLists
<1>8. /\ cat \in Seq(Frame) /\ Each(cat) /\ Len(cat) = all
      /\ RefsIn(cat) = RefsIn(xs[0]) \cup RefsIn(xs[1]) \cup RefsIn(xs[2])
      /\ \A n \in FrameLists : \A j \in 1..Len(xs[n]) : cat[before[n] + j] = xs[n][j]
  <2> HIDE DEF xs, before, all
  <2>1. /\ xs[0] \in Seq(Frame) /\ xs[1] \in Seq(Frame) /\ xs[2] \in Seq(Frame)
        /\ Each(xs[0]) /\ Each(xs[1]) /\ Each(xs[2])
        /\ RefsIn(xs[0]) \cap RefsIn(xs[1]) = {} /\ RefsIn(xs[0]) \cap RefsIn(xs[2]) = {}
        /\ RefsIn(xs[1]) \cap RefsIn(xs[2]) = {}
    BY <1>5, <1>7
  <2>4. CatOf(xs[0], xs[1], xs[2], cat) BY <2>1, CatIs
  <2> HIDE DEF cat
  <2>2. /\ cat \in Seq(Frame) /\ Each(cat)
        /\ Len(cat) = Len(xs[0]) + Len(xs[1]) + Len(xs[2])
        /\ RefsIn(cat) = RefsIn(xs[0]) \cup RefsIn(xs[1]) \cup RefsIn(xs[2])
        /\ \A j \in 1..Len(xs[0]) : cat[j] = xs[0][j]
        /\ \A j \in 1..Len(xs[1]) : cat[Len(xs[0]) + j] = xs[1][j]
        /\ \A j \in 1..Len(xs[2]) : cat[Len(xs[0]) + Len(xs[1]) + j] = xs[2][j]
    BY <2>4 DEF CatOf
  <2>3. \A j \in 1..Len(xs[0]) : before[0] + j = j BY <1>6
  <2>5. ASSUME NEW n \in FrameLists, NEW j \in 1..Len(xs[n])
        PROVE  cat[before[n] + j] = xs[n][j]
    <3>1. CASE n = 0 BY <1>6, <2>2, <2>3, <2>5, <3>1
    <3>2. CASE n = 1 BY <1>6, <2>2, <2>5, <3>2
    <3>3. CASE n = 2 BY <1>6, <2>2, <2>5, <3>3
    <3> QED BY <1>7, <3>1, <3>2, <3>3
  <2> QED BY <1>6, <2>2, <2>5
<1> HIDE DEF ls, lost, xs, before, cat
<1>9. \A n \in FrameLists : before[n] \in Nat /\ before[n] + Len(xs[n]) <= all
  <2> HIDE DEF all
  <2> QED BY <1>6, <1>7
<1>10. k \in 0..Len(cat) /\ k \in Int /\ all \in Nat
  <2>1. all \in Nat BY <1>6
  <2>2. k \in Int BY <2>1
  <2> HIDE DEF all
  <2> QED BY <1>1, <1>8, <2>1, <2>2
<1> HIDE DEF all
<1>11. \A r : r \in lost <=> r # None /\ \E v \in 1..k : cat[v] = r
  <2>1. 1 \in 1..Len(cat) + 1 /\ k \in 0..Len(cat) /\ 1 <= k + 1 BY <1>8, <1>10
  <2> QED BY <1>8, <2>1, RefsInSub DEF lost
<1>12. ASSUME NEW n \in FrameLists
       PROVE  /\ ls[n] \in Seq(Frame) /\ Len(ls[n]) = Len(xs[n]) /\ Each(ls[n])
              /\ \A r : r \in RefsIn(ls[n]) <=>
                    r # None /\ \E j \in 1..Len(xs[n]) : before[n] + j > k /\ xs[n][j] = r
  <2>1. PICK ys, b : ys = xs[n] /\ b = before[n] OBVIOUS
  <2>2. ys \in Seq(Frame) /\ Each(ys) /\ b \in Int /\ k \in Int BY <1>5, <1>9, <1>10, <2>1
  <2> DEFINE zs == [j \in DOMAIN ys |-> IF b + j <= k THEN None ELSE ys[j]]
  <2>3. /\ zs \in Seq(Frame) /\ Len(zs) = Len(ys) /\ Each(zs)
        /\ \A r : r \in RefsIn(zs) <=> r # None /\ \E j \in 1..Len(ys) : b + j > k /\ ys[j] = r
    BY <2>2, RefsInSent
  <2>5. ls[n] = zs BY <1>4, <2>1
  <2> HIDE DEF zs
  <2>4. /\ ls[n] \in Seq(Frame) /\ Len(ls[n]) = Len(ys) /\ Each(ls[n])
        /\ \A r : r \in RefsIn(ls[n]) <=> r # None /\ \E j \in 1..Len(ys) : b + j > k /\ ys[j] = r
    BY <2>3, <2>5
  <2> QED BY <2>1, <2>4
<1>13. PathBecomes(p, ls) /\ paths'[p].need_close = (k < all)
  <2>1. ls \in [FrameLists -> FrameSeqs] BY <1>1, <1>5, <1>12 DEF FrameSeqs, ls
  <2>2. (k < all) \in BOOLEAN OBVIOUS
  <2> QED BY <1>3, <2>1, <2>2 DEF PathBecomes, PathsType, FramesIInv, FramesTypeOK
<1>14. ASSUME NEW n \in FrameLists, NEW r
       PROVE  r \in RefsIn(ls[n]) <=> r \in RefsIn(xs[n]) /\ r \notin lost
  <2>1. r \in RefsIn(xs[n]) <=> r # None /\ \E j \in 1..Len(xs[n]) : xs[n][j] = r
    BY <1>5, RefsInIs
  <2>2. \A j \in 1..Len(xs[n]) : before[n] + j \in 1..Len(cat) /\ cat[before[n] + j] = xs[n][j]
    BY <1>5, <1>8, <1>9
  <2>3. ASSUME r \in RefsIn(ls[n]) PROVE r \in RefsIn(xs[n]) /\ r \notin lost
    <3>1. PICK j \in 1..Len(xs[n]) : before[n] + j > k /\ xs[n][j] = r BY <1>12, <2>3
    <3>2. r # None BY <1>12, <2>3
    <3>3. ASSUME NEW v \in 1..k, cat[v] = r PROVE FALSE
      <4>1. v \in 1..Len(cat) BY <1>10
      <4>2. v = before[n] + j BY <1>8, <2>2, <3>1, <3>2, <3>3, <4>1 DEF Each
      <4> QED BY <1>9, <1>10, <3>1, <4>2
    <3> QED BY <1>11, <2>1, <3>1, <3>2, <3>3
  <2>4. ASSUME r \in RefsIn(xs[n]), r \notin lost PROVE r \in RefsIn(ls[n])
    <3>1. PICK j \in 1..Len(xs[n]) : xs[n][j] = r BY <2>1, <2>4
    <3>2. r # None BY <2>1, <2>4
    <3>3. before[n] + j > k
      <4>1. before[n] + j \in Int /\ before[n] + j >= 1 BY <1>5, <1>9
      <4>2. before[n] + j <= k => before[n] + j \in 1..k BY <1>10, <4>1
      <4> QED BY <1>10, <1>11, <2>2, <2>4, <3>1, <3>2, <4>1, <4>2
    <3> QED BY <1>12, <3>1, <3>2, <3>3
  <2> QED BY <2>3, <2>4
<1>15. \A r \in lost : \E n \in FrameLists : r \in RefsIn(xs[n])
  <2>1. \A r \in lost : r \in RefsIn(cat) BY <1>8, <1>10, <1>11, RefsInIs
  <2> QED BY <1>7, <1>8, <2>1
<1>16. \A m, n \in FrameLists : m # n => RefsIn(ls[m]) \cap RefsIn(ls[n]) = {}
  <2>1. \A m, n \in FrameLists : m # n => \A r : ~(r \in RefsIn(xs[m]) /\ r \in RefsIn(xs[n]))
    BY <1>5
  <2> QED BY <1>14, <2>1
<1>17. ~paths'[p].need_close => \A n \in FrameLists : RefsIn(ls[n]) = {}
  <2>1. ASSUME ~(k < all), NEW n \in FrameLists PROVE RefsIn(ls[n]) = {}
    <3>1. \A j \in 1..Len(xs[n]) : ~(before[n] + j > k) BY <1>5, <1>9, <1>10, <2>1
    <3> QED BY <1>12, <3>1
  <2> QED BY <1>13, <2>1
<1>18. {} \in SUBSET Refs /\ {} \cap live = {} /\ live' = (live \ lost) \cup {} BY <1>3
<1>19. \A r : (\E n \in FrameLists : r \in RefsIn(ls[n])) <=>
            \/ r \in {}
            \/ r \notin lost /\ \E n \in FrameLists : r \in RefsIn(paths[p].msgs[n])
  BY <1>14 DEF xs
<1>20. \A r \in lost \cap live : \E n \in FrameLists : r \in RefsIn(paths[p].msgs[n])
  BY <1>15 DEF xs
<1>21. PathGets(p, ls, lost, {})
  BY <1>12, <1>16, <1>17, <1>18, <1>19, <1>20 DEF PathGets
<1> QED BY <1>2, <1>13, <1>21, PathAllKeeps

\* Frames just received: references nobody has, each once.
LEMMA MadeAre ==
    ASSUME FramesIInv, NEW N \in Nat, NEW ys \in Made(N)
    PROVE  /\ ys \in Seq(Frame) /\ Len(ys) = N /\ Each(ys)
           /\ RefsIn(ys) \subseteq Refs /\ RefsIn(ys) \cap live = {}
<1>1. /\ ys \in [1..N -> Unused] /\ \A j, k \in 1..N : ys[j] = ys[k] => j = k
  BY DEF Made, IsInjective
<1>2. Unused \subseteq Refs /\ Unused \cap live = {} BY DEF Unused
<1>3. ys \in Seq(Frame) /\ Len(ys) = N BY <1>1, <1>2 DEF Frame
<1>4. \A r \in RefsIn(ys) : r \in Unused BY <1>1, <1>3, RefsInIs
<1> QED BY <1>1, <1>2, <1>3, <1>4 DEF Each

\* A part of the list ys, from v to k: zs has what is between them.
PartOf(ys, v, k, zs) ==
    /\ zs \in Seq(Frame) /\ Len(zs) = k + 1 - v /\ Each(zs)
    /\ \A r : r \in RefsIn(zs) <=> r # None /\ \E j \in v..k : ys[j] = r

LEMMA PartIs ==
    ASSUME NEW ys \in Seq(Frame), Each(ys), NEW v \in 1..Len(ys) + 1, NEW k \in 0..Len(ys),
           v <= k + 1
    PROVE  PartOf(ys, v, k, SubSeq(ys, v, k))
<1> DEFINE zs == SubSeq(ys, v, k)
<1>1. /\ zs \in Seq(Frame) /\ Len(zs) = k + 1 - v /\ Each(zs)
      /\ \A r : r \in RefsIn(zs) <=> r # None /\ \E j \in v..k : ys[j] = r
  BY RefsInSub
<1> HIDE DEF zs
<1>2. PartOf(ys, v, k, zs) BY <1>1 DEF PartOf
<1> QED BY <1>2 DEF zs

LEMMA RecvRouteKeeps == ASSUME FramesIInv, NEW p \in Paths, RecvRoute(p) PROVE FramesIInv'
<1> DEFINE xs == paths[p].msgs
<1>1. PICK a \in 0..1, b \in 0..2, c \in 0..2 :
          /\ Len(paths[p].msgs[0]) + a <= ListMax
          /\ Len(paths[p].msgs[1]) + b <= ListMax
          /\ Len(paths[p].msgs[2]) + c <= ListMax
          /\ \E ys \in Made(a + b + c) :
                /\ paths' = [paths EXCEPT
                       ![p].msgs[0] = @ \o SubSeq(ys, 1, a),
                       ![p].msgs[1] = @ \o SubSeq(ys, a + 1, a + b),
                       ![p].msgs[2] = @ \o SubSeq(ys, a + b + 1, a + b + c)]
                /\ live' = live \cup RefsIn(ys)
  BY DEF RecvRoute
<1>2. UNCHANGED <<stacks, messages, hand>> /\ Ready(p) BY DEF RecvRoute
<1>3. PICK ys \in Made(a + b + c) :
                /\ paths' = [paths EXCEPT
                       ![p].msgs[0] = @ \o SubSeq(ys, 1, a),
                       ![p].msgs[1] = @ \o SubSeq(ys, a + 1, a + b),
                       ![p].msgs[2] = @ \o SubSeq(ys, a + b + 1, a + b + c)]
                /\ live' = live \cup RefsIn(ys)
  BY <1>1
<1>4. a \in Nat /\ b \in Nat /\ c \in Nat /\ a + b + c \in Nat OBVIOUS
<1>5. /\ ys \in Seq(Frame) /\ Len(ys) = a + b + c /\ Each(ys)
      /\ RefsIn(ys) \subseteq Refs /\ RefsIn(ys) \cap live = {}
  BY <1>4, MadeAre
<1>6. PICK s0, s1, s2 : /\ s0 = SubSeq(ys, 1, a) /\ s1 = SubSeq(ys, a + 1, a + b)
                        /\ s2 = SubSeq(ys, a + b + 1, a + b + c)
  OBVIOUS
<1>7. /\ PartOf(ys, 1, a, s0) /\ PartOf(ys, a + 1, a + b, s1)
      /\ PartOf(ys, a + b + 1, a + b + c, s2)
  <2>1. PartOf(ys, 1, a, SubSeq(ys, 1, a)) BY <1>4, <1>5, PartIs
  <2>2. PartOf(ys, a + 1, a + b, SubSeq(ys, a + 1, a + b)) BY <1>4, <1>5, PartIs
  <2>3. PartOf(ys, a + b + 1, a + b + c, SubSeq(ys, a + b + 1, a + b + c)) BY <1>4, <1>5, PartIs
  <2> QED BY <1>6, <2>1, <2>2, <2>3
<1>8. /\ s0 \in Seq(Frame) /\ Len(s0) = a /\ Each(s0)
      /\ s1 \in Seq(Frame) /\ Len(s1) = b /\ Each(s1)
      /\ s2 \in Seq(Frame) /\ Len(s2) = c /\ Each(s2)
  BY <1>4, <1>7 DEF PartOf
<1>9. /\ RefsIn(s0) \cap RefsIn(s1) = {} /\ RefsIn(s0) \cap RefsIn(s2) = {}
      /\ RefsIn(s1) \cap RefsIn(s2) = {}
      /\ RefsIn(ys) = RefsIn(s0) \cup RefsIn(s1) \cup RefsIn(s2)
  <2>1. /\ \A r : r \in RefsIn(s0) <=> r # None /\ \E j \in 1..a : ys[j] = r
        /\ \A r : r \in RefsIn(s1) <=> r # None /\ \E j \in a + 1..a + b : ys[j] = r
        /\ \A r : r \in RefsIn(s2) <=> r # None /\ \E j \in a + b + 1..a + b + c : ys[j] = r
    BY <1>7 DEF PartOf
  <2>2. \A r : r \in RefsIn(ys) <=> r # None /\ \E j \in 1..a + b + c : ys[j] = r
    BY <1>5, RefsInIs
  <2>3. \A j \in 1..a + b + c : j \in 1..a \/ j \in a + 1..a + b \/ j \in a + b + 1..a + b + c
    BY <1>4
  <2>4. /\ \A j \in 1..a : j \in 1..a + b + c
        /\ \A j \in a + 1..a + b : j \in 1..a + b + c
        /\ \A j \in a + b + 1..a + b + c : j \in 1..a + b + c
    BY <1>4
  <2>5. \A j, k \in 1..a + b + c : ys[j] = ys[k] /\ ys[j] # None => j = k
    BY <1>5 DEF Each
  <2>6. RefsIn(s0) \cap RefsIn(s1) = {} BY <1>4, <2>1, <2>4, <2>5
  <2>7. RefsIn(s0) \cap RefsIn(s2) = {} BY <1>4, <2>1, <2>4, <2>5
  <2>8. RefsIn(s1) \cap RefsIn(s2) = {} BY <1>4, <2>1, <2>4, <2>5
  <2>9. RefsIn(ys) = RefsIn(s0) \cup RefsIn(s1) \cup RefsIn(s2) BY <2>1, <2>2, <2>3, <2>4
  <2> QED BY <2>6, <2>7, <2>8, <2>9
<1>10. FrameLists = {0, 1, 2} BY DEF FrameLists
<1>11. /\ \A n \in FrameLists : /\ xs[n] \in Seq(Frame) /\ Each(xs[n])
                                /\ RefsIn(xs[n]) \subseteq live
       /\ \A m, n \in FrameLists : m # n => RefsIn(xs[m]) \cap RefsIn(xs[n]) = {}
  BY PathLists
<1>12. PICK l0, l1, l2 : l0 = xs[0] \o s0 /\ l1 = xs[1] \o s1 /\ l2 = xs[2] \o s2 OBVIOUS
<1>13. /\ l0 \in FrameSeqs /\ Each(l0) /\ RefsIn(l0) = RefsIn(xs[0]) \cup RefsIn(s0)
       /\ l1 \in FrameSeqs /\ Each(l1) /\ RefsIn(l1) = RefsIn(xs[1]) \cup RefsIn(s1)
       /\ l2 \in FrameSeqs /\ Each(l2) /\ RefsIn(l2) = RefsIn(xs[2]) \cup RefsIn(s2)
  <2>1. /\ xs[0] \in Seq(Frame) /\ Each(xs[0]) /\ RefsIn(xs[0]) \cap RefsIn(s0) = {}
        /\ xs[1] \in Seq(Frame) /\ Each(xs[1]) /\ RefsIn(xs[1]) \cap RefsIn(s1) = {}
        /\ xs[2] \in Seq(Frame) /\ Each(xs[2]) /\ RefsIn(xs[2]) \cap RefsIn(s2) = {}
    BY <1>5, <1>9, <1>10, <1>11
  <2>2. Len(xs[0]) + a <= ListMax /\ Len(xs[1]) + b <= ListMax /\ Len(xs[2]) + c <= ListMax
    BY <1>1
  <2> HIDE DEF xs
  <2>3. /\ l0 \in FrameSeqs /\ Each(l0) /\ RefsIn(l0) = RefsIn(xs[0]) \cup RefsIn(s0)
    <3>1. /\ xs[0] \o s0 \in Seq(Frame) /\ Len(xs[0] \o s0) = Len(xs[0]) + Len(s0)
          /\ RefsIn(xs[0] \o s0) = RefsIn(xs[0]) \cup RefsIn(s0) /\ Each(xs[0] \o s0)
      BY <1>8, <2>1, RefsInConcat
    <3> QED BY <1>8, <1>12, <2>2, <3>1 DEF FrameSeqs
  <2>4. /\ l1 \in FrameSeqs /\ Each(l1) /\ RefsIn(l1) = RefsIn(xs[1]) \cup RefsIn(s1)
    <3>1. /\ xs[1] \o s1 \in Seq(Frame) /\ Len(xs[1] \o s1) = Len(xs[1]) + Len(s1)
          /\ RefsIn(xs[1] \o s1) = RefsIn(xs[1]) \cup RefsIn(s1) /\ Each(xs[1] \o s1)
      BY <1>8, <2>1, RefsInConcat
    <3> QED BY <1>8, <1>12, <2>2, <3>1 DEF FrameSeqs
  <2>5. /\ l2 \in FrameSeqs /\ Each(l2) /\ RefsIn(l2) = RefsIn(xs[2]) \cup RefsIn(s2)
    <3>1. /\ xs[2] \o s2 \in Seq(Frame) /\ Len(xs[2] \o s2) = Len(xs[2]) + Len(s2)
          /\ RefsIn(xs[2] \o s2) = RefsIn(xs[2]) \cup RefsIn(s2) /\ Each(xs[2] \o s2)
      BY <1>8, <2>1, RefsInConcat
    <3> QED BY <1>8, <1>12, <2>2, <3>1 DEF FrameSeqs
  <2> QED BY <2>3, <2>4, <2>5
<1>14. PICK f, g : /\ f = [paths EXCEPT ![p].msgs[0] = l0]
                   /\ g = [f EXCEPT ![p].msgs[1] = l1]
  OBVIOUS
<1>15. paths \in PathsType BY DEF FramesIInv, FramesTypeOK, PathsType
<1>16. ListAssigned(paths, f, p, 0, l0) BY <1>10, <1>13, <1>14, <1>15, ListSets
<1>17. ListAssigned(f, g, p, 1, l1)
  <2>1. f \in PathsType BY <1>16 DEF ListAssigned
  <2> QED BY <1>10, <1>13, <1>14, <2>1, ListSets
<1>18. paths' = [g EXCEPT ![p].msgs[2] = l2]
  <2>1. f[p].msgs[1] = xs[1] /\ g[p].msgs[2] = xs[2] BY <1>10, <1>16, <1>17 DEF ListAssigned
  <2>2. paths' = [paths EXCEPT ![p].msgs[0] = xs[0] \o s0, ![p].msgs[1] = xs[1] \o s1,
                               ![p].msgs[2] = xs[2] \o s2]
    BY <1>3, <1>6
  <2> QED BY <1>12, <1>14, <2>2
<1>19. PICK h : h = paths' OBVIOUS
<1>20. ListAssigned(g, h, p, 2, l2)
  <2>1. g \in PathsType BY <1>17 DEF ListAssigned
  <2> QED BY <1>10, <1>13, <1>18, <1>19, <2>1, ListSets
<1> DEFINE ls == paths'[p].msgs
<1>21. /\ ls[0] = l0 /\ ls[1] = l1 /\ ls[2] = l2
       /\ PathBecomes(p, ls) /\ paths'[p].need_close = paths[p].need_close
  BY <1>10, <1>16, <1>17, <1>19, <1>20 DEF ListAssigned, PathBecomes
<1> HIDE DEF xs, ls
<1>22. /\ \A n \in FrameLists : ls[n] \in Seq(Frame) /\ Each(ls[n])
       /\ \A m, n \in FrameLists : m # n => RefsIn(ls[m]) \cap RefsIn(ls[n]) = {}
  <2>1. l0 \in Seq(Frame) /\ l1 \in Seq(Frame) /\ l2 \in Seq(Frame) BY <1>13 DEF FrameSeqs
  <2>2. /\ RefsIn(l0) \cap RefsIn(l1) = {} /\ RefsIn(l0) \cap RefsIn(l2) = {}
        /\ RefsIn(l1) \cap RefsIn(l2) = {}
    <3>1. /\ RefsIn(xs[0]) \cap RefsIn(xs[1]) = {} /\ RefsIn(xs[0]) \cap RefsIn(xs[2]) = {}
          /\ RefsIn(xs[1]) \cap RefsIn(xs[2]) = {}
          /\ RefsIn(xs[0]) \cap RefsIn(ys) = {} /\ RefsIn(xs[1]) \cap RefsIn(ys) = {}
          /\ RefsIn(xs[2]) \cap RefsIn(ys) = {}
      BY <1>5, <1>10, <1>11
    <3> QED BY <1>9, <1>13, <3>1
  <2> QED BY <1>10, <1>13, <1>21, <2>1, <2>2
<1>23. ASSUME NEW r
       PROVE  (\E n \in FrameLists : r \in RefsIn(ls[n])) <=>
                \/ r \in RefsIn(ys)
                \/ r \notin {} /\ \E n \in FrameLists : r \in RefsIn(paths[p].msgs[n])
  <2>1. (\E n \in FrameLists : r \in RefsIn(ls[n])) <=>
            r \in RefsIn(l0) \/ r \in RefsIn(l1) \/ r \in RefsIn(l2)
    BY <1>10, <1>21
  <2>2. (\E n \in FrameLists : r \in RefsIn(paths[p].msgs[n])) <=>
            r \in RefsIn(xs[0]) \/ r \in RefsIn(xs[1]) \/ r \in RefsIn(xs[2])
    BY <1>10 DEF xs
  <2> QED BY <1>9, <1>13, <2>1, <2>2
<1>24. paths'[p].need_close BY <1>2, <1>21 DEF Ready
<1>25. RefsIn(ys) \in SUBSET Refs /\ RefsIn(ys) \cap live = {} /\ live' = (live \ {}) \cup RefsIn(ys)
  BY <1>3, <1>5
<1>26. PathGets(p, ls, {}, RefsIn(ys)) BY <1>22, <1>23, <1>24, <1>25 DEF PathGets
<1> QED BY <1>2, <1>21, <1>26, PathAllKeeps

-----------------------------------------------------------------------------
(* The invariant holds from the start and every call keeps it.             *)

LEMMA FramesStart == ASSUME FramesInit PROVE FramesIInv
<1>1. /\ paths = [p \in Paths |-> NewPath] /\ stacks = [s \in Stacks |-> NewStack]
      /\ messages = [m \in Messages |-> NewMessage] /\ hand = None /\ live = {}
  BY DEF FramesInit
<1>2. /\ NewPath \in [msgs : [FrameLists -> FrameSeqs], need_close : BOOLEAN]
      /\ NewStack \in [msgs : FrameSeqs, notClose : BOOLEAN]
      /\ NewMessage \in [msg : Frame, need_close : BOOLEAN]
      /\ None \in Frame
  BY RefsInNone DEF NewPath, NewStack, NewMessage, Frame
<1>3. FramesTypeOK BY <1>1, <1>2 DEF FramesTypeOK
<1>4. SentEmpty BY <1>1 DEF SentEmpty, Ready, NewPath, NewMessage
<1>5. \A h \in Holders : Held[h] \in Seq(Frame) /\ Each(Held[h]) /\ RefsIn(Held[h]) = {}
  <2> SUFFICES ASSUME NEW h \in Holders
               PROVE  Held[h] \in Seq(Frame) /\ Each(Held[h]) /\ RefsIn(Held[h]) = {}
    OBVIOUS
  <2>1. Held[h] = <<>> \/ Held[h] = <<None>>
    <3>1. CASE \E p \in Paths, n \in FrameLists : h = PathHold(p, n)
      BY <1>1, <3>1, HeldIs DEF HoldIs, NewPath
    <3>2. CASE \E s \in Stacks : h = StackHold(s)
      BY <1>1, <3>2, HeldIs DEF HoldIs, NewStack
    <3>3. CASE \E m \in Messages : h = MessageHold(m)
      BY <1>1, <3>3, HeldIs DEF HoldIs, NewMessage
    <3>4. CASE h = HandHold BY <1>1, <3>4, HeldIs DEF HoldIs
    <3> QED BY <3>1, <3>2, <3>3, <3>4, HolderKinds
  <2>2. <<None>> \in Seq(Frame) /\ RefsIn(<<None>>) = {} /\ Each(<<None>>)
    BY <1>2, RefsInOne
  <2>3. <<>> \in Seq(Frame) OBVIOUS
  <2> QED BY <2>1, <2>2, <2>3, RefsInNone
<1>6. Partition(Held, live) BY <1>1, <1>5 DEF Partition
<1> QED BY <1>3, <1>4, <1>6 DEF FramesIInv

LEMMA MessageCallKeeps ==
    ASSUME FramesIInv, NEW m \in Messages, MessageCall(m) PROVE FramesIInv'
<1>1. CASE Fill(m) BY <1>1, FillKeeps
<1>2. CASE SendMessage(m) BY <1>2, SendMessageKeeps
<1>3. CASE EndMessage(m) BY <1>3, EndMessageKeeps
<1>4. CASE \E n \in Messages : CopyMessage(m, n) BY <1>4, CopyMessageKeeps
<1>5. CASE \E n \in Messages : MoveMessage(m, n) BY <1>5, MoveMessageKeeps
<1>6. CASE InitPointer(m) BY <1>6, InitPointerKeeps
<1>7. CASE \E s \in Stacks : InitCopy(m, s) BY <1>7, InitCopyKeeps
<1> QED BY <1>1, <1>2, <1>3, <1>4, <1>5, <1>6, <1>7 DEF MessageCall

LEMMA StackCallKeeps ==
    ASSUME FramesIInv, NEW s \in Stacks, StackCall(s) PROVE FramesIInv'
<1>1. CASE PushNew(s) BY <1>1, PushNewKeeps
<1>2. CASE PushCopy(s) BY <1>2, PushCopyKeeps
<1>3. CASE ReplaceBack(s) BY <1>3, ReplaceBackKeeps
<1>4. CASE PopFrame(s) BY <1>4, PopFrameKeeps
<1>5. CASE PushFrame(s) BY <1>5, PushFrameKeeps
<1>6. CASE SendStack(s) BY <1>6, SendStackKeeps
<1>7. CASE EndStack(s) BY <1>7, EndStackKeeps
<1>8. CASE \E k \in 1..ListMax : Erase(s, k) BY <1>8, EraseKeeps
<1>9. CASE \E b \in BOOLEAN : SetClose(s, b) BY <1>9, SetCloseKeeps
<1> QED BY <1>1, <1>2, <1>3, <1>4, <1>5, <1>6, <1>7, <1>8, <1>9 DEF StackCall

LEMMA PathCallKeeps ==
    ASSUME FramesIInv, NEW p \in Paths, PathCall(p) PROVE FramesIInv'
<1>1. CASE \E n \in FrameLists : PushString(p, n) BY <1>1, PushStringKeeps
<1>2. CASE \E n \in FrameLists : PushFrames(p, n) BY <1>2, PushFramesKeeps
<1>3. CASE \E s \in Stacks : PushDestStack(p, s) BY <1>3, PushDestStackKeeps
<1>4. CASE \E s \in Stacks : SwapRoute(p, s) BY <1>4, SwapRouteKeeps
<1>5. CASE \E m \in Messages : PopDest(p, m) BY <1>5, PopDestKeeps
<1>6. CASE \E m \in Messages, n \in FrameLists, k \in 1..ListMax : SwapMessage(p, n, k, m)
  BY <1>6, SwapMessageKeeps
<1>7. CASE \E k \in 1..ListMax : SetUserData(p, k) BY <1>7, SetUserDataKeeps
<1>8. CASE \E k \in 1..ListMax : CloseTail(p, k) BY <1>8, CloseTailKeeps
<1>9. CASE \E which \in SUBSET FrameLists : CloseMsg(p, which) BY <1>9, CloseMsgKeeps
<1>10. CASE CopyFrame(p) BY <1>10, CopyFrameKeeps
<1>11. CASE CalcRouteSlots(p)
  <2>1. PICK k \in 1..ListMax : SwapSlots(p, 0, 1, k) BY <1>11 DEF CalcRouteSlots
  <2>2. 0 \in FrameLists BY DEF FrameLists
  <2> QED BY <2>1, <2>2, SwapSlotsKeeps
<1>12. CASE SwapDest(p)
  <2>1. PICK j, k : SwapSlots(p, 2, j, k) BY <1>12 DEF SwapDest
  <2>2. 2 \in FrameLists BY DEF FrameLists
  <2> QED BY <2>1, <2>2, SwapSlotsKeeps
<1>13. CASE Release(p) BY <1>13, ReleaseKeeps
<1>14. CASE SendRoute(p) BY <1>14, SendRouteKeeps
<1>15. CASE RecvRoute(p) BY <1>15, RecvRouteKeeps
<1>16. CASE \E k \in 1..ListMax, q \in Paths : MoveUserData(p, q, k)
  BY <1>16, MoveUserDataKeeps
<1> QED BY <1>1, <1>2, <1>3, <1>4, <1>5, <1>6, <1>7, <1>8, <1>9, <1>10, <1>11, <1>12, <1>13,
           <1>14, <1>15, <1>16 DEF PathCall

LEMMA FramesStep == ASSUME FramesIInv, [FramesNext]_frameVars PROVE FramesIInv'
<1>1. CASE CloseFrame BY <1>1, CloseFrameKeeps
<1>2. CASE \E m \in Messages : MessageCall(m) BY <1>2, MessageCallKeeps
<1>3. CASE \E s \in Stacks : StackCall(s) BY <1>3, StackCallKeeps
<1>4. CASE \E p \in Paths : PathCall(p) BY <1>4, PathCallKeeps
<1>5. CASE UNCHANGED frameVars
  <2>1. Held' = Held /\ live' = live BY <1>5 DEF frameVars, Held, Owner
  <2>2. Partition(Held', live') BY <2>1 DEF FramesIInv
  <2> QED BY <1>5, <2>2 DEF frameVars, FramesIInv, FramesTypeOK, SentEmpty, Ready
<1> QED BY <1>1, <1>2, <1>3, <1>4, <1>5 DEF FramesNext

\* Each call of Message, MsgStack, RoutePath and of the Socket's Send and Recv
\* leaves every live reference in one place that closes it, and closed or sent
\* ones in none.
THEOREM FramesInductive == FramesSpec => []FramesIInv
<1>1. FramesInit => FramesIInv BY FramesStart
<1>2. FramesIInv /\ [FramesNext]_frameVars => FramesIInv' BY FramesStep
<1> QED BY <1>1, <1>2, PTL DEF FramesSpec

-----------------------------------------------------------------------------
(* What the invariant says of the places that close a reference.           *)

\* x stands for slot k of what the holder h holds.
CloserAt(x, h, k) ==
    \/ \E p \in Paths, n \in FrameLists : h = PathHold(p, n) /\ x = <<p, n, k>>
    \/ \E s \in Stacks : h = StackHold(s) /\ x = <<s, k>>
    \/ \E m \in Messages : h = MessageHold(m) /\ x = m
    \/ h = HandHold /\ x = None

LEMMA CloserAtOnce ==
    ASSUME NEW x, NEW y, NEW h, NEW k, CloserAt(x, h, k), CloserAt(y, h, k)
    PROVE  x = y
<1>1. CASE \E p \in Paths, n \in FrameLists : h = PathHold(p, n) /\ x = <<p, n, k>>
  BY <1>1, HolderKinds DEF CloserAt
<1>2. CASE \E s \in Stacks : h = StackHold(s) /\ x = <<s, k>>
  BY <1>2, HolderKinds DEF CloserAt
<1>3. CASE \E m \in Messages : h = MessageHold(m) /\ x = m
  BY <1>3, HolderKinds DEF CloserAt
<1>4. CASE h = HandHold /\ x = None BY <1>4, HolderKinds DEF CloserAt
<1> QED BY <1>1, <1>2, <1>3, <1>4 DEF CloserAt

LEMMA CloserHolds ==
    ASSUME FramesTypeOK, NEW r \in Refs, NEW x \in Closers(r)
    PROVE  \E h \in Holders, k \in Nat : /\ CloserAt(x, h, k) /\ k \in 1..Len(Held[h])
                                         /\ Held[h][k] = r
<1>1. CASE \E p \in Paths, n \in FrameLists, k \in 1..ListMax :
             /\ x = <<p, n, k>> /\ k \in DOMAIN paths[p].msgs[n] /\ paths[p].msgs[n][k] = r
  <2>1. PICK p \in Paths, n \in FrameLists, k \in 1..ListMax :
             /\ x = <<p, n, k>> /\ k \in DOMAIN paths[p].msgs[n] /\ paths[p].msgs[n][k] = r
    BY <1>1
  <2>2. PathHold(p, n) \in Holders /\ Held[PathHold(p, n)] = paths[p].msgs[n]
    BY HeldIs, HolderKinds DEF HoldIs
  <2>3. k \in 1..Len(paths[p].msgs[n]) BY <2>1, ListTypes
  <2>4. CloserAt(x, PathHold(p, n), k) BY <2>1 DEF CloserAt
  <2>5. k \in Nat BY <2>3
  <2> QED BY <2>1, <2>2, <2>3, <2>4, <2>5
<1>2. CASE \E s \in Stacks, k \in 1..ListMax :
             /\ x = <<s, k>> /\ Owner(s) /\ k \in DOMAIN stacks[s].msgs /\ stacks[s].msgs[k] = r
  <2>1. PICK s \in Stacks, k \in 1..ListMax :
             /\ x = <<s, k>> /\ Owner(s) /\ k \in DOMAIN stacks[s].msgs /\ stacks[s].msgs[k] = r
    BY <1>2
  <2>2. StackHold(s) \in Holders /\ Held[StackHold(s)] = stacks[s].msgs
    BY <2>1, HeldIs, HolderKinds DEF HoldIs, Owner
  <2>3. k \in 1..Len(stacks[s].msgs) BY <2>1, ListTypes
  <2>4. CloserAt(x, StackHold(s), k) BY <2>1 DEF CloserAt
  <2>5. k \in Nat BY <2>3
  <2> QED BY <2>1, <2>2, <2>3, <2>4, <2>5
<1>3. CASE x \in Messages /\ messages[x].msg = r
  <2>1. MessageHold(x) \in Holders /\ Held[MessageHold(x)] = <<r>>
    BY <1>3, HeldIs, HolderKinds DEF HoldIs
  <2>2. CloserAt(x, MessageHold(x), 1) BY <1>3 DEF CloserAt
  <2>3. 1 \in 1..Len(<<r>>) /\ <<r>>[1] = r /\ 1 \in Nat OBVIOUS
  <2> QED BY <2>1, <2>2, <2>3
<1>4. CASE x = None /\ hand = r
  <2>1. HandHold \in Holders /\ Held[HandHold] = <<r>>
    BY <1>4, HeldIs, HolderKinds DEF HoldIs
  <2>2. CloserAt(x, HandHold, 1) BY <1>4 DEF CloserAt
  <2>3. 1 \in 1..Len(<<r>>) /\ <<r>>[1] = r /\ 1 \in Nat OBVIOUS
  <2> QED BY <2>1, <2>2, <2>3
<1> QED
  <2>1. CASE x \in {c \in Paths \X FrameLists \X (1..ListMax) :
                        LET xs == paths[c[1]].msgs[c[2]] IN
                        Ready(c[1]) /\ c[3] \in DOMAIN xs /\ xs[c[3]] = r}
    BY <1>1, <2>1
  <2>2. CASE x \in {c \in Stacks \X (1..ListMax) :
                        LET xs == stacks[c[1]].msgs IN
                        Owner(c[1]) /\ c[2] \in DOMAIN xs /\ xs[c[2]] = r}
    BY <1>2, <2>2
  <2>3. CASE x \in {m \in Messages : messages[m].need_close /\ messages[m].msg = r}
    BY <1>3, <2>3
  <2>4. CASE x \in {z \in {None} : hand = r} BY <1>4, <2>4
  <2> QED BY <2>1, <2>2, <2>3, <2>4 DEF Closers

LEMMA ClosedOnceHolds == ASSUME FramesIInv PROVE ClosedOnce
<1>1. ASSUME NEW r \in Refs, NEW x \in Closers(r) PROVE r \in live
  <2>1. PICK h \in Holders, k \in Nat : k \in 1..Len(Held[h]) /\ Held[h][k] = r
    BY <1>1, CloserHolds DEF FramesIInv
  <2>2. Held[h] \in Seq(Frame) /\ RefsIn(Held[h]) \subseteq live
    BY DEF FramesIInv, Partition
  <2>3. r # None BY FrameAssumption
  <2> QED BY <2>1, <2>2, <2>3, RefsInIs
<1>2. ASSUME NEW r \in Refs, NEW x \in Closers(r), NEW y \in Closers(r) PROVE x = y
  <2>1. PICK g \in Holders, j \in Nat : /\ CloserAt(x, g, j) /\ j \in 1..Len(Held[g])
                                        /\ Held[g][j] = r
    BY CloserHolds DEF FramesIInv
  <2>2. PICK h \in Holders, k \in Nat : /\ CloserAt(y, h, k) /\ k \in 1..Len(Held[h])
                                        /\ Held[h][k] = r
    BY CloserHolds DEF FramesIInv
  <2>3. /\ Held[g] \in Seq(Frame) /\ Held[h] \in Seq(Frame) /\ Each(Held[g])
        /\ g # h => RefsIn(Held[g]) \cap RefsIn(Held[h]) = {}
    BY DEF FramesIInv, Partition
  <2>4. r # None BY FrameAssumption
  <2>5. r \in RefsIn(Held[g]) /\ r \in RefsIn(Held[h]) BY <2>1, <2>2, <2>3, <2>4, RefsInIs
  <2>6. g = h BY <2>3, <2>5
  <2>7. j = k BY <2>1, <2>2, <2>3, <2>4, <2>6 DEF Each
  <2> QED BY <2>1, <2>2, <2>6, <2>7, CloserAtOnce
<1> QED BY <1>1, <1>2 DEF ClosedOnce

LEMMA NoFrameLostHolds == ASSUME FramesIInv PROVE NoFrameLost
<1> SUFFICES ASSUME NEW r \in live PROVE Closers(r) # {}
  BY DEF NoFrameLost
<1>1. PICK h \in Holders : r \in RefsIn(Held[h]) BY DEF FramesIInv, Partition
<1>2. CASE \E p \in Paths, n \in FrameLists : h = PathHold(p, n)
  <2>1. PICK p \in Paths, n \in FrameLists : h = PathHold(p, n) BY <1>2
  <2>2. r \in RefsIn(paths[p].msgs[n]) BY <1>1, <2>1, HeldIs DEF HoldIs
  <2>3. Ready(p) BY <2>2 DEF FramesIInv, SentEmpty
  <2>4. /\ paths[p].msgs[n] \in Seq(Frame) /\ Len(paths[p].msgs[n]) \in Nat
        /\ Len(paths[p].msgs[n]) <= ListMax /\ DOMAIN paths[p].msgs[n] = 1..Len(paths[p].msgs[n])
    BY ListTypes DEF FramesIInv
  <2>5. PICK k \in 1..Len(paths[p].msgs[n]) : paths[p].msgs[n][k] = r BY <2>2, <2>4, RefsInIs
  <2>6. k \in 1..ListMax BY <2>4, FrameAssumption
  <2>7. <<p, n, k>> \in Closers(r) BY <2>3, <2>4, <2>5, <2>6 DEF Closers
  <2> QED BY <2>7
<1>3. CASE \E s \in Stacks : h = StackHold(s)
  <2>1. PICK s \in Stacks : h = StackHold(s) BY <1>3
  <2>2. Owner(s) /\ r \in RefsIn(stacks[s].msgs)
    BY <1>1, <2>1, HeldIs, RefsInNone DEF HoldIs, Owner
  <2>4. /\ stacks[s].msgs \in Seq(Frame) /\ Len(stacks[s].msgs) \in Nat
        /\ Len(stacks[s].msgs) <= ListMax /\ DOMAIN stacks[s].msgs = 1..Len(stacks[s].msgs)
    BY ListTypes DEF FramesIInv, FrameSeqs
  <2>5. PICK k \in 1..Len(stacks[s].msgs) : stacks[s].msgs[k] = r BY <2>2, <2>4, RefsInIs
  <2>6. k \in 1..ListMax BY <2>4, FrameAssumption
  <2>7. <<s, k>> \in Closers(r) BY <2>2, <2>4, <2>5, <2>6 DEF Closers
  <2> QED BY <2>7
<1>4. CASE \E m \in Messages : h = MessageHold(m)
  <2>1. PICK m \in Messages : h = MessageHold(m) BY <1>4
  <2>2. messages[m].msg \in Frame BY DEF FramesIInv, FramesTypeOK
  <2>3. Held[h] = <<messages[m].msg>> BY <2>1, HeldIs DEF HoldIs
  <2>4. r = messages[m].msg /\ r # None BY <1>1, <2>2, <2>3, RefsInOne
  <2>5. messages[m].need_close BY <2>4 DEF FramesIInv, SentEmpty
  <2> QED BY <2>4, <2>5 DEF Closers
<1>5. CASE h = HandHold
  <2>1. hand \in Frame BY DEF FramesIInv, FramesTypeOK
  <2>2. Held[h] = <<hand>> BY <1>5, HeldIs DEF HoldIs
  <2>3. hand = r BY <1>1, <2>1, <2>2, RefsInOne
  <2> QED BY <2>3 DEF Closers
<1> QED BY <1>2, <1>3, <1>4, <1>5, HolderKinds

\* No frame is closed twice, by two objects or by one after it was sent.
THEOREM FramesClosedOnce == FramesSpec => []ClosedOnce
<1>1. FramesIInv => ClosedOnce BY ClosedOnceHolds
<1> QED BY <1>1, FramesInductive, PTL

\* No frame is lost: what is not closed or sent has an object that closes it.
THEOREM FramesNoneLost == FramesSpec => []NoFrameLost
<1>1. FramesIInv => NoFrameLost BY NoFrameLostHolds
<1> QED BY <1>1, FramesInductive, PTL

-----------------------------------------------------------------------------
(* RotateLoop.                                                             *)

\* A list is a function on its positions (RLAssumption: the inputs are lists).
LEMMA ListFacts ==
    ASSUME NEW s \in Seq(Frames)
    PROVE  /\ Len(s) \in Nat
           /\ s = [k \in 1..Len(s) |-> s[k]]
           /\ \A k \in 1..Len(s) : s[k] \in Frames
OBVIOUS

\* What the call keeps of its input: a prefix that holds the part it turns.
LEMMA KeptFacts ==
    ASSUME TypeOK,
           fn = "Rotate" => hops0 = Len(input) - 1,
           fn = "RotateRoute" => hops0 >= 0
    PROVE  /\ Kept \in Seq(Frames)
           /\ Len(Kept) <= Len(input)
           /\ Turned \in Nat /\ Turned <= Len(Kept)
           /\ \A k \in 1..Len(Kept) : Kept[k] = input[k]
<1>1. input \in Seq(Frames)
  BY RLAssumption DEF TypeOK
<1>2. CASE fn = "RotateRoute" /\ hops0 > 0 /\ Len(input) > hops0 + 1
  <2>1. Kept = SubSeq(input, 1, hops0 + 1)
    BY <1>2 DEF Kept
  <2>2. /\ Kept \in Seq(Frames) /\ Len(Kept) = hops0 + 1
        /\ \A k \in 1..hops0 + 1 : Kept[k] = input[k]
    BY <1>1, <1>2, <2>1 DEF TypeOK
  <2> QED
    BY <1>1, <1>2, <2>2 DEF Turned, TypeOK
<1>3. CASE ~(fn = "RotateRoute" /\ hops0 > 0 /\ Len(input) > hops0 + 1)
  <2>1. Kept = input
    BY <1>3 DEF Kept
  <2> QED
    BY <1>1, <2>1 DEF Turned, TypeOK
<1> QED
  BY <1>2, <1>3

LEMMA InitIInv == Init => IInv
<1> SUFFICES ASSUME Init PROVE IInv
  OBVIOUS
<1>1. input \in Seq(Frames) /\ Len(input) \in Nat
  BY RLAssumption DEF Init
<1>2. TypeOK
  BY <1>1 DEF Init, TypeOK
<1>3. CASE fn = "Rotate"
  <2>1. Kept = input /\ Turned = Len(input)
    BY <1>1, <1>3 DEF Init, Kept, Turned
  <2>2. SwapInv
    BY <1>1, <1>3, <2>1 DEF Init, SwapInv
  <2> QED
    BY <1>1, <1>2, <1>3, <2>2 DEF Init, IInv, Rotated
<1>4. CASE fn = "RotateRoute" /\ hops0 = 0
  <2>1. Kept = input /\ Turned = 0
    BY <1>4 DEF Kept, Turned
  <2>2. input = [k \in 1..Len(input) |-> input[k]]
    BY <1>1, ListFacts
  <2>3. Rotated
    BY <1>1, <1>4, <2>1, <2>2 DEF Init, Rotated
  <2> QED
    BY <1>1, <1>2, <1>4, <2>3 DEF Init, IInv
<1>5. CASE fn = "RotateRoute" /\ hops0 # 0
  BY <1>1, <1>2, <1>5 DEF Init, IInv, Rotated
<1> QED
  BY <1>3, <1>4, <1>5 DEF Init

\* Drop leaves the kept part, and the exchanges start.
LEMMA DropPreserves == IInv /\ Drop => IInv'
<1> SUFFICES ASSUME IInv, Drop PROVE IInv'
  OBVIOUS
<1>1. /\ fn = "RotateRoute" /\ hops0 > 0 /\ list = input /\ i = 0 /\ hops = hops0
      /\ TypeOK /\ input \in Seq(Frames)
  BY RLAssumption DEF IInv, Drop, TypeOK
<1>2. /\ Kept \in Seq(Frames) /\ Turned \in Nat /\ Turned = hops0 /\ hops0 \in Int
      /\ \A k \in 1..Len(Kept) : Kept[k] = input[k]
  BY <1>1, KeptFacts DEF Turned, TypeOK
<1>3. list' = Kept
  BY <1>1, <1>2 DEF Drop, Kept, TypeOK
<1>4. Kept' = Kept /\ Turned' = Turned /\ UNCHANGED <<fn, input, hops0, i, hops>> /\ pc' = "swap"
  BY DEF Drop, Kept, Turned
<1>5. TypeOK'
  BY <1>1, <1>2, <1>3, <1>4 DEF TypeOK
<1>6. SwapInv'
  BY <1>1, <1>2, <1>3, <1>4 DEF SwapInv
<1> QED
  BY <1>1, <1>4, <1>5, <1>6 DEF IInv, Rotated

\* An exchange moves both ends of the turned part by one.
LEMMA SwapPreserves == IInv /\ Swap => IInv'
<1> SUFFICES ASSUME IInv, Swap PROVE IInv'
  OBVIOUS
<1> DEFINE T == Turned
<1>1. /\ TypeOK /\ SwapInv /\ i < hops /\ pc = "swap" /\ pc' = "swap"
      /\ fn = "Rotate" => hops0 = Len(input) - 1
      /\ fn = "RotateRoute" => hops0 >= 0
  BY DEF IInv, Swap
<1>2. /\ Kept \in Seq(Frames) /\ T \in Nat /\ T <= Len(Kept)
      /\ Len(list) = Len(Kept) /\ Len(list) \in Nat /\ hops0 \in Int
      /\ i \in Nat /\ hops = hops0 - i /\ list \in Seq(Frames)
  BY <1>1, KeptFacts DEF SwapInv, TypeOK
<1>3. Low = i + 1 /\ High = T - i /\ Low \in 1..T /\ High \in 1..T /\ 2 * i < T
  BY <1>1, <1>2 DEF Low, High, Turned, TypeOK
<1>4. /\ list' = [list EXCEPT ![Low] = list[High], ![High] = list[Low]]
      /\ i' = i + 1 /\ hops' = hops - 1 /\ UNCHANGED <<fn, input, hops0, pc>>
      /\ Kept' = Kept /\ Turned' = T
  BY DEF Swap, Kept, Turned
<1>5. /\ list' \in Seq(Frames) /\ Len(list') = Len(list)
      /\ \A k \in 1..Len(list) : list'[k] = IF k = High THEN list[Low]
                                            ELSE IF k = Low THEN list[High]
                                            ELSE list[k]
  <2>1. Low \in 1..Len(list) /\ High \in 1..Len(list) BY <1>2, <1>3
  <2> DEFINE lo == Low
             hi == High
  <2>2. list' = [list EXCEPT ![lo] = list[hi], ![hi] = list[lo]] BY <1>4
  <2>3. list \in Seq(Frames) /\ lo \in 1..Len(list) /\ hi \in 1..Len(list) BY <1>2, <2>1
  <2> HIDE DEF lo, hi
  <2>4. /\ list' \in Seq(Frames) /\ Len(list') = Len(list)
        /\ \A k \in 1..Len(list) : list'[k] = IF k = hi THEN list[lo]
                                              ELSE IF k = lo THEN list[hi] ELSE list[k]
    BY ONLY <2>2, <2>3
  <2> QED BY ONLY <2>4 DEF lo, hi
<1>6. list[Low] = input[Low] /\ list[High] = input[High]
  <2>1. Low > i /\ Low <= T - i /\ High > i /\ High <= T - i
    BY <1>2, <1>3
  <2> QED
    BY <1>1, <1>2, <1>3, <2>1 DEF SwapInv
<1>7. TypeOK'
  <2>1. i' \in Nat /\ hops' \in Int BY <1>2, <1>4
  <2> QED BY <1>1, <1>4, <1>5, <2>1 DEF TypeOK
<1>8. SwapInv'
  <2>1. ASSUME NEW k \in 1..Len(list)
        PROVE  list'[k] = IF k <= T /\ (k <= i + 1 \/ k > T - (i + 1))
                          THEN input[T + 1 - k] ELSE input[k]
    <3>1. CASE k = High
      BY <1>2, <1>3, <1>5, <1>6, <3>1
    <3>2. CASE k = Low /\ k # High
      BY <1>2, <1>3, <1>5, <1>6, <3>2
    <3>3. CASE k # Low /\ k # High
      <4>1. list'[k] = list[k]
        BY <1>5, <3>3
      <4>2. (k <= i + 1 \/ k > T - (i + 1)) <=> (k <= i \/ k > T - i)
        BY <1>2, <1>3, <3>3
      <4> QED
        BY <1>1, <4>1, <4>2 DEF SwapInv
    <3> QED
      BY <3>1, <3>2, <3>3
  <2>2. 2 * (i + 1) <= T + 1 /\ hops - 1 = hops0 - (i + 1)
    BY <1>2, <1>3
  <2> QED
    BY <1>1, <1>2, <1>4, <1>5, <2>1, <2>2 DEF SwapInv
<1> QED
  BY <1>1, <1>4, <1>7, <1>8 DEF IInv, Rotated

\* When index and bound have met, the whole part is turned round.
LEMMA ReturnPreserves == IInv /\ Return => IInv'
<1> SUFFICES ASSUME IInv, Return PROVE IInv'
  OBVIOUS
<1> DEFINE T == Turned
<1>1. /\ TypeOK /\ SwapInv /\ i >= hops /\ pc' = "done"
      /\ UNCHANGED <<fn, input, hops0, list, i, hops>>
      /\ fn = "Rotate" => hops0 = Len(input) - 1
      /\ fn = "RotateRoute" => hops0 >= 0
  BY DEF IInv, Return
<1>2. /\ Kept \in Seq(Frames) /\ T \in Nat /\ T <= Len(Kept)
      /\ Len(list) = Len(Kept) /\ Len(list) \in Nat
      /\ i \in Nat /\ hops = hops0 - i /\ hops0 \in Int /\ list \in Seq(Frames)
      /\ 2 * i <= T + 1
  BY <1>1, KeptFacts DEF SwapInv, TypeOK
<1>3. T <= 2 * i + 1
  BY <1>1, <1>2 DEF Turned, TypeOK
<1>4. ASSUME NEW k \in 1..Len(list)
      PROVE  list[k] = IF k <= T THEN input[T + 1 - k] ELSE input[k]
  <2>1. CASE k <= i \/ k > T - i \/ k > T
    BY <1>1, <1>2, <2>1 DEF SwapInv
  <2>2. CASE k > i /\ k <= T - i
    <3>1. T + 1 - k = k
      BY <1>2, <1>3, <2>2
    <3> QED
      BY <1>1, <1>2, <3>1 DEF SwapInv
  <2> QED
    BY <1>2, <2>1, <2>2
<1>5. list = [k \in 1..Len(Kept) |-> IF k <= T THEN input[T + 1 - k] ELSE input[k]]
  <2>1. list = [k \in 1..Len(list) |-> list[k]]
    BY <1>2, ListFacts
  <2> QED
    BY <1>2, <1>4, <2>1
<1>6. TypeOK' /\ Rotated'
  BY <1>1, <1>5 DEF TypeOK, Rotated, Kept, Turned
<1> QED
  BY <1>1, <1>6 DEF IInv

\* The loop invariant holds for every list and every hop count.
THEOREM Inductive == Spec => []IInv
<1>1. Init => IInv
  BY InitIInv
<1>2. IInv /\ [Next]_vars => IInv'
  <2> SUFFICES ASSUME IInv, [Next]_vars PROVE IInv'
    OBVIOUS
  <2>1. CASE UNCHANGED vars
    BY <2>1 DEF vars, IInv, TypeOK, SwapInv, Rotated, Kept, Turned
  <2> QED
    BY <2>1, DropPreserves, SwapPreserves, ReturnPreserves DEF Next
<1> QED
  BY <1>1, <1>2, PTL DEF Spec

\* RotateRoute and Rotate of zmq.hpp return the turned list, whatever its
\* length and whatever the hop count.
THEOREM RotateCorrect == Spec => []Rotated
<1>1. IInv => Rotated
  BY DEF IInv
<1> QED
  BY <1>1, Inductive, PTL

\* The operator RotateRoute of RoutePath, on which the routing model rests,
\* is what the loop computes.
THEOREM OperatorIsLoop == Spec => []AgreesWithRoutePath
<1>1. IInv => AgreesWithRoutePath
  <2> SUFFICES ASSUME IInv, pc = "done", fn = "RotateRoute"
               PROVE  list = RotateRoute(input, hops0)
    BY DEF AgreesWithRoutePath
  <2>1. /\ TypeOK /\ input \in Seq(Frames) /\ Len(input) \in Nat
        /\ hops0 \in Nat /\ hops0 <= Len(input) /\ Turned = hops0
        /\ list = [k \in 1..Len(Kept) |-> IF k <= Turned THEN input[Turned + 1 - k]
                                                         ELSE input[k]]
    BY RLAssumption DEF IInv, TypeOK, Rotated, Turned
  <2>2. CASE hops0 = 0
    <3>1. Kept = input
      BY <2>2 DEF Kept
    <3>2. list = [k \in 1..Len(input) |-> input[k]]
      BY <2>1, <2>2, <3>1
    <3> QED
      BY <2>1, <2>2, <3>2, ListFacts DEF RotateRoute
  <2>3. CASE hops0 > 0
    <3>1. Len(Kept) = IF Len(input) > hops0 + 1 THEN hops0 + 1 ELSE Len(input)
      BY <2>1, <2>3 DEF Kept
    <3> QED
      BY <2>1, <2>3, <3>1 DEF RotateRoute
  <2> QED
    BY <2>1, <2>2, <2>3
<1> QED
  BY <1>1, Inductive, PTL

-----------------------------------------------------------------------------
(* RestResource: IsResource computes what Compares says.                   *)

\* The two strings are sequences, whose lengths are natural numbers.
LEMMA StringFacts ==
    ASSUME uri \in Uris, path \in Uris
    PROVE  Len(uri) \in Nat /\ Len(path) \in Nat
<1>1. uri \in Seq(Chars \cup {Slash}) /\ path \in Seq(Chars \cup {Slash})
  BY RRAssumption
<1> QED BY <1>1

\* IsResource starts in the invariant.
LEMMA InitResInv == ResInit => ResInv
<1> SUFFICES ASSUME ResInit PROVE ResInv OBVIOUS
<1>1. Len(uri) \in Nat /\ Len(path) \in Nat
  BY StringFacts DEF ResInit
<1> QED BY <1>1 DEF ResInit, ResInv, Compares

\* The early return for a uri shorter than the path.
LEMMA TooShortPreserves == ASSUME ResInv, TooShort PROVE ResInv'
<1>1. Len(uri) \in Nat /\ Len(path) \in Nat
  BY StringFacts DEF ResInv
<1>2. ~Prefixed
  BY <1>1 DEF TooShort, Prefixed
<1>3. Compares'
  BY <1>1, <1>2 DEF TooShort, Compares, Prefixed, HasSubpath
<1> QED BY <1>3 DEF ResInv, TooShort

\* One turn of the loop: one more character is equal, or the result is -1.
LEMMA ComparePreserves == ASSUME ResInv, Compare PROVE ResInv'
<1>1. Len(uri) \in Nat /\ Len(path) \in Nat
  BY StringFacts DEF ResInv
<1>2. idx \in Nat /\ idx < Len(path) /\ Len(uri) >= Len(path)
  BY <1>1 DEF ResInv, Compare
<1>3. CASE uri[idx + 1] # path[idx + 1]
  <2>1. idx + 1 \in 1..Len(path)
    BY <1>1, <1>2
  <2>2. ~Prefixed
    BY <1>3, <2>1 DEF Prefixed
  <2>3. uri # path BY <1>3
  <2>4. Compares'
    BY <1>3, <2>2, <2>3 DEF Compare, Compares, Prefixed, HasSubpath
  <2> QED BY <1>3, <2>4 DEF ResInv, Compare
<1>4. CASE uri[idx + 1] = path[idx + 1]
  <2>1. UNCHANGED <<uri, path, stage, ret>> /\ idx' = idx + 1 /\ stage = "loop"
    BY <1>4 DEF Compare
  <2>2. \A k \in 1..idx : uri[k] = path[k]
    BY <1>2 DEF ResInv
  <2>3. \A k \in 1..(idx + 1) : uri[k] = path[k]
    <3>1. \A k \in 1..(idx + 1) : k \in 1..idx \/ k = idx + 1 BY <1>2
    <3> QED BY <1>4, <2>2, <3>1
  <2>4. Compares'
    BY <2>1 DEF Compares
  <2> QED BY <1>1, <1>2, <2>1, <2>3, <2>4 DEF ResInv
<1> QED BY <1>3, <1>4

\* After the last turn every character of the path has been compared.
LEMMA MatchedPreserves == ASSUME ResInv, Matched PROVE ResInv'
<1>1. Len(uri) \in Nat /\ Len(path) \in Nat
  BY StringFacts DEF ResInv
<1>2. idx = Len(path) /\ Len(uri) >= Len(path)
  BY <1>1 DEF ResInv, Matched
<1>3. Prefixed
  BY <1>2 DEF ResInv, Prefixed
<1>4. UNCHANGED <<uri, path, idx>> /\ Prefixed'
  BY <1>3 DEF Matched, Prefixed
<1>5. Compares'
  BY <1>1, <1>4 DEF Matched, Compares, HasSubpath
<1> QED BY <1>5 DEF ResInv, Matched

\* The loop invariant of IsResource.
THEOREM ResInductive == ResSpec => []ResInv
<1>1. ResInv /\ [ResNext]_resVars => ResInv'
  <2> SUFFICES ASSUME ResInv, [ResNext]_resVars PROVE ResInv' OBVIOUS
  <2>1. CASE TooShort
    BY <2>1, TooShortPreserves
  <2>2. CASE Compare
    BY <2>2, ComparePreserves
  <2>3. CASE Matched
    BY <2>3, MatchedPreserves
  <2>4. CASE UNCHANGED resVars
    BY <2>4 DEF resVars, ResInv, Compares, Prefixed, HasSubpath
  <2> QED BY <2>1, <2>2, <2>3, <2>4 DEF ResNext
<1> QED BY InitResInv, <1>1, PTL DEF ResSpec

\* IsResource returns 1 exactly for a resource below the path, 0 for the path
\* and -1 for a uri that does not begin with it.
THEOREM ResourceCompared == ResSpec => []Compares
<1>1. ResInv => Compares
  BY DEF ResInv
<1> QED BY ResInductive, <1>1, PTL

-----------------------------------------------------------------------------
(* Sqlite.                                                                 *)

SqliteTypeOK ==
    /\ db \in [Dbs -> Conns \cup {NoHandle}]
    /\ opened \subseteq Conns
    /\ zombies \subseteq opened
    /\ sdb \in [Stmts -> Conns \cup {NoHandle}]
    /\ stmt \in [Stmts -> Handles \cup {NoHandle}]
    /\ conn \in [Handles -> Conns \cup {NoHandle}]

\* One wrapper for each connection that is open and each statement.
OneWrapper ==
    /\ \A d, e \in Dbs : db[d] # NoHandle /\ db[d] = db[e] => d = e
    /\ \A s, t \in Stmts : stmt[s] # NoHandle /\ stmt[s] = stmt[t] => s = t

\* A statement keeps its connection from being freed, and its wrapper knows
\* that connection.
ConnHeld ==
    \A s \in Stmts : stmt[s] # NoHandle =>
        conn[stmt[s]] \in opened /\ sdb[s] = conn[stmt[s]]

SqliteIInv == SqliteTypeOK /\ OneWrapper /\ ConnHeld /\ HandlesKept

LEMMA InitHolds == SqliteInit => SqliteIInv
BY SqliteAssumption
   DEF SqliteInit, SqliteIInv, SqliteTypeOK, OneWrapper, ConnHeld, HandlesKept

LEMMA HandlesStay ==
    HandlesKept /\ UNCHANGED <<db, opened, zombies, stmt, conn, staleRead>> => HandlesKept'
BY DEF HandlesKept, StatementsOf

\* The steps of a Sqlite.
LEMMA DbPreserves ==
    ASSUME SqliteIInv, NEW d \in Dbs, Close(d) \/ \E c \in Conns : Open(d, c)
    PROVE  SqliteIInv'
<1> USE SqliteAssumption DEF SqliteIInv
<1>1. CASE Close(d)
  <2> USE <1>1 DEF Close
  <2>1. SqliteTypeOK' BY DEF SqliteTypeOK, HandlesKept
  <2>2. OneWrapper' BY DEF OneWrapper, SqliteTypeOK
  \* What is freed has no statement.
  <2>3. \A s \in Stmts : stmt[s] # NoHandle => stmt[s] \in StatementsOf(conn[stmt[s]])
    BY DEF SqliteTypeOK, StatementsOf
  <2>4. ConnHeld' BY <2>3 DEF ConnHeld, SqliteTypeOK
  <2>5. HandlesKept' BY DEF HandlesKept, OneWrapper, SqliteTypeOK, StatementsOf
  <2> QED BY <2>1, <2>2, <2>4, <2>5
<1>2. CASE \E c \in Conns : Open(d, c)
  <2>1. PICK c \in Conns : Open(d, c) BY <1>2
  <2> USE <2>1 DEF Open
  <2>2. SqliteTypeOK' BY DEF SqliteTypeOK
  <2>3. OneWrapper' BY DEF OneWrapper, SqliteTypeOK, HandlesKept
  <2>4. ConnHeld' BY DEF ConnHeld, SqliteTypeOK
  <2>5. HandlesKept' BY DEF HandlesKept, SqliteTypeOK, StatementsOf
  <2> QED BY <2>2, <2>3, <2>4, <2>5
<1> QED BY <1>1, <1>2

\* The steps of a SqliteStmt but its end, if the callers are Careful.
LEMMA StmtPreserves ==
    ASSUME SqliteIInv, Careful, NEW s \in Stmts,
           \/ BindFails(s) \/ Step(s) \/ Reset(s)
           \/ \E d \in Dbs : \/ PrepareRefused(s, d) \/ PrepareNone(s, d)
                             \/ \E h \in Handles : Prepare(s, d, h)
    PROVE  SqliteIInv'
<1> USE SqliteAssumption DEF SqliteIInv, MayPrepare
<1>1. CASE BindFails(s)
  <2>1. UNCHANGED <<db, opened, zombies, sdb, stmt, conn>> BY <1>1 DEF BindFails
  <2>2. ~staleRead' BY <1>1 DEF BindFails, ConnHeld, HandlesKept
  <2> QED BY <2>1, <2>2 DEF SqliteTypeOK, OneWrapper, ConnHeld, HandlesKept, StatementsOf
<1>2. CASE Step(s) \/ Reset(s)
  BY <1>2 DEF Step, Reset, SqliteTypeOK, OneWrapper, ConnHeld, HandlesKept, StatementsOf
<1>3. CASE \E d \in Dbs : PrepareRefused(s, d) \/ PrepareNone(s, d)
  <2>1. PICK d \in Dbs : PrepareRefused(s, d) \/ PrepareNone(s, d) BY <1>3
  <2>2. stmt[s] = NoHandle /\ UNCHANGED <<db, opened, zombies, conn, stmt, staleRead>>
        /\ sdb' = [sdb EXCEPT ![s] = db[d]]
    BY <2>1 DEF PrepareRefused, PrepareNone, SqliteTypeOK
  <2> QED BY <2>2 DEF SqliteTypeOK, OneWrapper, ConnHeld, HandlesKept, StatementsOf
<1>4. CASE \E d \in Dbs, h \in Handles : Prepare(s, d, h)
  <2>1. PICK d \in Dbs, h \in Handles : Prepare(s, d, h) BY <1>4
  <2> USE <2>1 DEF Prepare
  <2>2. SqliteTypeOK' BY DEF SqliteTypeOK
  <2>3. OneWrapper' BY DEF OneWrapper, SqliteTypeOK
  <2>4. ConnHeld' BY DEF ConnHeld, SqliteTypeOK, HandlesKept
  <2>5. HandlesKept' BY DEF HandlesKept, SqliteTypeOK, StatementsOf
  <2> QED BY <2>2, <2>3, <2>4, <2>5
<1> QED BY <1>1, <1>2, <1>3, <1>4

\* The end of a SqliteStmt: the connection goes with its last statement only.
LEMMA EndPreserves ==
    ASSUME SqliteIInv, NEW s \in Stmts, EndStmt(s)
    PROVE  SqliteIInv'
<1> USE SqliteAssumption DEF SqliteIInv, EndStmt
<1>1. CASE stmt[s] = NoHandle
  <2>1. UNCHANGED <<db, opened, zombies, stmt, staleRead>> BY <1>1 DEF SqliteTypeOK
  <2>2. conn' = conn BY <1>1 DEF SqliteTypeOK
  <2>3. sdb' \in [Stmts -> Conns \cup {NoHandle}]
        /\ \A t \in Stmts : t # s => sdb'[t] = sdb[t]
    BY DEF SqliteTypeOK
  <2>4. SqliteTypeOK' /\ OneWrapper' BY <2>1, <2>2, <2>3 DEF SqliteTypeOK, OneWrapper
  <2>5. ConnHeld' BY <1>1, <2>1, <2>2, <2>3 DEF ConnHeld
  <2>6. HandlesKept' BY <2>1, <2>2, HandlesStay
  <2> QED BY <2>4, <2>5, <2>6
<1>2. CASE stmt[s] # NoHandle
  <2> DEFINE h0 == stmt[s]
             c0 == conn[h0]
  <2>1. h0 \in Handles /\ c0 \in Conns /\ c0 \in opened
    BY <1>2 DEF SqliteTypeOK, ConnHeld
  <2>2. stmt' = [stmt EXCEPT ![s] = NoHandle] /\ sdb' = [sdb EXCEPT ![s] = NoHandle]
        /\ conn' = [h \in Handles |-> IF h = h0 THEN NoHandle ELSE conn[h]]
        /\ db' = db /\ staleRead' = staleRead
    OBVIOUS
  <2>3. \/ /\ StatementsOf(c0) = {h0}
           /\ opened' = opened \ ({c0} \cap zombies) /\ zombies' = zombies \ {c0}
        \/ /\ StatementsOf(c0) # {h0}
           /\ opened' = opened /\ zombies' = zombies
    BY <1>2, <2>1
  <2> HIDE DEF EndStmt
  <2>4. \A t \in Stmts : t # s /\ stmt[t] # NoHandle => stmt[t] # h0
    BY <1>2 DEF OneWrapper
  <2>5. SqliteTypeOK' BY <2>2, <2>3 DEF SqliteTypeOK
  <2>6. OneWrapper' BY <2>2 DEF OneWrapper, SqliteTypeOK
  <2>7. ASSUME NEW t \in Stmts, t # s, stmt[t] # NoHandle
        PROVE  conn[stmt[t]] \in opened'
    <3>1. stmt[t] \in Handles /\ stmt[t] # h0 BY <2>4, <2>7 DEF SqliteTypeOK
    <3>2. conn[stmt[t]] = c0 => stmt[t] \in StatementsOf(c0) BY <3>1 DEF StatementsOf
    <3> QED BY <2>3, <2>7, <3>1, <3>2 DEF ConnHeld
  <2>8. ConnHeld' BY <2>2, <2>4, <2>7 DEF ConnHeld, SqliteTypeOK
  <2>9. HandlesKept'
    <3>1. (\A h \in Handles : conn[h] # NoHandle => \E t \in Stmts : stmt[t] = h)'
      BY <2>1, <2>2 DEF HandlesKept, SqliteTypeOK
    <3>2. \A c \in Conns : StatementsOf(c)' = StatementsOf(c) \ {h0}
      BY <2>1, <2>2 DEF StatementsOf, SqliteTypeOK
    <3>3. h0 \in StatementsOf(c0) /\ \A c \in Conns : c # c0 => h0 \notin StatementsOf(c)
      BY <2>1 DEF StatementsOf
    <3>4. (\A c \in opened : \/ \E d \in Dbs : db[d] = c
                             \/ c \in zombies /\ StatementsOf(c) # {})'
      BY <2>1, <2>2, <2>3, <3>2, <3>3 DEF HandlesKept, SqliteTypeOK
    <3>5. (\A d \in Dbs : db[d] # NoHandle => db[d] \in opened \ zombies)'
      BY <2>2, <2>3 DEF HandlesKept
    <3>6. ~staleRead' BY <2>2 DEF HandlesKept
    <3> QED BY <3>1, <3>4, <3>5, <3>6 DEF HandlesKept
  <2> QED BY <2>5, <2>6, <2>8, <2>9
<1> QED BY <1>1, <1>2

\* One SqliteStmt has a statement, one Sqlite an open connection, and what a
\* statement keeps alive is where its wrapper looks.
THEOREM SqliteInductive == ASSUME Careful PROVE SqliteSpec => []SqliteIInv
<1>1. SqliteIInv /\ [SqliteNext]_sqliteVars => SqliteIInv'
  <2> SUFFICES ASSUME SqliteIInv, [SqliteNext]_sqliteVars PROVE SqliteIInv'
    OBVIOUS
  <2>1. CASE UNCHANGED sqliteVars
    BY <2>1 DEF sqliteVars, SqliteIInv, SqliteTypeOK, OneWrapper, ConnHeld, HandlesKept, StatementsOf
  <2>2. CASE SqliteNext
    BY <2>2, DbPreserves, StmtPreserves, EndPreserves DEF SqliteNext
  <2> QED BY <2>1, <2>2
<1> QED BY <1>1, InitHolds, PTL DEF SqliteSpec

\* Connections and statements that SQLite keeps are led to by the wrappers that
\* free them, and Bind reads no freed connection (Sqlite, SqliteStmt).
THEOREM HandlesAreKept == ASSUME Careful PROVE SqliteSpec => []HandlesKept
BY SqliteInductive, PTL DEF SqliteIInv
==============================================================================
