----------------------------- MODULE FrameOwner -----------------------------
(***************************************************************************)
(* Who closes a ZeroMQ frame: z::zmq::Message, MsgStack and RoutePath of   *)
(* zpp/zmq.hpp and the Socket calls that send and receive them.            *)
(*                                                                         *)
(* A zmq_msg_t with a long content holds one reference to it, which must   *)
(* be given back once, by zmq_msg_close or by a successful zmq_msg_send.   *)
(* The three classes copy zmq_msg_t both properly (zmq_msg_copy: one more  *)
(* reference) and bit by bit (the same reference in two places), and keep  *)
(* need_close and status to tell which place closes.  Refs are the         *)
(* references; None is a zmq_msg_t without one: initialised, sent, moved   *)
(* from or closed, which is harmless to close.  vsm frames (up to 29       *)
(* bytes) hold no reference and are None as well.                          *)
(*                                                                         *)
(* The actions are the calls a program may make.  What the classes leave   *)
(* to the caller is in the conjuncts Begun, Unsent, Owner, Ready and       *)
(* Readable; nothing in the classes sees to it.  A Message that is filled  *)
(* while it holds a frame forgets that frame, and this is modelled.        *)
(***************************************************************************)
EXTENDS Integers, Sequences, SequencesExt

CONSTANTS Paths, Stacks, Messages, Refs, None, ListMax

ASSUME FrameAssumption == None \notin Refs /\ ListMax \in Nat

VARIABLES
    paths,      \* paths[p]: RoutePath, lists 0 source, 1 data, 2 destination
    stacks,     \* stacks[s]: MsgStack, its list and the close bit of status
    messages,   \* messages[m]: Message
    hand,       \* a zmq_msg_t of the caller, that he closes or pushes
    live,       \* the references not given back, but for the forgotten ones
    forgotten,  \* references of Messages that were filled again
    raw         \* the Messages whose msg nothing has initialised yet

memory == <<forgotten, raw>>
frameVars == <<paths, stacks, messages, hand, live, memory>>

FrameLists == 0..2
NewPath == [msgs |-> [n \in FrameLists |-> <<>>], need_close |-> TRUE]
NewStack == [msgs |-> <<>>, notClose |-> FALSE]
NewMessage == [msg |-> None, need_close |-> TRUE]

RefsIn(xs) == {xs[j] : j \in DOMAIN xs} \ {None}
PathRefs(p) == UNION {RefsIn(paths[p].msgs[n]) : n \in FrameLists}

\* References nobody has a copy of.
Unused == Refs \ (live \cup forgotten \cup (UNION {PathRefs(p) : p \in Paths})
                       \cup (UNION {RefsIn(stacks[s].msgs) : s \in Stacks})
                       \cup {messages[m].msg : m \in Messages} \cup {hand})

\* What zmq_msg_copy of the frames xs gives: a reference for each of them.
Copies(xs) == {ys \in [DOMAIN xs -> Unused \cup {None}] :
                  /\ \A j \in DOMAIN xs : ys[j] = None <=> xs[j] = None
                  /\ \A j, k \in DOMAIN xs : ys[j] = ys[k] /\ ys[j] # None => j = k}
\* n frames made by zmq_msg_init_size or received.
Made(n) == {ys \in [1..n -> Unused] : IsInjective(ys)}

FramesInit ==
    /\ paths = [p \in Paths |-> NewPath]
    /\ stacks = [s \in Stacks |-> NewStack]
    /\ messages = [m \in Messages |-> NewMessage]
    /\ hand = None
    /\ live = {}
    /\ forgotten = {}
    /\ raw = Messages

-----------------------------------------------------------------------------
(* What the classes expect of their caller *)

\* A Message is read, moved, sent and ended after an Init: the constructor
\* leaves msg as the memory was, and the destructor closes it all the same.
Begun(m) == m \notin raw
\* A Message that was sent is not filled again: nothing sets need_close.
Unsent(m) == messages[m].need_close
\* A MsgStack given to PushDest or sent does not close its frames any more.
Owner(s) == ~stacks[s].notClose
\* A RoutePath that was sent is filled again after Release, not CloseMsg.
Ready(p) == paths[p].need_close
\* Frames that are copied have not been given back through another place.
Readable(xs) == RefsIn(xs) \subseteq live

-----------------------------------------------------------------------------
(* Mutants *)

MutSetUserData(p, k) ==         \* an assignment in place of zmq_msg_move
    /\ Ready(p) /\ k \in DOMAIN paths[p].msgs[1]
    /\ \E r \in Unused : /\ paths' = [paths EXCEPT ![p].msgs[1][k] = r]
                         /\ live' = live \cup {r}
    /\ UNCHANGED <<stacks, messages, hand, memory>>

MutPushDestStack(p, s) ==       \* the stack goes on closing its frames
    /\ Ready(p) /\ Owner(s)
    /\ Len(paths[p].msgs[2]) + Len(stacks[s].msgs) <= ListMax
    /\ paths' = [paths EXCEPT ![p].msgs[2] = @ \o stacks[s].msgs]
    /\ UNCHANGED <<stacks, messages, hand, live, memory>>

-----------------------------------------------------------------------------
(* Message *)

\* msg is assigned or initialised over what it was: a frame that it held is
\* forgotten.  new is the reference that is made.
Overwrite(m, x, new) ==
    /\ Unsent(m)
    /\ messages' = [messages EXCEPT ![m].msg = x]
    /\ live' = (live \ {messages[m].msg}) \cup new
    /\ forgotten' = forgotten \cup RefsIn(<<messages[m].msg>>)
    /\ raw' = raw \ {m}

\* Init with no argument, a size, data or string, and Socket::Recv.
Fill(m) ==
    /\ \E r \in Unused \cup {None} : Overwrite(m, r, RefsIn(<<r>>))
    /\ UNCHANGED <<paths, stacks, hand>>

\* Init(zmq_msg_t&), as MsgStack::At calls it.
InitCopy(m, s) ==
    /\ \E k \in DOMAIN stacks[s].msgs :
          /\ Readable(<<stacks[s].msgs[k]>>)
          /\ \E ys \in Copies(<<stacks[s].msgs[k]>>) : Overwrite(m, ys[1], RefsIn(ys))
    /\ UNCHANGED <<paths, stacks, hand>>

\* Init(zmq_msg_t*), bit by bit, of a frame that the caller gives away.
InitPointer(m) ==
    /\ hand # None
    /\ Overwrite(m, hand, {})
    /\ hand' = None
    /\ UNCHANGED <<paths, stacks>>

\* zmq_msg_copy closes what the target held.
CopyMessage(m, n) ==
    /\ m # n /\ Unsent(m) /\ Begun(m) /\ Begun(n)
    /\ \E ys \in Copies(<<messages[n].msg>>) :
          /\ messages' = [messages EXCEPT ![m].msg = ys[1]]
          /\ live' = (live \ {messages[m].msg}) \cup RefsIn(ys)
    /\ UNCHANGED <<paths, stacks, hand, memory>>

MoveMessage(m, n) ==
    /\ m # n /\ Unsent(m) /\ Begun(m) /\ Begun(n)
    /\ messages' = [messages EXCEPT ![m].msg = messages[n].msg, ![n].msg = None]
    /\ live' = live \ {messages[m].msg}
    /\ UNCHANGED <<paths, stacks, hand, memory>>

\* Socket::Send(Message); a Send that fails changes nothing.
SendMessage(m) ==
    /\ Begun(m)
    /\ messages' = [messages EXCEPT ![m] = [msg |-> None, need_close |-> FALSE]]
    /\ live' = live \ {messages[m].msg}
    /\ UNCHANGED <<paths, stacks, hand, memory>>

\* ~Message, and a new object in its place.
EndMessage(m) ==
    /\ Begun(m)
    /\ messages' = [messages EXCEPT ![m] = NewMessage]
    /\ live' = IF messages[m].need_close THEN live \ {messages[m].msg} ELSE live
    /\ raw' = raw \cup {m}
    /\ UNCHANGED <<paths, stacks, hand, forgotten>>

-----------------------------------------------------------------------------
(* MsgStack *)

\* Push of data or a string, and Recv, which pushes each frame it receives.
PushNew(s) ==
    /\ Owner(s) /\ Len(stacks[s].msgs) < ListMax
    /\ \E r \in Unused : /\ stacks' = [stacks EXCEPT ![s].msgs = Append(@, r)]
                         /\ live' = live \cup {r}
    /\ UNCHANGED <<paths, messages, hand, memory>>

\* The frames that Push, PushMsg and Copy take over into the object x: a
\* Message, another MsgStack, a list of another RoutePath.
Sources(x) == {<<messages[m].msg>> : m \in Messages \ raw}
              \cup {stacks[s].msgs : s \in Stacks \ {x}}
              \cup {paths[p].msgs[n] : p \in Paths \ {x}, n \in FrameLists}

\* Push(zmq_msg_t*), Push(Message), Push(MsgStack), Copy, RoutePath::Copy(MsgStack).
PushCopy(s) ==
    /\ Owner(s)
    /\ \E xs \in Sources(s) :
          /\ Readable(xs) /\ Len(stacks[s].msgs) + Len(xs) <= ListMax
          /\ \E ys \in Copies(xs) :
                /\ stacks' = [stacks EXCEPT ![s].msgs = @ \o ys]
                /\ live' = live \cup RefsIn(ys)
    /\ UNCHANGED <<paths, messages, hand, memory>>

ReplaceBack(s) ==
    /\ Owner(s) /\ stacks[s].msgs # <<>>
    /\ \E r \in Unused :
          /\ stacks' = [stacks EXCEPT ![s].msgs[Len(stacks[s].msgs)] = r]
          /\ live' = (live \ {Last(stacks[s].msgs)}) \cup {r}
    /\ UNCHANGED <<paths, messages, hand, memory>>

\* Pop(zmq_msg_t&) and Push(zmq_msg_t&): the bits go to the caller and back.
PopFrame(s) ==
    /\ Owner(s) /\ hand = None /\ stacks[s].msgs # <<>>
    /\ hand' = Last(stacks[s].msgs)
    /\ stacks' = [stacks EXCEPT ![s].msgs = Front(@)]
    /\ UNCHANGED <<paths, messages, live, memory>>

PushFrame(s) ==
    /\ Owner(s) /\ hand # None /\ Len(stacks[s].msgs) < ListMax
    /\ stacks' = [stacks EXCEPT ![s].msgs = Append(@, hand)]
    /\ hand' = None
    /\ UNCHANGED <<paths, messages, live, memory>>

CloseFrame ==
    /\ hand # None
    /\ live' = live \ {hand}
    /\ hand' = None
    /\ UNCHANGED <<paths, stacks, messages, memory>>

\* Erase does not close: for frames that another place closes or none has.
Erase(s, k) ==
    /\ k \in DOMAIN stacks[s].msgs
    /\ Owner(s) => stacks[s].msgs[k] = None
    /\ stacks' = [stacks EXCEPT ![s].msgs = RemoveAt(@, k)]
    /\ UNCHANGED <<paths, messages, hand, live, memory>>

\* SetClose is called by the caller on a stack without references only.
SetClose(s, need) ==
    /\ RefsIn(stacks[s].msgs) = {}
    /\ stacks' = [stacks EXCEPT ![s].notClose = ~need]
    /\ UNCHANGED <<paths, messages, hand, live, memory>>

\* Socket::Send(MsgStack): the first k frames are taken; with all of them
\* taken SetClose(false), else the error return.
SendStack(s) ==
    /\ Owner(s) /\ stacks[s].msgs # <<>>
    /\ \E k \in 0..Len(stacks[s].msgs) :
          LET xs == stacks[s].msgs IN
          /\ stacks' = [stacks EXCEPT
                 ![s].msgs = [j \in DOMAIN xs |-> IF j <= k THEN None ELSE xs[j]],
                 ![s].notClose = (k = Len(xs))]
          /\ live' = live \ RefsIn(SubSeq(xs, 1, k))
    /\ UNCHANGED <<paths, messages, hand, memory>>

EndStack(s) ==
    /\ stacks' = [stacks EXCEPT ![s] = NewStack]
    /\ live' = IF Owner(s) THEN live \ RefsIn(stacks[s].msgs) ELSE live
    /\ UNCHANGED <<paths, messages, hand, memory>>

-----------------------------------------------------------------------------
(* RoutePath *)

\* InitRoute, PushMsg, PushDest and PushSrc of a string.
PushString(p, n) ==
    /\ Ready(p) /\ Len(paths[p].msgs[n]) < ListMax
    /\ \E r \in Unused : /\ paths' = [paths EXCEPT ![p].msgs[n] = Append(@, r)]
                         /\ live' = live \cup {r}
    /\ UNCHANGED <<stacks, messages, hand, memory>>

\* PushMsg, PushDest, PushSrc of a Message or MsgStack; Copy(RoutePath) and
\* CopyRoute are one such call for each list.
PushFrames(p, n) ==
    /\ Ready(p)
    /\ \E xs \in Sources(p) :
          /\ Readable(xs) /\ Len(paths[p].msgs[n]) + Len(xs) <= ListMax
          /\ \E ys \in Copies(xs) :
                /\ paths' = [paths EXCEPT ![p].msgs[n] = @ \o ys]
                /\ live' = live \cup RefsIn(ys)
    /\ UNCHANGED <<stacks, messages, hand, memory>>

\* PushDest(MsgStack): bit by bit.
PushDestStack(p, s) ==
    /\ Ready(p) /\ Owner(s)
    /\ Len(paths[p].msgs[2]) + Len(stacks[s].msgs) <= ListMax
    /\ stacks' = [stacks EXCEPT ![s].notClose = TRUE]
    /\ paths' = [paths EXCEPT ![p].msgs[2] = @ \o stacks[s].msgs]
    /\ UNCHANGED <<messages, hand, live, memory>>

\* DestBack and CopySrc.
CopyFrame(p) ==
    /\ hand = None /\ Ready(p)
    /\ \E x \in {Last(paths[p].msgs[2]) : j \in {1} \cap DOMAIN paths[p].msgs[2]}
                \cup {paths[p].msgs[0][j] : j \in {1} \cap DOMAIN paths[p].msgs[0]} :
          \E ys \in Copies(<<x>>) : hand' = ys[1] /\ live' = live \cup RefsIn(ys)
    /\ UNCHANGED <<paths, stacks, messages, memory>>

PopDest(p, m) ==
    /\ Ready(p) /\ paths[p].msgs[2] # <<>>
    /\ Overwrite(m, Last(paths[p].msgs[2]), {})
    /\ paths' = [paths EXCEPT ![p].msgs[2] = Front(@)]
    /\ UNCHANGED <<stacks, hand>>

\* SetUserData: zmq_msg_move closes what the slot held.
SetUserData(p, k) ==
    /\ Ready(p) /\ k \in DOMAIN paths[p].msgs[1]
    /\ \E r \in Unused : /\ paths' = [paths EXCEPT ![p].msgs[1][k] = r]
                         /\ live' = (live \ {paths[p].msgs[1][k]}) \cup {r}
    /\ UNCHANGED <<stacks, messages, hand, memory>>

\* MoveUserData: zmq_msg_move closes the target and empties the source, which
\* may be the same slot.
MoveUserData(p, q, k) ==
    /\ Ready(p) /\ k \in DOMAIN paths[p].msgs[1] \cap DOMAIN paths[q].msgs[1]
    /\ paths' = [paths EXCEPT ![p].msgs[1][k] = paths[q].msgs[1][k],
                              ![q].msgs[1][k] = None]
    /\ live' = live \ {paths[p].msgs[1][k]}
    /\ UNCHANGED <<stacks, messages, hand, memory>>

\* SwapMsg, SwapData, SwapSrc: the bits of a slot and of a Message.
SwapMessage(p, n, k, m) ==
    /\ Ready(p) /\ k \in DOMAIN paths[p].msgs[n] /\ Unsent(m) /\ Begun(m)
    /\ paths' = [paths EXCEPT ![p].msgs[n][k] = messages[m].msg]
    /\ messages' = [messages EXCEPT ![m].msg = paths[p].msgs[n][k]]
    /\ UNCHANGED <<stacks, hand, live, memory>>

\* CalcRoute and SwapDest: the bits of two slots of one path.
SwapSlots(p, n, j, k) ==
    /\ j \in DOMAIN paths[p].msgs[n] /\ k \in DOMAIN paths[p].msgs[2]
    /\ paths' = [paths EXCEPT ![p].msgs[n][j] = paths[p].msgs[2][k],
                              ![p].msgs[2][k] = paths[p].msgs[n][j]]
    /\ UNCHANGED <<stacks, messages, hand, live, memory>>

CalcRouteSlots(p) == \E hops \in 1..ListMax : SwapSlots(p, 0, 1, hops)
SwapDest(p) == SwapSlots(p, 2, Len(paths[p].msgs[2]), Len(paths[p].msgs[2]) - 1)

SwapRoute(p, s) ==
    /\ Ready(p) /\ Owner(s)
    /\ paths' = [paths EXCEPT ![p].msgs[2] = stacks[s].msgs]
    /\ stacks' = [stacks EXCEPT ![s].msgs = paths[p].msgs[2]]
    /\ UNCHANGED <<messages, hand, live, memory>>

\* RotateRoute closes what is behind the first hops + 1; hops of 0 return.
CloseTail(p, hops) ==
    LET xs == paths[p].msgs[2] IN
    /\ Ready(p) /\ hops > 0 /\ Len(xs) > hops
    /\ paths' = [paths EXCEPT ![p].msgs[2] =
                    Reverse(SubSeq(xs, 1, hops)) \o SubSeq(xs, hops + 1, hops + 1)]
    /\ live' = live \ RefsIn(SubSeq(xs, hops + 2, Len(xs)))
    /\ UNCHANGED <<stacks, messages, hand, memory>>

\* CloseMsg: what is not asked for stays, unless need_close is false.
CloseMsg(p, which) ==
    LET gone == IF Ready(p) THEN which ELSE FrameLists IN
    /\ paths' = [paths EXCEPT ![p].msgs =
                    [n \in FrameLists |-> IF n \in gone THEN <<>> ELSE @[n]]]
    /\ live' = IF Ready(p) THEN live \ UNION {RefsIn(paths[p].msgs[n]) : n \in gone}
                           ELSE live
    /\ UNCHANGED <<stacks, messages, hand, memory>>

Release(p) ==                   \* and ~RoutePath, where need_close is set
    /\ paths' = [paths EXCEPT ![p] = NewPath]
    /\ live' = live \ PathRefs(p)
    /\ UNCHANGED <<stacks, messages, hand, memory>>

\* Socket::Send(RoutePath): source, data and destination in this order, of
\* the source the first frame only; the first k frames are taken.
SendRoute(p) ==
    LET xs == paths[p].msgs
        before == [n \in FrameLists |-> IF n = 0 THEN 0
                                   ELSE Len(xs[0]) + (IF n = 1 THEN 0 ELSE Len(xs[1]))]
        all == before[2] + Len(xs[2]) IN
    /\ Ready(p) /\ Len(xs[0]) <= 1 /\ Len(xs[1]) >= 2
    /\ \E k \in 0..all :
          /\ paths' = [paths EXCEPT ![p].need_close = (k < all),
                 ![p].msgs = [n \in FrameLists |-> [j \in DOMAIN xs[n] |->
                                 IF before[n] + j <= k THEN None ELSE xs[n][j]]]]
          /\ live' = live \ RefsIn(SubSeq(xs[0] \o xs[1] \o xs[2], 1, k))
    /\ UNCHANGED <<stacks, messages, hand, memory>>

\* Socket::Recv(RoutePath), as far as it comes: nonempty frames are appended.
RecvRoute(p) ==
    /\ Ready(p)
    /\ \E a \in 0..1, b, c \in 0..2 :
          /\ Len(paths[p].msgs[0]) + a <= ListMax
          /\ Len(paths[p].msgs[1]) + b <= ListMax
          /\ Len(paths[p].msgs[2]) + c <= ListMax
          /\ \E ys \in Made(a + b + c) :
                /\ paths' = [paths EXCEPT
                       ![p].msgs[0] = @ \o SubSeq(ys, 1, a),
                       ![p].msgs[1] = @ \o SubSeq(ys, a + 1, a + b),
                       ![p].msgs[2] = @ \o SubSeq(ys, a + b + 1, a + b + c)]
                /\ live' = live \cup RefsIn(ys)
    /\ UNCHANGED <<stacks, messages, hand, memory>>

-----------------------------------------------------------------------------
MessageCall(m) == \/ Fill(m) \/ InitPointer(m) \/ SendMessage(m) \/ EndMessage(m)
                  \/ \E s \in Stacks : InitCopy(m, s)
                  \/ \E n \in Messages : CopyMessage(m, n) \/ MoveMessage(m, n)

StackCall(s) == \/ PushNew(s) \/ PushCopy(s) \/ ReplaceBack(s)
                \/ PopFrame(s) \/ PushFrame(s) \/ SendStack(s) \/ EndStack(s)
                \/ \E k \in 1..ListMax : Erase(s, k)
                \/ \E b \in BOOLEAN : SetClose(s, b)

PathCall(p) ==
    \/ \E n \in FrameLists : PushString(p, n) \/ PushFrames(p, n)
    \/ \E s \in Stacks : PushDestStack(p, s) \/ SwapRoute(p, s)
    \/ \E m \in Messages : \/ PopDest(p, m)
                           \/ \E n \in FrameLists, k \in 1..ListMax : SwapMessage(p, n, k, m)
    \/ \E k \in 1..ListMax : \/ SetUserData(p, k) \/ CloseTail(p, k)
                             \/ \E q \in Paths : MoveUserData(p, q, k)
    \/ \E which \in SUBSET FrameLists : CloseMsg(p, which)
    \/ CopyFrame(p) \/ CalcRouteSlots(p) \/ SwapDest(p)
    \/ Release(p) \/ SendRoute(p) \/ RecvRoute(p)

FramesNext == \/ CloseFrame
              \/ \E m \in Messages : MessageCall(m)
              \/ \E s \in Stacks : StackCall(s)
              \/ \E p \in Paths : PathCall(p)

-----------------------------------------------------------------------------
(* Properties *)

\* The places that will close a reference r when their object ends.
Closers(r) ==
    {c \in Paths \X FrameLists \X (1..ListMax) :
        LET xs == paths[c[1]].msgs[c[2]] IN
        Ready(c[1]) /\ c[3] \in DOMAIN xs /\ xs[c[3]] = r}
    \cup {c \in Stacks \X (1..ListMax) :
        LET xs == stacks[c[1]].msgs IN
        Owner(c[1]) /\ c[2] \in DOMAIN xs /\ xs[c[2]] = r}
    \cup {m \in Messages : messages[m].need_close /\ messages[m].msg = r}
    \cup {x \in {None} : hand = r}

\* No reference is given back twice: nothing will close one that was closed
\* or sent, and no two places will close the same.  Bitwise copies, swaps and
\* a Send that fails half way put it at risk.
ClosedOnce == \A r \in Refs : /\ r \notin live => Closers(r) = {}
                              /\ \A x, y \in Closers(r) : x = y

\* No frame is lost in any other way than by filling again a Message that
\* holds one (Init, At, Recv, PopDest): every other reference not given back is
\* in a place that will close it, whatever was sent, moved, erased or released.
NoFrameLost == \A r \in live : Closers(r) # {}
=============================================================================
