----------------------------- MODULE MsgPoolRing -----------------------------
(***************************************************************************)
(* z::MsgPoolRing<T> of zpp/base/msg_queue.hpp: a ring of capacity slots   *)
(* whose window pos .. pos+size-1 (taken & mask) holds free objects.       *)
(* Alloc and Free touch the ring in one critical section each and are one  *)
(* action each; new and delete outside it concern no shared state.         *)
(* PreAlloc takes no lock: its loop is one action per turn.                *)
(*                                                                         *)
(*   PreShared = TRUE   the code: other threads may use the pool while one *)
(*                      thread runs PreAlloc.                              *)
(*   PreShared = FALSE  a hypothesis on the callers: PreAlloc, if called,  *)
(*                      returns before the pool is shared.                 *)
(*   PosRange           the values of the int pos: pos counts up for ever  *)
(*                      and wraps; & mask takes it modulo Capacity.        *)
(***************************************************************************)
EXTENDS Integers, Sequences, FiniteSets

CONSTANTS Clients, Objs, Null, Capacity, PosRange, PreShared

ASSUME PoolAssumption ==
    /\ Null \notin Objs
    /\ Capacity \in Nat \ {0}
    /\ PosRange \in Nat \ {0} /\ PosRange % Capacity = 0
    /\ PreShared \in BOOLEAN

VARIABLES
    buf,    \* the slots
    pos,    \* the int pos
    size,   \* the int size
    heap,   \* the objects allocated and not deleted
    held,   \* held[c]: the objects client c obtained and has not freed
    pcPre,  \* "no": PreAlloc not called, "run": in its loop, "done"
    i       \* PreAlloc's loop variable

vars == <<buf, pos, size, heap, held, pcPre, i>>
preVars == <<pcPre, i>>

Slot(n) == (pos + n) % Capacity
WindowSlots == {Slot(n) : n \in 0..size - 1}
Window == {buf[s] : s \in WindowSlots}
Owned == UNION {held[c] : c \in Clients}

Init ==
    /\ buf = [s \in 0..Capacity - 1 |-> Null]
    /\ pos = 0
    /\ size = 0
    /\ heap = {}
    /\ held = [c \in Clients |-> {}]
    /\ pcPre = "no"
    /\ i = 0

\* The pool is in use by the clients.
Open == PreShared \/ pcPre = "done"

-----------------------------------------------------------------------------
(* Mutants *)

MutAllocTake(c) ==              \* forgets ++pos
    /\ Open
    /\ size > 0
    /\ held' = [held EXCEPT ![c] = @ \cup {buf[Slot(0)]}]
    /\ size' = size - 1
    /\ UNCHANGED <<buf, pos, heap>> /\ UNCHANGED preVars

MutFreeDelete(c, o) ==          \* drops the object instead of deleting it
    /\ Open
    /\ o \in held[c]
    /\ size >= Capacity
    /\ held' = [held EXCEPT ![c] = @ \ {o}]
    /\ UNCHANGED <<buf, pos, size, heap>> /\ UNCHANGED preVars

-----------------------------------------------------------------------------
(* PreAlloc *)

\* 0 == pos && size == 0, and the start of the loop.
PreBegin ==
    /\ pcPre = "no"
    /\ pcPre' = IF pos = 0 /\ size = 0 THEN "run" ELSE "done"
    /\ UNCHANGED <<buf, pos, size, heap, held, i>>

\* PreAlloc is never called, or not before the pool is shared.
PreSkip ==
    /\ pcPre = "no"
    /\ pcPre' = "done"
    /\ UNCHANGED <<buf, pos, size, heap, held, i>>

\* buf[i] = new T; size = i (so the last object stays outside the window).
PreTurn ==
    /\ pcPre = "run"
    /\ i < Capacity
    /\ \E o \in Objs \ heap :
          /\ buf' = [buf EXCEPT ![i] = o]
          /\ heap' = heap \cup {o}
    /\ size' = i
    /\ i' = i + 1
    /\ UNCHANGED <<pos, held, pcPre>>

\* new failed: buf[i] is NULL and the loop breaks.
PreBreak ==
    /\ pcPre = "run"
    /\ i < Capacity
    /\ buf' = [buf EXCEPT ![i] = Null]
    /\ pcPre' = "done"
    /\ UNCHANGED <<pos, size, heap, held, i>>

PreEnd ==
    /\ pcPre = "run"
    /\ i = Capacity
    /\ pcPre' = "done"
    /\ UNCHANGED <<buf, pos, size, heap, held, i>>

-----------------------------------------------------------------------------
(* Alloc and Free *)

\* Alloc with size > 0.
AllocTake(c) ==
    /\ Open
    /\ size > 0
    /\ held' = [held EXCEPT ![c] = @ \cup {buf[Slot(0)]}]
    /\ pos' = (pos + 1) % PosRange
    /\ size' = size - 1
    /\ UNCHANGED <<buf, heap>> /\ UNCHANGED preVars

\* Alloc with an empty ring: new T.  When new fails Alloc changes nothing.
AllocNew(c) ==
    /\ Open
    /\ size <= 0
    /\ \E o \in Objs \ heap :
          /\ held' = [held EXCEPT ![c] = @ \cup {o}]
          /\ heap' = heap \cup {o}
    /\ UNCHANGED <<buf, pos, size>> /\ UNCHANGED preVars

\* Free with room in the ring: Release, and into the slot after the window.
FreePool(c, o) ==
    /\ Open
    /\ o \in held[c]
    /\ size < Capacity
    /\ held' = [held EXCEPT ![c] = @ \ {o}]
    /\ buf' = [buf EXCEPT ![Slot(size)] = o]
    /\ size' = size + 1
    /\ UNCHANGED <<pos, heap>> /\ UNCHANGED preVars

\* Free with a full ring: delete.
FreeDelete(c, o) ==
    /\ Open
    /\ o \in held[c]
    /\ size >= Capacity
    /\ held' = [held EXCEPT ![c] = @ \ {o}]
    /\ heap' = heap \ {o}
    /\ UNCHANGED <<buf, pos, size>> /\ UNCHANGED preVars

-----------------------------------------------------------------------------
PreAlloc == PreBegin \/ PreSkip \/ PreTurn \/ PreBreak \/ PreEnd

Client(c) == \/ AllocTake(c) \/ AllocNew(c)
             \/ \E o \in held[c] : FreePool(c, o) \/ FreeDelete(c, o)

Next == PreAlloc \/ \E c \in Clients : Client(c)

Spec == Init /\ [][Next]_vars

-----------------------------------------------------------------------------
(* Properties *)

TypeOK ==
    /\ buf \in [0..Capacity - 1 -> Objs \cup {Null}]
    /\ pos \in 0..PosRange - 1
    /\ size \in 0..Capacity
    /\ heap \in SUBSET Objs
    /\ held \in [Clients -> SUBSET (Objs \cup {Null})]
    /\ pcPre \in {"no", "run", "done"}
    /\ i \in 0..Capacity

\* An object has one owner: the free window holds as many distinct, living
\* objects as size says, none of them with a client, and no object is with
\* two clients.  It covers the wrap of pos and the full ring.
\* The types are part of it.
NoAlias ==
    /\ TypeOK
    /\ Cardinality(WindowSlots) = size
    /\ Cardinality(Window) = size
    /\ Window \cup Owned \subseteq heap
    /\ Window \cap Owned = {}
    /\ \A c, d \in Clients : c # d => held[c] \cap held[d] = {}

\* What the pool loses for good: nothing but the object PreAlloc leaves in
\* the last slot, one past the window its off-by-one size describes.
LossBound == Cardinality(heap \ (Window \cup Owned)) <= 1

\* The ring is a bounded FIFO stock: order, bound and ownership survive
\* every wrap of the index and of pos.
Pool == INSTANCE ObjectPool WITH stock <- [n \in 1..size |-> buf[Slot(n - 1)]]
ImplementsPool == Pool!Spec
=============================================================================
