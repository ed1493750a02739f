----------------------------- MODULE ObjectPool -----------------------------
(***************************************************************************)
(* What MsgPoolRing of zpp/base/msg_queue.hpp promises: a bounded first-in *)
(* first-out stock of free objects in front of the heap.  An object is in  *)
(* the stock or with the one client it was given to, never both.           *)
(***************************************************************************)
EXTENDS Integers, Sequences, SequencesExt

CONSTANTS Clients, Objs, Capacity

VARIABLES stock,    \* the free objects, oldest first
          held      \* held[c]: the objects client c has

vars == <<stock, held>>

InUse == ToSet(stock) \cup UNION {held[c] : c \in Clients}

Init == stock = <<>> /\ held = [c \in Clients |-> {}]

\* Preallocation adds an unused object to the stock.
Fill(o) == /\ o \notin InUse
           /\ Len(stock) < Capacity
           /\ stock' = Append(stock, o)
           /\ UNCHANGED held

\* The oldest free object, or a new one only when there is none.
Take(c) == \/ /\ stock # <<>>
              /\ held' = [held EXCEPT ![c] = @ \cup {Head(stock)}]
              /\ stock' = Tail(stock)
           \/ /\ stock = <<>>
              /\ \E o \in Objs \ InUse : held' = [held EXCEPT ![c] = @ \cup {o}]
              /\ UNCHANGED stock

\* Back to the stock, or to the heap only when the stock is full.
Give(c, o) == /\ o \in held[c]
              /\ held' = [held EXCEPT ![c] = @ \ {o}]
              /\ stock' = IF Len(stock) < Capacity THEN Append(stock, o) ELSE stock

Next == \/ \E o \in Objs : Fill(o)
        \/ \E c \in Clients : Take(c) \/ \E o \in held[c] : Give(c, o)

Spec == Init /\ [][Next]_vars
=============================================================================
