------------------------------- MODULE ObjRef -------------------------------
(***************************************************************************)
(* Reference counted objects: z::Object<T> and its wrapper z::Obj of       *)
(* zpp/object.hpp (the count of zpp/obj.hpp is the same), kept in a map of *)
(* wrappers by the functions of zpp/base/map.hpp, which delete what they   *)
(* drop.  Threads share the objects.                                       *)
(*                                                                         *)
(* A thread's own[t] is a reference it has to Release.  A wrapper made by  *)
(* Uniform takes over the reference it was made from, for ~Obj releases    *)
(* the object and Uniform does not clone it.  Neither the classes nor the  *)
(* map lock anything:                                                      *)
(*   Guarded = FALSE  the code: between MapFind and the Clone of what was  *)
(*                    found another thread may change the map.             *)
(*   Guarded = TRUE   a hypothesis on the callers: one lock is held over   *)
(*                    MapFind and Clone, and over every change of the map. *)
(***************************************************************************)
EXTENDS Integers, FiniteSets

CONSTANTS Threads, Objects, Wraps, Keys, Nil, Guarded

ASSUME ObjRefAssumption ==
    /\ Nil \notin Objects /\ Nil \notin Wraps
    /\ IsFiniteSet(Threads) /\ IsFiniteSet(Wraps)
    /\ Guarded \in BOOLEAN

VARIABLES
    ref_cnt,    \* ref_cnt[o] of the objects, 0 before new and at delete
    alive,      \* the objects constructed and not deleted
    own,        \* own[t]: the object t holds a reference to, or Nil
    dying,      \* dying[t]: the object t has counted down to 0 and deletes next
    obj,        \* obj[w]: the object a wrapper points to, Nil for no wrapper
    mine,       \* mine[t]: a wrapper t has made and not stored yet
    items,      \* items[k]: the map of wrappers
    found       \* found[t]: the wrapper MapFind gave t, until it has cloned

countVars == <<ref_cnt, alive, own, dying>>
wrapVars == <<obj, mine, items, found>>
objRefVars == <<countVars, wrapVars>>

Count(o) == Cardinality({t \in Threads : own[t] = o})
            + Cardinality({w \in Wraps : obj[w] = o})

ObjRefInit ==
    /\ ref_cnt = [o \in Objects |-> 0]
    /\ alive = {}
    /\ own = [t \in Threads |-> Nil]
    /\ dying = [t \in Threads |-> Nil]
    /\ obj = [w \in Wraps |-> Nil]
    /\ mine = [t \in Threads |-> Nil]
    /\ items = [k \in Keys |-> Nil]
    /\ found = [t \in Threads |-> Nil]

\* t is not inside a Release or between MapFind and Clone.
Idle(t) == dying[t] = Nil /\ found[t] = Nil
\* t may change the map.
MayChange(t) == Idle(t) /\ (Guarded => \A u \in Threads : found[u] = Nil)

\* Count o down for thread t: who reaches 0 deletes.
Drop(t, o) ==
    /\ ref_cnt' = [ref_cnt EXCEPT ![o] = @ - 1]
    /\ dying' = [dying EXCEPT ![t] = IF ref_cnt[o] = 1 THEN o ELSE Nil]
    /\ UNCHANGED alive

-----------------------------------------------------------------------------
(* Mutants *)

MutUniform(t, w) ==             \* t goes on as an owner, as with dev of tst_object.cpp
    /\ Idle(t) /\ own[t] # Nil /\ mine[t] = Nil /\ obj[w] = Nil
    /\ obj' = [obj EXCEPT ![w] = own[t]]
    /\ mine' = [mine EXCEPT ![t] = w]
    /\ UNCHANGED <<ref_cnt, alive, own, dying, items, found>>

MutMapDel(t, k) ==              \* without the lock
    /\ Idle(t) /\ items[k] # Nil
    /\ Drop(t, obj[items[k]])
    /\ obj' = [obj EXCEPT ![items[k]] = Nil]
    /\ items' = [items EXCEPT ![k] = Nil]
    /\ UNCHANGED <<own, mine, found>>

-----------------------------------------------------------------------------
\* new T: the constructor counts 1 (ObjCreate of obj.hpp; a new that fails
\* changes nothing).
NewObject(t, o) ==
    /\ Idle(t) /\ own[t] = Nil /\ o \notin alive
    /\ alive' = alive \cup {o}
    /\ ref_cnt' = [ref_cnt EXCEPT ![o] = 1]
    /\ own' = [own EXCEPT ![t] = o]
    /\ UNCHANGED dying /\ UNCHANGED wrapVars

\* CloneImp: t gives u a reference of its own.  Its result (2 > count, so
\* ZEFAIL from the first clone on) does not say whether it has counted.
Clone(t, u) ==
    /\ Idle(t) /\ Idle(u) /\ own[t] # Nil /\ own[u] = Nil
    /\ ref_cnt' = [ref_cnt EXCEPT ![own[t]] = @ + 1]
    /\ own' = [own EXCEPT ![u] = own[t]]
    /\ UNCHANGED <<alive, dying>> /\ UNCHANGED wrapVars

ReleaseRef(t) ==                \* ReleaseImp: zatm_dec
    /\ Idle(t) /\ own[t] # Nil
    /\ Drop(t, own[t])
    /\ own' = [own EXCEPT ![t] = Nil]
    /\ UNCHANGED wrapVars

\* Obj::ReleaseImp: the same through a wrapper of the object, which t made or
\* which is in the map.
ReleaseByWrap(t, w) ==
    /\ Idle(t) /\ own[t] # Nil /\ obj[w] = own[t]
    /\ mine[t] = w \/ \E k \in Keys : items[k] = w
    /\ Drop(t, obj[w])
    /\ own' = [own EXCEPT ![t] = Nil]
    /\ UNCHANGED wrapVars

DeleteObject(t) ==              \* ReleaseImp: delete this
    /\ dying[t] # Nil
    /\ alive' = alive \ {dying[t]}
    /\ dying' = [dying EXCEPT ![t] = Nil]
    /\ UNCHANGED <<ref_cnt, own>> /\ UNCHANGED wrapVars

\* Uniform: new Obj and its Init(this).
Uniform(t, w) ==
    /\ Idle(t) /\ own[t] # Nil /\ mine[t] = Nil /\ obj[w] = Nil
    /\ obj' = [obj EXCEPT ![w] = own[t]]
    /\ own' = [own EXCEPT ![t] = Nil]
    /\ mine' = [mine EXCEPT ![t] = w]
    /\ UNCHANGED <<ref_cnt, alive, dying, items, found>>

\* MapInsertDelOld of a new key.
InsertNew(t, k) ==
    /\ MayChange(t) /\ mine[t] # Nil /\ items[k] = Nil
    /\ items' = [items EXCEPT ![k] = mine[t]]
    /\ mine' = [mine EXCEPT ![t] = Nil]
    /\ UNCHANGED <<obj, found>> /\ UNCHANGED countVars

\* MapInsertDelOld of a key in use: ~Obj of the old wrapper releases its object.
InsertDelOld(t, k) ==
    /\ MayChange(t) /\ mine[t] # Nil /\ items[k] # Nil
    /\ Drop(t, obj[items[k]])
    /\ obj' = [obj EXCEPT ![items[k]] = Nil]
    /\ items' = [items EXCEPT ![k] = mine[t]]
    /\ mine' = [mine EXCEPT ![t] = Nil]
    /\ UNCHANGED <<own, found>>

\* MapDel, and each entry of MapDelClear.
MapDel(t, k) ==
    /\ MayChange(t) /\ items[k] # Nil
    /\ Drop(t, obj[items[k]])
    /\ obj' = [obj EXCEPT ![items[k]] = Nil]
    /\ items' = [items EXCEPT ![k] = Nil]
    /\ UNCHANGED <<own, mine, found>>

MapFind(t, k) ==
    /\ Idle(t) /\ own[t] = Nil /\ items[k] # Nil
    /\ found' = [found EXCEPT ![t] = items[k]]
    /\ UNCHANGED <<obj, mine, items>> /\ UNCHANGED countVars

\* Obj::CloneImp: the object behind the wrapper counts.
CloneFound(t) ==
    /\ found[t] # Nil
    /\ obj[found[t]] # Nil
    /\ own' = [own EXCEPT ![t] = obj[found[t]]]
    /\ ref_cnt' = [ref_cnt EXCEPT ![obj[found[t]]] = @ + 1]
    /\ found' = [found EXCEPT ![t] = Nil]
    /\ UNCHANGED <<alive, dying, obj, mine, items>>

-----------------------------------------------------------------------------
ThreadStep(t) ==
    \/ ReleaseRef(t) \/ DeleteObject(t) \/ CloneFound(t)
    \/ \E o \in Objects : NewObject(t, o)
    \/ \E u \in Threads : Clone(t, u)
    \/ \E w \in Wraps : Uniform(t, w) \/ ReleaseByWrap(t, w)
    \/ \E k \in Keys : InsertNew(t, k) \/ InsertDelOld(t, k) \/ MapDel(t, k) \/ MapFind(t, k)

ObjRefNext == \E t \in Threads : ThreadStep(t)

ObjRefSpec == ObjRefInit /\ [][ObjRefNext]_objRefVars

-----------------------------------------------------------------------------
(* Properties *)

\* The count is the number of references: of an object's threads and wrappers
\* none is left when it is deleted, nobody deletes twice, and an object that
\* is not deleted is one somebody can still release.
CountExact ==
    /\ \A o \in Objects : ref_cnt[o] = Count(o)
    /\ \A o \in Objects : Count(o) > 0 => o \in alive
    /\ \A o \in alive : Count(o) = 0 => \E t \in Threads : dying[t] = o
    /\ \A t, u \in Threads : dying[t] # Nil =>
          /\ dying[t] \in alive /\ Count(dying[t]) = 0
          /\ dying[u] = dying[t] => u = t

\* What a thread found in the map and is about to clone is still there: no
\* other thread has deleted the wrapper, or the object, in between.
FoundAlive == \A t \in Threads : found[t] # Nil => obj[found[t]] \in alive
=============================================================================
