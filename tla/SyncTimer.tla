------------------------------ MODULE SyncTimer ------------------------------
(***************************************************************************)
(* z::SyncTimer<Key, Value> of zpp/base/timer.hpp: a request thread        *)
(* registers a semaphore and an output pointer under a key (Push), sends   *)
(* its request and waits for the reply (Wait); a callback thread hands the *)
(* reply over by key (Pop).  out_t, with its semaphore, lives on the       *)
(* requester's stack: it is gone once Wait has returned.                   *)
(*                                                                         *)
(* The map is used under one spin lock, zsem_wait is not: a timeout may    *)
(* therefore fall anywhere in a concurrent Pop.  Each request and each     *)
(* reply of the model is one use; late, duplicate and missing replies are  *)
(* the replies delivered late, several replies for one request, and        *)
(* replies never delivered.  Callers follow the usage comment of the class *)
(* (timer.hpp:56-67): a request whose Push failed does not Wait, a reply   *)
(* whose Pop did not return ZEOK is released by the callback.              *)
(***************************************************************************)
EXTENDS Integers

CONSTANTS Requests, Replies, Workers, Keys, NoReply, None, Free,
          KeyOf,        \* the key each request uses; keys may be shared
          ReplyTo       \* the request each reply answers

ASSUME STAssumption ==
    /\ NoReply \notin Replies
    /\ None \notin Requests
    /\ Free \notin Workers
    /\ KeyOf \in [Requests -> Keys]
    /\ ReplyTo \in [Replies -> Requests]

VARIABLES
    sem_map,    \* key -> the request whose out_t is registered, or None
    spin,       \* the worker inside Pop's critical section, or Free
    live,       \* the requests whose semaphore is initialised
    sem,        \* values of the semaphores
    out,        \* *out of each request
    pcR,        \* where each request is
    waited,     \* what zsem_wait returned to each request
    pcW,        \* where each worker is in Pop
    arg,        \* the reply each worker delivers
    owner       \* who owns each reply

vars == <<sem_map, spin, live, sem, out, pcR, waited, pcW, arg, owner>>
workerVars == <<spin, pcW, arg, owner>>

Init ==
    /\ sem_map = [k \in Keys |-> None]
    /\ spin = Free
    /\ live = {}
    /\ sem = [r \in Requests |-> 0]
    /\ out = [r \in Requests |-> NoReply]
    /\ pcR = [r \in Requests |-> "new"]
    /\ waited = [r \in Requests |-> "none"]
    /\ pcW = [w \in Workers |-> "idle"]
    /\ arg = [w \in Workers |-> NoReply]
    /\ owner = [x \in Replies |-> "service"]

\* The request a worker inside Pop found under its key.
Target(w) == sem_map[KeyOf[ReplyTo[arg[w]]]]

-----------------------------------------------------------------------------
(* Mutants *)

MutWaitOkUnchecked(r) ==        \* returns ZEOK without a token
    /\ pcR[r] = "posted"
    /\ waited' = [waited EXCEPT ![r] = "ok"]
    /\ pcR' = [pcR EXCEPT ![r] = "left"]
    /\ sem' = [sem EXCEPT ![r] = @ - 1]
    /\ UNCHANGED <<sem_map, live, out>> /\ UNCHANGED workerVars

MutWaitEraseUnlocked(r) ==      \* erases without the lock
    /\ pcR[r] = "left"
    /\ sem_map' = [sem_map EXCEPT ![KeyOf[r]] = None]
    /\ pcR' = [pcR EXCEPT ![r] = "erased"]
    /\ UNCHANGED <<live, sem, out, waited>> /\ UNCHANGED workerVars

MutPopPostKeepsLock(w) ==       \* forgets to unlock
    /\ pcW[w] = "stored"
    /\ sem' = [sem EXCEPT ![Target(w)] = @ + 1]
    /\ owner' = [owner EXCEPT ![arg[w]] = "accepted"]
    /\ pcW' = [pcW EXCEPT ![w] = "idle"]
    /\ UNCHANGED <<sem_map, spin, live, out, pcR, waited, arg>>

MutPopPostNotExist(w) ==        \* leaves ret at ZENOT_EXIST
    /\ pcW[w] = "stored"
    /\ sem' = [sem EXCEPT ![Target(w)] = @ + 1]
    /\ owner' = [owner EXCEPT ![arg[w]] = "released"]
    /\ pcW' = [pcW EXCEPT ![w] = "idle"]
    /\ spin' = Free
    /\ UNCHANGED <<sem_map, live, out, pcR, waited, arg>>

-----------------------------------------------------------------------------
(* The request thread *)

\* Push: the key is absent; the semaphore is initialised and registered.
\* The request is then posted to the service.
PushOk(r) ==
    /\ pcR[r] = "new"
    /\ spin = Free
    /\ sem_map[KeyOf[r]] = None
    /\ sem_map' = [sem_map EXCEPT ![KeyOf[r]] = r]
    /\ live' = live \cup {r}
    /\ pcR' = [pcR EXCEPT ![r] = "posted"]
    /\ UNCHANGED <<sem, out, waited>> /\ UNCHANGED workerVars

\* Push: ZEEXIST, the request is given up.
PushExists(r) ==
    /\ pcR[r] = "new"
    /\ spin = Free
    /\ sem_map[KeyOf[r]] # None
    /\ pcR' = [pcR EXCEPT ![r] = "rejected"]
    /\ UNCHANGED <<sem_map, live, sem, out, waited>> /\ UNCHANGED workerVars

\* Wait: zsem_wait takes a token.
WaitOk(r) ==
    /\ pcR[r] = "posted"
    /\ sem[r] > 0
    /\ sem' = [sem EXCEPT ![r] = @ - 1]
    /\ waited' = [waited EXCEPT ![r] = "ok"]
    /\ pcR' = [pcR EXCEPT ![r] = "left"]
    /\ UNCHANGED <<sem_map, live, out>> /\ UNCHANGED workerVars

\* Wait: zsem_wait times out.
WaitTimeout(r) ==
    /\ pcR[r] = "posted"
    /\ sem[r] = 0
    /\ waited' = [waited EXCEPT ![r] = "timeout"]
    /\ pcR' = [pcR EXCEPT ![r] = "left"]
    /\ UNCHANGED <<sem_map, live, sem, out>> /\ UNCHANGED workerVars

\* Wait: sem_map.erase(key) under the lock.
WaitErase(r) ==
    /\ pcR[r] = "left"
    /\ spin = Free
    /\ sem_map' = [sem_map EXCEPT ![KeyOf[r]] = None]
    /\ pcR' = [pcR EXCEPT ![r] = "erased"]
    /\ UNCHANGED <<live, sem, out, waited>> /\ UNCHANGED workerVars

\* Wait: zsem_fini and return; a requester that got ZEOK owns *out.
WaitFini(r) ==
    /\ pcR[r] = "erased"
    /\ live' = live \ {r}
    /\ pcR' = [pcR EXCEPT ![r] = "done"]
    /\ UNCHANGED <<sem_map, sem, out, waited>> /\ UNCHANGED workerVars

-----------------------------------------------------------------------------
(* The callback thread *)

\* Replies exist once their request has been posted.
Deliverable(x) == owner[x] = "service" /\ pcR[ReplyTo[x]] \notin {"new", "rejected"}

\* Pop: the key is not registered; the callback releases the reply.
PopMiss(w, x) ==
    /\ pcW[w] = "idle" /\ Deliverable(x)
    /\ spin = Free
    /\ sem_map[KeyOf[ReplyTo[x]]] = None
    /\ owner' = [owner EXCEPT ![x] = "released"]
    /\ UNCHANGED <<sem_map, spin, live, sem, out, pcR, waited, pcW, arg>>

\* Pop: the key is found, *(it->second->out) = in, with the lock held.
PopStore(w, x) ==
    /\ pcW[w] = "idle" /\ Deliverable(x)
    /\ spin = Free
    /\ LET r == sem_map[KeyOf[ReplyTo[x]]] IN
          /\ r # None
          /\ out' = [out EXCEPT ![r] = x]
    /\ spin' = w
    /\ arg' = [arg EXCEPT ![w] = x]
    /\ owner' = [owner EXCEPT ![x] = "stored"]
    /\ pcW' = [pcW EXCEPT ![w] = "stored"]
    /\ UNCHANGED <<sem_map, live, sem, pcR, waited>>

\* Pop: zsem_post, unlock, return ZEOK.
PopPost(w) ==
    /\ pcW[w] = "stored"
    /\ sem' = [sem EXCEPT ![Target(w)] = @ + 1]
    /\ owner' = [owner EXCEPT ![arg[w]] = "accepted"]
    /\ pcW' = [pcW EXCEPT ![w] = "idle"]
    /\ spin' = Free
    /\ UNCHANGED <<sem_map, live, out, pcR, waited, arg>>

-----------------------------------------------------------------------------
Request(r) == \/ PushOk(r) \/ PushExists(r) \/ WaitOk(r) \/ WaitTimeout(r)
              \/ WaitErase(r) \/ WaitFini(r)
Worker(w) == PopPost(w) \/ \E x \in Replies : PopMiss(w, x) \/ PopStore(w, x)

Next == (\E r \in Requests : Request(r)) \/ (\E w \in Workers : Worker(w))

Spec == Init /\ [][Next]_vars

\* A request that has started runs on, and so does a Pop; whether a reply
\* comes at all is up to the service.  Only finitely many Pops compete for
\* the lock, so weak fairness gets a waiting thread through.
Fairness ==
    /\ \A r \in Requests : WF_vars(WaitOk(r) \/ WaitTimeout(r)
                                    \/ WaitErase(r) \/ WaitFini(r))
    /\ \A w \in Workers : WF_vars(PopPost(w))

FairSpec == Spec /\ Fairness

-----------------------------------------------------------------------------
(* Properties *)

TypeOK ==
    /\ sem_map \in [Keys -> Requests \cup {None}]
    /\ spin \in Workers \cup {Free}
    /\ live \in SUBSET Requests
    /\ sem \in [Requests -> Nat]
    /\ out \in [Requests -> Replies \cup {NoReply}]
    /\ pcR \in [Requests -> {"new", "posted", "left", "erased", "done", "rejected"}]
    /\ waited \in [Requests -> {"none", "ok", "timeout"}]
    /\ pcW \in [Workers -> {"idle", "stored"}]
    /\ arg \in [Workers -> Replies \cup {NoReply}]
    /\ owner \in [Replies -> {"service", "stored", "accepted", "released"}]

\* While a callback works on a requester's out_t, between the store through
\* the pointer and the post, that out_t exists: its semaphore is initialised
\* and its Wait has not erased it.  No store or post reaches a dead frame.
NoDanglingPost ==
    \A w \in Workers : pcW[w] = "stored" =>
        /\ Target(w) \in live
        /\ pcR[Target(w)] \in {"posted", "left"}

\* A registered request is found under its own key until its own Wait erases
\* it: erase(key), which looks at no owner, never removes another request.
Registered == \A r \in Requests :
    pcR[r] \in {"posted", "left"} <=> sem_map[KeyOf[r]] = r

\* A Wait that returns ZEOK comes with a reply, never with the NULL *out
\* started from.
OkHasReply == \A r \in Requests : waited[r] = "ok" => out[r] # NoReply

\* A reply has one owner: one that the callback releases is in no *out.
OneOwner == \A x \in Replies, r \in Requests :
    owner[x] = "released" => out[r] # x

\* Wait terminates, answered or not, whatever the callbacks do.
WaitReturns == \A r \in Requests : pcR[r] = "posted" ~> pcR[r] = "done"

\* What the usage comment relies on to own every reply: a reply accepted by
\* Pop is received by its requester, so a Wait that times out left none.
NoReplyLeak == \A r \in Requests :
    pcR[r] = "done" /\ waited[r] = "timeout" => out[r] = NoReply

-----------------------------------------------------------------------------
(* The inductive invariant. *)

LiveInv == \A r \in Requests :
    r \in live <=> pcR[r] \in {"posted", "left", "erased"}

SpinInv == \A w \in Workers :
    /\ pcW[w] = "stored" <=> spin = w
    /\ pcW[w] = "stored" => /\ arg[w] \in Replies
                            /\ owner[arg[w]] = "stored"
                            /\ Target(w) # None
                            /\ out[Target(w)] # NoReply

TokenInv == \A r \in Requests :
    sem[r] > 0 \/ waited[r] = "ok" => out[r] # NoReply

OwnerInv == \A x \in Replies, r \in Requests :
    out[r] = x => owner[x] \in {"stored", "accepted"}

KeyInv == \A k \in Keys : sem_map[k] # None => KeyOf[sem_map[k]] = k

IInv == TypeOK /\ Registered /\ KeyInv /\ LiveInv /\ SpinInv /\ TokenInv /\ OwnerInv
=============================================================================
