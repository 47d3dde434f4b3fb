---------------------------- MODULE CacheBackend ----------------------------
(***************************************************************************)
(* What cache.Backend promises its callers (src/cache/cache.go): a         *)
(* key-value store whose entries carry a deadline, with an atomic          *)
(* create-only write.  This is the abstract specification that the         *)
(* in-memory backend implements (MemoryCache).                             *)
(*                                                                         *)
(* An entry whose deadline is positive expires when the clock reaches it.  *)
(* A deadline that is not positive never expires; among those, the larger  *)
(* was written earlier, as in the in-memory backend.                       *)
(***************************************************************************)
EXTENDS Integers

CONSTANTS
  Keys,       \* the keys callers use
  Values,     \* the values they store
  Deadlines,  \* the deadlines an entry can carry, a subset of Int
  None,       \* stands for "no entry" and "no write"
  Capped      \* whether the backend may evict to stay within a capacity

VARIABLES
  store,      \* [Keys -> Entry \cup {None}]
  clock,      \* the backend's clock
  writing,    \* the write that has been called and not yet taken effect
  sweeping    \* whether the backend is removing entries of its own accord

Entry == [value : Values, deadline : Deadlines]

Write == [key : Keys, nx : BOOLEAN]

Present == {k \in Keys : store[k] # None}

Live(e, now) == e.deadline <= 0 \/ now < e.deadline

(* Whether entry d is to go before entry e when room is needed: the one    *)
(* that expires first, then, when neither expires, the one written first.  *)
GoesBefore(d, e) ==
  \/ d.deadline > 0 /\ (e.deadline <= 0 \/ d.deadline < e.deadline)
  \/ d.deadline <= 0 /\ e.deadline <= 0 /\ d.deadline > e.deadline

Init ==
  /\ store = [k \in Keys |-> None]
  /\ clock = 0
  /\ writing = None
  /\ sweeping = FALSE

(* A caller enters Set or SetNX (nx).  Operations are atomic, so at most   *)
(* one write is between its call and its effect, and none enters a sweep.  *)
Call(w) ==
  /\ writing = None /\ ~sweeping
  /\ writing' = w
  /\ UNCHANGED <<store, clock, sweeping>>

(* The write takes effect.  Its entry expires in the future, or never, and *)
(* is then younger than every other such entry.  SetNX creates the key     *)
(* only where no live entry holds it at that moment.  A sweep may follow.  *)
Effect(w, e) ==
  /\ writing = w
  /\ w.nx /\ w.key \in Present => ~Live(store[w.key], clock)
  /\ \/ e.deadline > clock
     \/ e.deadline < 0 /\ \A j \in Present : e.deadline < store[j].deadline
  /\ store' = [store EXCEPT ![w.key] = e]
  /\ writing' = None
  /\ sweeping' \in BOOLEAN
  /\ UNCHANGED clock

Del(k) ==
  /\ writing = None /\ ~sweeping
  /\ store' = [store EXCEPT ![k] = None]
  /\ UNCHANGED <<clock, writing, sweeping>>

Sweep ==
  /\ writing = None
  /\ sweeping' = ~sweeping
  /\ UNCHANGED <<store, clock, writing>>

(* The backend forgets an entry of its own accord only once it expired.    *)
Expire(k) ==
  /\ writing # None \/ sweeping
  /\ k \in Present
  /\ ~Live(store[k], clock)
  /\ store' = [store EXCEPT ![k] = None]
  /\ UNCHANGED <<clock, writing, sweeping>>

(* Or, when it has a capacity, to make room for a write: never an entry    *)
(* while one that is to go before it remains.                              *)
Evict(k) ==
  /\ Capped
  /\ writing # None
  /\ k \in Present
  /\ \A j \in Present : ~GoesBefore(store[j], store[k])
  /\ store' = [store EXCEPT ![k] = None]
  /\ UNCHANGED <<clock, writing, sweeping>>

Tick ==
  /\ clock' = clock + 1
  /\ UNCHANGED <<store, writing, sweeping>>

Next ==
  \/ \E w \in Write : Call(w) \/ \E e \in Entry : Effect(w, e)
  \/ \E k \in Keys : Del(k) \/ Expire(k) \/ Evict(k)
  \/ Sweep
  \/ Tick

vars == <<store, clock, writing, sweeping>>

Spec == Init /\ [][Next]_vars
=============================================================================
