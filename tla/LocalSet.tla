------------------------------ MODULE LocalSet ------------------------------
(***************************************************************************)
(* One shard of the tier-1 set of txidset (src/txidset/local.go) shared by *)
(* goroutines that read the time before they take its mutex.  The 64       *)
(* shards of a localSet share nothing, and a key belongs to one of them.   *)
(***************************************************************************)
EXTENDS LocalShard, FiniteSets

CONSTANTS
  Callers,   \* goroutines calling SeenAndAdd
  MaxClock   \* bound on the clock

ASSUME CallAssumption == None \notin [key : Keys, now : Nat]

VARIABLES
  clock,   \* time.Now()
  set,     \* the shard
  calls    \* [Callers -> the call in progress]

vars == <<clock, set, calls>>

Init ==
  /\ clock = 0
  /\ set = Empty
  /\ calls = [c \in Callers |-> None]

(* seenAndAdd reads the time, then waits for the mutex.                    *)
ReadTime(c, k) ==
  /\ calls[c] = None
  /\ calls' = [calls EXCEPT ![c] = [key |-> k, now |-> clock]]
  /\ UNCHANGED <<clock, set>>

SeenAndAdd(c) ==
  /\ calls[c] # None
  /\ set' = AddedTo(set, calls[c].key, calls[c].now)
  /\ calls' = [calls EXCEPT ![c] = None]
  /\ UNCHANGED clock

Tick ==
  /\ clock < MaxClock
  /\ clock' = clock + 1
  /\ UNCHANGED <<set, calls>>

Next ==
  \/ \E c \in Callers : SeenAndAdd(c) \/ \E k \in Keys : ReadTime(c, k)
  \/ Tick

Spec == Init /\ [][Next]_vars

-----------------------------------------------------------------------------
(* The types of the shard's fields and of the calls in progress.           *)
TypeOK ==
  /\ clock \in Nat
  /\ set \in Shard
  /\ calls \in [Callers -> [key : Keys, now : Nat] \cup {None}]

(* Every entry has a slot of the ring, so that eviction reaches it: the    *)
(* map cannot outgrow the ring, whatever expires, comes back or races.     *)
EntriesInRing == \A k \in Held(set) : \E i \in Slots : set.ring[i] = k

(* The slots in use are the first count of them, and the head is where     *)
(* they end until the ring is full: no slot is skipped.                    *)
RingFilled ==
  /\ \A i \in Slots : set.ring[i] # None <=> i < set.count
  /\ set.count < Capacity => set.head = set.count

(* The map holds at most Capacity keys, the bound on the memory that the   *)
(* package comment of txidset promises.                                    *)
Bounded == Cardinality(Held(set)) <= Capacity

(* Inserts past capacity evict, as the comment of localSet has it: a step  *)
(* of seenAndAdd takes a key out of the map only if the map is full.       *)
EvictsPastCapacity ==
  [][\A k \in Keys : k \in Held(set) /\ k \notin Held(set')
       => Cardinality(Held(set)) = Capacity]_vars
=============================================================================
