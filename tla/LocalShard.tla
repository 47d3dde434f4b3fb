----------------------------- MODULE LocalShard -----------------------------
(***************************************************************************)
(* A localShard of txidset (src/txidset/local.go) as a value: a map from   *)
(* key to expiry beside a ring of the keys in insertion order.  LocalSet   *)
(* and TxidSet share it between goroutines.                                *)
(***************************************************************************)
EXTENDS Integers

CONSTANTS
  Keys,      \* the TxIDs of this shard
  None,      \* stands for "no entry" and "no key"
  Capacity,  \* slots of the ring
  TTL        \* lifetime of an entry; none expires when it is not positive

ASSUME CapacityAssumption == Capacity \in Nat \ {0}
ASSUME TTLAssumption == TTL \in Int
ASSUME NoneAssumption == None \notin Keys \cup Int

Slots == 0 .. Capacity - 1

Shard == [entries : [Keys -> Int \cup {None}], ring : [Slots -> Keys \cup {None}],
          head : Slots, count : 0 .. Capacity]

Empty == [entries |-> [k \in Keys |-> None], ring |-> [i \in Slots |-> None],
          head |-> 0, count |-> 0]

Expiry(now) == IF TTL > 0 THEN now + TTL ELSE 0

Held(s) == {k \in Keys : s.entries[k] # None}

(* Whether a call that read the time now finds the key.                    *)
Seen(s, k, now) == k \in Held(s) /\ (TTL <= 0 \/ s.entries[k] >= now)

(* A hit refreshes the expiry.                                             *)
Refresh(s, k, now) == [s EXCEPT !.entries[k] = Expiry(now)]

(* Mutant: the key that the ring forgets keeps its entry.                  *)
InsertWithoutEviction(s, k, now) ==
  [entries |-> [s.entries EXCEPT ![k] = Expiry(now)],
   ring    |-> [s.ring EXCEPT ![s.head] = k],
   head    |-> (s.head + 1) % Capacity,
   count   |-> IF s.count = Capacity THEN s.count ELSE s.count + 1]

(* A miss takes the slot at the head of the ring, evicting the key there   *)
(* once the ring is full.  An expired key that comes back keeps its old    *)
(* slot as well.                                                           *)
Insert(s, k, now) ==
  LET full == s.count = Capacity
      kept == IF full THEN [s.entries EXCEPT ![s.ring[s.head]] = None] ELSE s.entries
  IN  [entries |-> [kept EXCEPT ![k] = Expiry(now)],
       ring    |-> [s.ring EXCEPT ![s.head] = k],
       head    |-> (s.head + 1) % Capacity,
       count   |-> IF full THEN s.count ELSE s.count + 1]

AddedTo(s, k, now) == IF Seen(s, k, now) THEN Refresh(s, k, now) ELSE Insert(s, k, now)
=============================================================================
