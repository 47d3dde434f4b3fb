--------------------------- MODULE LocalSetProofs ---------------------------
(***************************************************************************)
(* LocalSet keeps its types and its ring, and its map never holds more     *)
(* than Capacity keys, for every set of keys, every number of goroutines,  *)
(* every TTL and every capacity.                                           *)
(***************************************************************************)
EXTENDS LocalSet, FiniteSetTheorems, TLAPS

(* The shard has its type, every entry has a slot of the ring, and the     *)
(* slots in use are the first count of them, up to the head.               *)
Sound(s) ==
  /\ s \in Shard
  /\ \A k \in Held(s) : \E i \in Slots : s.ring[i] = k
  /\ \A i \in Slots : s.ring[i] # None <=> i < s.count
  /\ s.count < Capacity => s.head = s.count

(* The head wraps around within the slots, as (head + 1) % capacity does.  *)
LEMMA NextHead ==
  ASSUME NEW h \in Slots
  PROVE  /\ (h + 1) % Capacity \in Slots
         /\ h + 1 < Capacity => (h + 1) % Capacity = h + 1
  BY CapacityAssumption DEF Slots

(* The expiry of an entry is an integer, so it is not None.                *)
LEMMA ExpiryIsInt ==
  ASSUME NEW now \in Nat
  PROVE  Expiry(now) \in Int /\ Expiry(now) # None
  BY TTLAssumption, NoneAssumption DEF Expiry

(* An insert keeps the shard sound.                                        *)
LEMMA InsertSound ==
  ASSUME NEW s, Sound(s), NEW k \in Keys, NEW now \in Nat
  PROVE  Sound(Insert(s, k, now))
<1> DEFINE full == s.count = Capacity
           old == s.ring[s.head]
           kept == IF full THEN [s.entries EXCEPT ![old] = None] ELSE s.entries
           t == Insert(s, k, now)
<1>1. /\ s.entries \in [Keys -> Int \cup {None}]
      /\ s.ring \in [Slots -> Keys \cup {None}]
      /\ s.head \in Slots
      /\ s.count \in 0 .. Capacity
  BY DEF Sound, Shard
<1>2. /\ t.entries = [kept EXCEPT ![k] = Expiry(now)]
      /\ t.ring = [s.ring EXCEPT ![s.head] = k]
      /\ t.head = (s.head + 1) % Capacity
      /\ t.count = IF full THEN s.count ELSE s.count + 1
      /\ t = [entries |-> t.entries, ring |-> t.ring, head |-> t.head, count |-> t.count]
  BY DEF Insert
<1>3. kept \in [Keys -> Int \cup {None}]
  BY <1>1, Zenon
<1>4. /\ t.entries \in [Keys -> Int \cup {None}]
      /\ t.ring \in [Slots -> Keys \cup {None}]
      /\ t.ring[s.head] = k
      /\ \A i \in Slots : i # s.head => t.ring[i] = s.ring[i]
  BY <1>1, <1>2, <1>3, ExpiryIsInt
<1>5. /\ t.count \in 0 .. Capacity
      /\ t.head \in Slots
  BY <1>1, <1>2, NextHead, CapacityAssumption
<1>6. t \in Shard
  <2> HIDE DEF t
  <2> QED  BY <1>2, <1>4, <1>5 DEF Shard
<1>7. ASSUME NEW j \in Held(t)
      PROVE  \E i \in Slots : t.ring[i] = j
  <2>1. CASE j = k
    BY <2>1, <1>1, <1>4
  <2>2. CASE j # k
    <3>1. j \in Keys /\ kept[j] # None
      BY <2>2, <1>2, <1>3, <1>7 DEF Held
    <3>2. j \in Held(s) /\ (full => j # old)
      BY <3>1, <1>1 DEF Held
    <3>3. PICK i \in Slots : s.ring[i] = j
      BY <3>2 DEF Sound
    <3>4. i # s.head
      <4>1. CASE full
        BY <4>1, <3>2, <3>3
      <4>2. CASE ~full
        <5>1. s.head = s.count
          BY <4>2, <1>1, CapacityAssumption DEF Sound
        <5>2. s.ring[s.head] = None
          BY <5>1, <1>1, CapacityAssumption DEF Sound, Slots
        <5> QED  BY <5>2, <3>1, <3>3, NoneAssumption
      <4> QED  BY <4>1, <4>2
    <3> QED  BY <3>3, <3>4, <1>4
  <2> QED  BY <2>1, <2>2
<1>8. \A i \in Slots : t.ring[i] # None <=> i < t.count
  <2> SUFFICES ASSUME NEW i \in Slots
               PROVE  t.ring[i] # None <=> i < t.count
    OBVIOUS
  <2>1. s.ring[i] # None <=> i < s.count
    BY DEF Sound
  <2>2. s.count < Capacity => s.head = s.count
    BY DEF Sound
  <2>3. k # None
    BY NoneAssumption
  <2>4. CASE i = s.head
    BY <2>2, <2>3, <2>4, <1>1, <1>2, <1>4, CapacityAssumption, SMTT(30) DEF Slots
  <2>5. CASE i # s.head
    BY <2>1, <2>2, <2>5, <1>1, <1>2, <1>4, CapacityAssumption, SMTT(30) DEF Slots
  <2> QED  BY <2>4, <2>5
<1>9. t.count < Capacity => t.head = t.count
  BY <1>1, <1>2, NextHead, CapacityAssumption DEF Sound
<1> QED  BY <1>6, <1>7, <1>8, <1>9 DEF Sound

(* A hit changes the expiry of an entry and nothing else.                  *)
LEMMA RefreshSound ==
  ASSUME NEW s, Sound(s), NEW k \in Keys, NEW now \in Nat, k \in Held(s)
  PROVE  Sound(Refresh(s, k, now))
<1> DEFINE t == Refresh(s, k, now)
<1>1. s \in Shard
  BY DEF Sound
<1>2. /\ t.entries = [s.entries EXCEPT ![k] = Expiry(now)]
      /\ t.ring = s.ring /\ t.head = s.head /\ t.count = s.count
      /\ t \in Shard
  BY <1>1, ExpiryIsInt DEF Refresh, Shard
<1>3. Held(t) = Held(s)
  BY <1>1, <1>2, ExpiryIsInt DEF Held, Shard
<1> QED  BY <1>2, <1>3 DEF Sound

(* The empty shard that newLocalSet makes is sound.                        *)
LEMMA EmptySound == Sound(Empty)
<1>1. Empty \in Shard
  BY CapacityAssumption DEF Empty, Shard, Slots
<1>2. Held(Empty) = {}
  BY DEF Held, Empty
<1> QED  BY <1>1, <1>2, CapacityAssumption DEF Sound, Empty, Slots

(* A sound shard has at most as many entries as its ring has slots.        *)
LEMMA SoundIsBounded ==
  ASSUME NEW s, Sound(s)
  PROVE  Cardinality(Held(s)) <= Capacity
<1> DEFINE Image == {s.ring[i] : i \in Slots}
<1>1. IsFiniteSet(Slots) /\ Cardinality(Slots) = Capacity
  BY FS_Interval, CapacityAssumption DEF Slots
<1>2. IsFiniteSet(Image) /\ Cardinality(Image) <= Cardinality(Slots)
  <2>1. [i \in Slots |-> s.ring[i]] \in Surjection(Slots, Image)
    BY DEF Surjection
  <2> QED  BY <1>1, <2>1, FS_Surjection
<1>3. Held(s) \subseteq Image
  BY DEF Sound
<1>4. Cardinality(Held(s)) <= Cardinality(Image)
  BY <1>2, <1>3, FS_Subset
<1> QED  BY <1>1, <1>2, <1>3, <1>4, FS_Subset, FS_CardinalityType, CapacityAssumption

(* The inductive invariant: EntriesInRing is kept because an insert        *)
(* overwrites a free slot, or the slot of the key it evicts; RingFilled    *)
(* says which of the two.                                                  *)
RingInv == TypeOK /\ EntriesInRing /\ RingFilled

(* RingInv is what Sound says of the shard, with the other types.          *)
LEMMA RingInvSplit ==
  RingInv <=> /\ clock \in Nat
              /\ Sound(set)
              /\ calls \in [Callers -> [key : Keys, now : Nat] \cup {None}]
  BY DEF RingInv, TypeOK, EntriesInRing, RingFilled, Sound

(* Every step of LocalSet keeps RingInv.                                   *)
LEMMA RingInvStep == RingInv /\ [Next]_vars => RingInv'
<1> SUFFICES ASSUME RingInv, [Next]_vars PROVE RingInv'
  OBVIOUS
<1>1. /\ clock \in Nat
      /\ Sound(set)
      /\ calls \in [Callers -> [key : Keys, now : Nat] \cup {None}]
  BY RingInvSplit
<1>2. ASSUME NEW c \in Callers, SeenAndAdd(c)
      PROVE  RingInv'
  <2>1. calls[c].key \in Keys /\ calls[c].now \in Nat
    BY <1>1, <1>2 DEF SeenAndAdd
  <2>2. Sound(AddedTo(set, calls[c].key, calls[c].now))
    BY <1>1, <2>1, InsertSound, RefreshSound DEF AddedTo, Seen
  <2>3. Sound(set')
    BY <1>2, <2>2 DEF SeenAndAdd
  <2>4. clock' \in Nat /\ calls' \in [Callers -> [key : Keys, now : Nat] \cup {None}]
    BY <1>1, <1>2 DEF SeenAndAdd
  <2> QED  BY <2>3, <2>4 DEF RingInv, TypeOK, EntriesInRing, RingFilled, Sound
<1>3. ASSUME NEW c \in Callers, NEW k \in Keys, ReadTime(c, k)
      PROVE  RingInv'
  BY <1>1, <1>3 DEF ReadTime, RingInv, TypeOK, EntriesInRing, RingFilled, Sound, Held
<1>4. CASE Tick
  BY <1>1, <1>4 DEF Tick, RingInv, TypeOK, EntriesInRing, RingFilled, Sound, Held
<1>5. CASE UNCHANGED vars
  BY <1>1, <1>5 DEF vars, RingInv, TypeOK, EntriesInRing, RingFilled, Sound, Held
<1> QED  BY <1>2, <1>3, <1>4, <1>5 DEF Next

(* RingInv holds in every behaviour of seenAndAdd.                         *)
THEOREM RingInvariance == Spec => []RingInv
<1>1. Init => RingInv
  BY RingInvSplit, EmptySound DEF Init
<1> QED  BY <1>1, RingInvStep, PTL DEF Spec

(* The fields of the shard keep their types: the head stays within the     *)
(* ring and the count within the capacity.                                 *)
THEOREM ShardTypeCorrect == Spec => []TypeOK
<1>1. RingInv => TypeOK
  BY DEF RingInv
<1> QED  BY <1>1, RingInvariance, PTL

(* Every entry of the map occupies a slot of the ring.                     *)
THEOREM EveryEntryInRing == Spec => []EntriesInRing
<1>1. RingInv => EntriesInRing
  BY DEF RingInv
<1> QED  BY <1>1, RingInvariance, PTL

(* The ring fills from the front and then goes round, skipping no slot.    *)
THEOREM RingFillsInOrder == Spec => []RingFilled
<1>1. RingInv => RingFilled
  BY DEF RingInv
<1> QED  BY <1>1, RingInvariance, PTL

(* The map holds at most Capacity keys, whatever expires and comes back.   *)
THEOREM SetBounded == Spec => []Bounded
<1>1. RingInv => Bounded
  BY RingInvSplit, SoundIsBounded DEF Bounded
<1> QED  BY <1>1, RingInvariance, PTL
=============================================================================
