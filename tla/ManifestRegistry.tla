-------------------------- MODULE ManifestRegistry --------------------------
(***************************************************************************)
(* The registry of received shard manifests (src/manifest/registry.go):    *)
(* the last manifest of each announcer, kept until it expires and is       *)
(* evicted.  Datagrams are lost, duplicated, delayed and reordered, so any *)
(* manifest an announcer ever sends may arrive at any time.                *)
(*                                                                         *)
(* Only differences of times matter, so an entry carries the time that it  *)
(* has left, and time passes for all entries at once (Aged).               *)
(***************************************************************************)
EXTENDS Integers, FiniteSets

CONSTANTS
  Announcers,  \* the (SrcIPv6, InstanceID) pairs, in the order of Snapshot
  Manifests,   \* the manifests that arrive, as the decoder lets them through
  Planes,      \* the planes they describe; 0 is the top level
  Bits,        \* the values of ShardBits
  Successors,  \* the successor blocks
  DefaultTTL,  \* the lifetime where a manifest gives none (0 = three times
               \* its announce interval)
  Delays,      \* how long after its Epoch a manifest arrives; below zero if
               \* the announcer's clock is ahead
  None         \* stands for "no entry", "no descriptor", "no successor"

VARIABLE entries

Near(a, b) == a - b \in -1..1

Descriptor == [bits : Bits, ssm : BOOLEAN, succ : Successors \cup {None}]

Manifest ==
  [auth : BOOLEAN, pilot : BOOLEAN, shutdown : BOOLEAN, stamped : BOOLEAN,
   ttl : Nat, interval : Nat, groups : SUBSET Nat, sources : SUBSET STRING,
   plane : [Planes -> Descriptor \cup {None}]]

(* What the decoder has checked: the top level is always described, a      *)
(* pilot and a successor need the Authoritative flag, and a successor      *)
(* differs by one bit at most from what it succeeds.                       *)
ASSUME ManifestAssumption ==
  /\ 0 \in Planes
  /\ Bits \subseteq Nat
  /\ \A x \in Successors : x.bits \in Nat
  /\ None \notin Nat \cup Successors \cup Descriptor \cup BOOLEAN
  /\ \A m \in Manifests :
       /\ m \in Manifest
       /\ m.plane[0] # None
       /\ m.pilot => m.auth
       /\ \A p \in Planes : m.plane[p] # None /\ m.plane[p].succ # None =>
            m.auth /\ Near(m.plane[p].bits, m.plane[p].succ.bits)
  /\ DefaultTTL \in Nat
  /\ Delays \subseteq Int

Entry == [manifest : Manifests, left : Nat]

Held == {a \in Announcers : entries[a] # None}

Init == entries = [a \in Announcers |-> None]

Life(m) ==
  IF m.ttl # 0 THEN m.ttl
  ELSE IF DefaultTTL # 0 THEN DefaultTTL ELSE 3 * m.interval

(* An entry expires at Epoch + TTL; without an Epoch its lifetime starts   *)
(* when it is received.                                                    *)
Left(m, delay) ==
  LET left == Life(m) - (IF m.stamped THEN delay ELSE 0)
  IN  IF left > 0 THEN left ELSE 0

(* A manifest replaces the entry of its announcer, or with the Shutdown    *)
(* flag removes it.                                                        *)
Upsert(a, m, delay) ==
  entries' = [entries EXCEPT ![a] =
    IF m.shutdown THEN None ELSE [manifest |-> m, left |-> Left(m, delay)]]

Evict ==
  entries' = [a \in Announcers |->
    IF a \in Held /\ entries[a].left = 0 THEN None ELSE entries[a]]

(* A unit of time passes; an entry that has expired stays until Evict.     *)
Aged ==
  [a \in Announcers |->
     IF a \in Held /\ entries[a].left > 0
     THEN [entries[a] EXCEPT !.left = @ - 1] ELSE entries[a]]

(* The groups of a manifest (none unless GroupsValid is set); indices      *)
(* outside its plane are dropped.                                          *)
expandGroups(m) == {g \in m.groups : g < 2 ^ m.plane[0].bits}
=============================================================================
