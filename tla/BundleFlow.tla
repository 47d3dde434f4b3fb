----------------------------- MODULE BundleFlow -----------------------------
(***************************************************************************)
(* Bundles on their way: a proxy coalesces the frames it receives, the     *)
(* fabric loses, duplicates, reorders or damages datagrams, a relay        *)
(* re-buckets bundles to finer shards, and consumers on both sides take    *)
(* them apart.                                                             *)
(***************************************************************************)
EXTENDS Bundles, FiniteSets

CONSTANTS
  Frames,     \* the frames a sender may send, each once
  Bits,       \* shard bits of each hop: Bits.fabric, Bits.edge
  MaxBytes,   \* the size budget of each hop
  MaxCount,   \* the member budget of each hop; 0 for no budget
  MaxBatch,   \* bound on the frames of one call
  MaxRelayed, \* bound on the bundles the relay receives
  MaxFaults   \* bound on the datagrams that are damaged

Hops == {"fabric", "edge"}

(* A size budget is that of a datagram, which a length prefix can express. *)
(* NewCoalescer does not check it.                                         *)
ASSUME BudgetAssumption == \A h \in Hops : MaxBytes[h] <= HeaderSize + MaxMemberTxLen

VARIABLES
  carry,    \* each hop's carryTxID
  seq,      \* each hop's counters
  arrived,  \* history: each hop's frames, in order
  stamped,  \* history: each hop's bundles
  net,      \* datagrams sent, by hop: one that is lost is never received,
            \* and any one may be received late or more than once
  faults    \* how many were damaged

vars == <<carry, seq, arrived, stamped, net, faults>>

Coalescer(h) == NewCoalescer(Bits[h], MaxBytes[h], MaxCount[h], carry[h])

Keys(h) == {h} \X (0..2^Bits[h] - 1) \X {f.subtree : f \in Frames}

Init ==
  /\ carry \in [Hops -> BOOLEAN]
  /\ seq = [h \in Hops |-> [k \in Keys(h) |-> 0]]
  /\ arrived = [h \in Hops |-> <<>>]
  /\ stamped = [h \in Hops |-> {}]
  /\ net = [h \in Hops |-> {}]
  /\ faults = 0

-----------------------------------------------------------------------------
(* A hop packs frames and sends the bundles that Encode accepts.           *)
Emit(h, frames, bundles) ==
  /\ seq' = [seq EXCEPT ![h] = Stamped(@, bundles)]
  /\ arrived' = [arrived EXCEPT ![h] = @ \o frames]
  /\ stamped' = [stamped EXCEPT ![h] = @ \cup ToSet(bundles)]
  /\ net' = [net EXCEPT ![h] = @ \cup {Encode(b) : b \in {x \in ToSet(bundles) : ~EncodeFails(x)}}]

Send(frames) ==
  /\ ToSet(frames) \cap ToSet(arrived["fabric"]) = {}
  /\ Emit("fabric", frames, Coalesce(Coalescer("fabric"), "fabric", frames, seq["fabric"]))
  /\ UNCHANGED <<carry, faults>>

(* The relay's side of the fabric; a datagram may reach it again.          *)
Relay(d) ==
  LET b == Decode(d)
  IN  /\ b.err = ""
      /\ Len(arrived["edge"]) < MaxRelayed
      /\ Emit("edge", Decoalesce(b), Rebucket(Coalescer("edge"), "edge", b, seq["edge"]))
      /\ UNCHANGED <<carry, faults>>

(* What a consumer of the hop makes of a datagram.                         *)
Consumed(d) == IF Decode(d).err = "" THEN ToSet(Decoalesce(Decode(d))) ELSE {}

(* A datagram is cut short, or its count or its payload length is wrong.   *)
Damages(d) ==
  {SubSeq(d, 1, n) : n \in 0..Len(d) - 1}
  \cup {[d EXCEPT ![1].payLen = n] : n \in {d[1].payLen - 1, d[1].payLen + 1}}
  \cup {[d EXCEPT ![1].count = n] : n \in {d[1].count - 1, d[1].count + 1}}

Damage(h, d) ==
  /\ faults < MaxFaults
  /\ \E e \in Damages(d) : net' = [net EXCEPT ![h] = (@ \ {d}) \cup {e}]
  /\ faults' = faults + 1
  /\ UNCHANGED <<carry, seq, arrived, stamped>>

Next ==
  \/ \E n \in 1..MaxBatch : \E frames \in [1..n -> Frames] :
       (\A i, j \in 1..n : i # j => frames[i] # frames[j]) /\ Send(frames)
  \/ \E d \in net["fabric"] : Relay(d)
  \/ \E h \in Hops : \E d \in net[h] : Damage(h, d)

Spec == Init /\ [][Next]_vars

-----------------------------------------------------------------------------
(* A flow is the frames of its group and subtree in the order they came:   *)
(* over all the calls its bundles are numbered 1, 2, ... without a gap or  *)
(* a repetition, and read in that order they hold each frame once, with    *)
(* its own TxID and bytes.                                                 *)
FlowsWhole ==
  \A h \in Hops : \A k \in Keys(h) :
    LET mine == {b \in stamped[h] : b.hashKey = k}
        frames == SelectSeq(arrived[h], LAMBDA f : flowKey(Coalescer(h), h, f) = k)
    IN  /\ {b.seqNum : b \in mine} = 1..Cardinality(mine)
        /\ FlattenSeq([i \in 1..Cardinality(mine) |-> (CHOOSE b \in mine : b.seqNum = i).members])
             = [i \in DOMAIN frames |-> [txid |-> frames[i].txid, tx |-> frames[i].tx]]

(* What is sent keeps to the budgets; only a member that is too large by   *)
(* itself exceeds the size, and it is alone.                               *)
WithinBudget ==
  \A h \in Hops : \A d \in net[h] :
    d # <<>> /\ d[1].count > 1 /\ Decode(d).err = "" =>
      Len(d) <= MaxBytes[h] /\ (MaxCount[h] > 0 => d[1].count <= MaxCount[h])

(* A transaction that Encode refuses takes no other one with it, as it is  *)
(* larger than any budget.                                                 *)
LostAlone == \A h \in Hops : \A b \in stamped[h] : EncodeFails(b) => Len(b.members) = 1

(* A datagram decodes to the members of the bundle it was made from, all   *)
(* of them, or, damaged, to none.                                          *)
WholeOrNothing ==
  \A h \in Hops : \A d \in net[h] :
    Consumed(d) # {} => \E b \in stamped[h] :
      /\ b.hashKey = d[1].hashKey /\ b.seqNum = d[1].seqNum
      /\ {g.tx : g \in Consumed(d)} = {m.tx : m \in ToSet(b.members)}

(* Whether each hop a frame took told its TxID, or the bytes do.           *)
Identified(f, h) == ~f.tx[1].ef \/ (carry["fabric"] /\ (h = "edge" => carry["edge"]))

(* A consumer gets frames that were sent, unchanged, with their subtree    *)
(* and TxID, from the group that TxID maps to at that hop's shard bits,    *)
(* whatever the fabric did to the datagrams.  Re-bucketing only splits     *)
(* groups: a frame leaves the relay in a child of a group it came to it    *)
(* in.                                                                     *)
DeliveredAsSent ==
  /\ \A h \in Hops : \A d \in net[h] : \A g \in Consumed(d) :
       \E f \in ToSet(arrived["fabric"]) :
         /\ g.tx = f.tx /\ g.subtree = f.subtree
         /\ Identified(f, h) =>
              g.txid = f.txid /\ d[1].group = GroupIndex(Bits[h], f.txid)
  /\ \A b \in stamped["edge"] : \A i \in DOMAIN b.members :
       \E a \in stamped["fabric"] :
         /\ \E j \in DOMAIN a.members : a.members[j].tx = b.members[i].tx
         /\ a.subtree = b.subtree
         /\ (a.txIDsPresent \/ ~b.members[i].tx[1].ef) =>
              a.group = b.group \div 2^(Bits["edge"] - Bits["fabric"])
=============================================================================
