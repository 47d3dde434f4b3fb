------------------------------ MODULE Bundles -------------------------------
(***************************************************************************)
(* Transaction bundles (src/bundle/bundle.go, src/bundle/coalesce.go) and  *)
(* the shard groups they are packed by (src/shard/shard.go), as operators. *)
(* A datagram is a sequence of cells: the header is one cell, so are a     *)
(* member's length and its TxID, and a transaction is as many as its       *)
(* length.  A TxID is its first PrefixBits bits, as a number.              *)
(***************************************************************************)
EXTENDS Integers, Sequences, SequencesExt

CONSTANTS
  PrefixBits,     \* bits of a TxID that are modelled
  MaxMembers,     \* what TxCount can express
  MaxMemberTxLen  \* what a member's length prefix can express

ASSUME BundlesAssumption ==
  PrefixBits \in Nat /\ MaxMembers \in Nat \ {0} /\ MaxMemberTxLen \in Nat

HeaderSize == 1
memberLenSize == 1
memberTxIDSize == 1

(* The top bits of the TxID.                                               *)
GroupIndex(bits, txid) == (txid \div 2^(PrefixBits - bits)) % 2^bits

(* Double SHA-256 of the bytes: the transaction's own id unless they are   *)
(* in Extended Format.                                                     *)
TxID(tx) == IF tx[1].ef THEN 2^PrefixBits - 1 - tx[1].txid ELSE tx[1].txid

NewCoalescer(bits, maxBytes, maxCount, carryTxID) ==
  [bits |-> bits, maxBytes |-> maxBytes, carryTxID |-> carryTxID,
   maxCount |-> IF maxCount \in 1..MaxMembers THEN maxCount ELSE MaxMembers]

MemberOverhead(carryTxID) == memberLenSize + (IF carryTxID THEN memberTxIDSize ELSE 0)

memberSectionLen(b) ==
  FoldLeft(LAMBDA n, m : n + MemberOverhead(b.txIDsPresent) + Len(m.tx), 0, b.members)

-----------------------------------------------------------------------------
flowKey(c, sender, f) == <<sender, GroupIndex(c.bits, f.txid), f.subtree>>

(* The flows of the frames, in the order of their first frames.            *)
Flows(c, sender, frames) ==
  FoldLeft(LAMBDA ks, f : IF Contains(ks, flowKey(c, sender, f)) THEN ks
                          ELSE Append(ks, flowKey(c, sender, f)), <<>>, frames)

(* Mutant: the budget does not count what a member adds to its bytes.      *)
FitsBare(c, mems) ==
  HeaderSize + FoldLeft(LAMBDA n, m : n + Len(m.tx), 0, mems) <= c.maxBytes

(* Mutant: the budget is not looked at.                                    *)
FitsAny(c, mems) == TRUE

Fits(c, mems) ==
  HeaderSize + memberSectionLen([members |-> mems, txIDsPresent |-> c.carryTxID]) <= c.maxBytes

(* The members of a flow in runs, each as long as the count and the size   *)
(* allow, but never empty.                                                 *)
Pack(c, mems) ==
  LET end(i) == CHOOSE n \in i..Len(mems) :
                  /\ n = i \/ Fits(c, SubSeq(mems, i, n))
                  /\ n - i < c.maxCount
                  /\ \/ n = Len(mems) \/ n - i + 1 = c.maxCount
                     \/ ~Fits(c, SubSeq(mems, i, n + 1))
      pack[i \in 1..Len(mems) + 1] ==
        IF i > Len(mems) THEN <<>> ELSE <<SubSeq(mems, i, end(i))>> \o pack[end(i) + 1]
  IN  pack[1]

(* The bundles of one flow, stamped from its counter on.                   *)
FlowBundles(c, sender, frames, k, seq) ==
  LET mine == SelectSeq(frames, LAMBDA f : flowKey(c, sender, f) = k)
      runs == Pack(c, [i \in DOMAIN mine |-> [txid |-> mine[i].txid, tx |-> mine[i].tx]])
  IN  [i \in DOMAIN runs |->
        [txIDsPresent |-> c.carryTxID, subtree |-> k[3], hashKey |-> k, seqNum |-> seq[k] + i,
         group |-> k[2], bits |-> c.bits, members |-> runs[i]]]

Coalesce(c, sender, frames, seq) ==
  LET ks == Flows(c, sender, frames)
  IN  FlattenSeq([i \in DOMAIN ks |-> FlowBundles(c, sender, frames, ks[i], seq)])

(* Mutant: a flow's counter moves once a call, however many bundles.       *)
StampedOnce(seq, bundles) ==
  [k \in DOMAIN seq |-> IF \E b \in ToSet(bundles) : b.hashKey = k THEN seq[k] + 1 ELSE seq[k]]

(* The counters once the bundles are stamped.                              *)
Stamped(seq, bundles) ==
  [k \in DOMAIN seq |-> seq[k] + Len(SelectSeq(bundles, LAMBDA b : b.hashKey = k))]

(* Mutant: the TxID is taken from the bytes even when it is carried.       *)
DecoalesceHashes(b) ==
  [i \in DOMAIN b.members |->
    [txid |-> TxID(b.members[i].tx), subtree |-> b.subtree, tx |-> b.members[i].tx]]

(* The frames of a bundle; they have its HashKey, and no SeqNum.           *)
Decoalesce(b) ==
  [i \in DOMAIN b.members |->
    [txid |-> IF b.txIDsPresent THEN b.members[i].txid ELSE TxID(b.members[i].tx),
     subtree |-> b.subtree, tx |-> b.members[i].tx]]

Rebucket(c, sender, b, seq) == Coalesce(c, sender, Decoalesce(b), seq)

-----------------------------------------------------------------------------
(* Whether Encode returns ErrTooMany or ErrMemberBig.                      *)
EncodeFails(b) ==
  Len(b.members) > MaxMembers \/ \E i \in DOMAIN b.members : Len(b.members[i].tx) > MaxMemberTxLen

Encode(b) ==
  <<[magic |-> TRUE, ver |-> 8, txIDsPresent |-> b.txIDsPresent, subtree |-> b.subtree,
     hashKey |-> b.hashKey, seqNum |-> b.seqNum, group |-> b.group, bits |-> b.bits,
     count |-> Len(b.members), payLen |-> memberSectionLen(b)]>>
  \o FlattenSeq([i \in DOMAIN b.members |->
       <<[len |-> Len(b.members[i].tx)]>>
       \o (IF b.txIDsPresent THEN <<[id |-> b.members[i].txid]>> ELSE <<>>)
       \o b.members[i].tx])

(* The members of the section, one after the other; a TxID that is not     *)
(* carried is left zero.                                                   *)
Members(buf) ==
  LET h == buf[1]
      end == HeaderSize + h.payLen
      walk[i \in 0..h.count] ==
        IF i = 0 THEN [err |-> "", off |-> HeaderSize, members |-> <<>>]
        ELSE LET w == walk[i - 1]
                 o == w.off + MemberOverhead(h.txIDsPresent)
             IN  IF w.err # "" \/ o > end \/ o + buf[w.off + 1].len > end
                 THEN [w EXCEPT !.err = "truncated"]
                 ELSE [err |-> "", off |-> o + buf[w.off + 1].len,
                       members |-> Append(w.members,
                         [txid |-> IF h.txIDsPresent THEN buf[o].id ELSE 0,
                          tx |-> SubSeq(buf, o + 1, o + buf[w.off + 1].len)])]
  IN  walk[h.count]

(* Mutant: members that do not use up the section are let through.         *)
LeftoverNone(buf, off) == FALSE

(* Whether the members end before the section does.                        *)
Leftover(buf, off) == off # HeaderSize + buf[1].payLen

Decode(buf) ==
  IF Len(buf) < HeaderSize THEN [err |-> "short"]
  ELSE IF ~buf[1].magic THEN [err |-> "magic"]
  ELSE IF buf[1].ver # 8 THEN [err |-> "version"]
  ELSE IF Len(buf) - HeaderSize < buf[1].payLen THEN [err |-> "truncated"]
  ELSE LET h == buf[1]
           w == Members(buf)
       IN  IF w.err # "" THEN [err |-> w.err]
           ELSE IF Leftover(buf, w.off) THEN [err |-> "count"]
           ELSE [err |-> "", txIDsPresent |-> h.txIDsPresent, subtree |-> h.subtree,
                 hashKey |-> h.hashKey, seqNum |-> h.seqNum, group |-> h.group,
                 bits |-> h.bits, members |-> w.members]
=============================================================================
