------------------------------- MODULE Sizes --------------------------------
(***************************************************************************)
(* The size walkers of the object lanes (src/objfmt/{tx,subtree,block,     *)
(* beef,header}.go) over scaled bytes.  A byte is a number below 16, and   *)
(* each field keeps its order and its meaning but is shorter: an outpoint, *)
(* a hash or a topic id is one byte, a uint64 two, a uint32 one, and the   *)
(* three long forms of a VarInt have one, two and three more bytes.  The   *)
(* ranges keep their order: MaxInt32 is below MaxInt, the largest int, of  *)
(* which a uint64 may be twice as large.                                   *)
(* A walk gives an offset, or one of the two errors, which are negative    *)
(* and go through the rest of the walk unchanged.                          *)
(***************************************************************************)
EXTENDS Integers, Sequences, SequencesExt

ErrShort == -1
ErrMalformed == -2

Base == 16
MaxInt32 == 100
MaxInt == 127

versionLen == 1
efMarker == <<0, 0, 14>>
fieldLen == 1      \* an outpoint, a sequence, a value, a locktime, a height
rootSize == 1      \* a hash: merkle root, node, TopicID
u64Len == 2
u32Len == 1
BlockHeaderLen == 2
BlockPrefixSize == BlockHeaderLen + 2 * fieldLen + u64Len
SubtreeHeaderSize == rootSize + u64Len
BEEFRecordTag == <<11, 15>>
BEEFRecordVer == 1
beefRecordMin == 4
BEEFMaxTopics == 2
BEEFMaxTopicLen == 2
BEEFDeliveryHeaderSize == rootSize + u32Len

(* binary.BigEndian of n bytes from the offset, and LittleEndian.          *)
BigEndian(buf, off, n) ==
  FoldLeft(LAMBDA v, b : v * Base + b, 0, SubSeq(buf, off + 1, off + n))

LittleEndian(buf, off, n) ==
  FoldRight(LAMBDA b, v : v * Base + b, SubSeq(buf, off + 1, off + n), 0)

-----------------------------------------------------------------------------
(* A step of a walk at the offset where the last one ended, if it did not  *)
(* fail.                                                                   *)
Then(off, Step(_)) == [o \in Int |-> IF o < 0 THEN o ELSE Step(o)][off]

(* The value of the VarInt at an offset, and the offset after it.          *)
varInt(buf, off) ==
  IF off >= Len(buf) THEN [val |-> 0, next |-> ErrShort]
  ELSE LET first == buf[off + 1]
           more == IF first < Base - 3 THEN 0 ELSE first - (Base - 4)
       IN  IF more = 0 THEN [val |-> first, next |-> off + 1]
           ELSE IF off + 1 + more > Len(buf) THEN [val |-> 0, next |-> ErrShort]
           ELSE [val |-> LittleEndian(buf, off + 1, more), next |-> off + 1 + more]

advance(buf, off, n) ==
  IF n > MaxInt32 \/ off > MaxInt32 THEN ErrMalformed
  ELSE IF off + n > Len(buf) THEN ErrShort
  ELSE off + n

Field(buf, off) == Then(off, LAMBDA o : advance(buf, o, fieldLen))

(* A script: a VarInt and as many bytes.                                   *)
Script(buf, off) ==
  Then(off, LAMBDA o : Then(varInt(buf, o).next, LAMBDA p : advance(buf, p, varInt(buf, o).val)))

IsEF(tx) ==
  /\ Len(tx) >= versionLen + Len(efMarker)
  /\ SubSeq(tx, versionLen + 1, versionLen + Len(efMarker)) = efMarker

(* The outpoint, the script and the sequence of an input, and in Extended  *)
(* Format the value and the script it spends.                              *)
Input(buf, off, ef) ==
  LET s == Field(buf, Script(buf, Field(buf, off)))
  IN  IF ef THEN Script(buf, Field(buf, s)) ELSE s

Output(buf, off) == Script(buf, Field(buf, off))

(* As many elements as a count says, each at least one byte long, so that  *)
(* no more than the bytes there are need be looked at.                     *)
Vector(buf, off, Elem(_)) ==
  Then(off, LAMBDA o :
    LET v == varInt(buf, o)
        walk[i \in 0..Len(buf) + 1] == IF i = 0 THEN v.next ELSE Then(walk[i - 1], Elem)
    IN  IF v.next < 0 THEN v.next
        ELSE IF v.val = 0 THEN ErrMalformed
        ELSE walk[IF v.val <= Len(buf) THEN v.val ELSE Len(buf) + 1])

(* The input vector, the output vector and the locktime.                   *)
TxBody(buf, ef) ==
  LET ins == versionLen + (IF ef THEN Len(efMarker) ELSE 0)
      outs == Vector(buf, ins, LAMBDA o : Input(buf, o, ef))
  IN  Field(buf, Vector(buf, outs, LAMBDA o : Output(buf, o)))

(* Mutant: a zero where the count of inputs is expected is an error even   *)
(* when the rest of an Extended Format marker may still come.              *)
TxSizeHasty(buf) ==
  IF Len(buf) < versionLen THEN ErrShort ELSE TxBody(buf, IsEF(buf))

TxSize(buf) ==
  IF Len(buf) < versionLen THEN ErrShort
  ELSE IF ~IsEF(buf) /\ Len(buf) > versionLen /\ buf[versionLen + 1] = 0
  THEN IF Len(buf) < versionLen + Len(efMarker) THEN ErrShort ELSE ErrMalformed
  ELSE TxBody(buf, IsEF(buf))

-----------------------------------------------------------------------------
SubtreeSize(buf) ==
  IF Len(buf) < SubtreeHeaderSize THEN ErrShort
  ELSE LET n == BigEndian(buf, rootSize, u64Len)
           total == SubtreeHeaderSize + n * rootSize
       IN  IF n > (MaxInt - SubtreeHeaderSize) \div rootSize THEN ErrMalformed
           ELSE IF Len(buf) < total THEN ErrShort ELSE total

(* The prefix, the roots, the coinbase, the height and the BUMP.           *)
BlockSize(buf) ==
  IF Len(buf) < BlockPrefixSize THEN ErrShort
  ELSE LET m == BigEndian(buf, BlockPrefixSize - u64Len, u64Len)
           roots == BlockPrefixSize + m * rootSize
       IN  IF m > (MaxInt - BlockPrefixSize) \div rootSize THEN ErrMalformed
           ELSE IF Len(buf) < roots THEN ErrShort
           ELSE Then(TxSize(SubSeq(buf, roots + 1, Len(buf))), LAMBDA cb :
             LET off == roots + cb + fieldLen + u64Len
                 l == BigEndian(buf, off - u64Len, u64Len)
             IN  IF Len(buf) < off THEN ErrShort
                 ELSE IF l > MaxInt - off THEN ErrMalformed
                 ELSE IF Len(buf) < off + l THEN ErrShort ELSE off + l)

-----------------------------------------------------------------------------
(* The offset after the first i topic names of a record.                   *)
Topics(buf, i) ==
  LET walk[j \in 0..i] ==
        IF j = 0 THEN beefRecordMin
        ELSE Then(walk[j - 1], LAMBDA off :
               IF Len(buf) < off + 1 THEN ErrShort
               ELSE IF buf[off + 1] \notin 1..BEEFMaxTopicLen THEN ErrMalformed
               ELSE IF Len(buf) < off + 1 + buf[off + 1] THEN ErrShort
               ELSE off + 1 + buf[off + 1])
  IN  walk[i]

(* A length of u32Len bytes at an offset and the object after it.          *)
ObjectEnd(buf, from) ==
  Then(from, LAMBDA off :
    LET objLen == BigEndian(buf, off, u32Len)
    IN  IF Len(buf) < off + u32Len THEN ErrShort
        ELSE IF objLen = 0 \/ objLen > MaxInt - off - u32Len THEN ErrMalformed
        ELSE IF Len(buf) < off + u32Len + objLen THEN ErrShort
        ELSE off + u32Len + objLen)

BEEFRecordSize(buf) ==
  IF Len(buf) < Len(BEEFRecordTag) THEN ErrShort
  ELSE IF SubSeq(buf, 1, Len(BEEFRecordTag)) # BEEFRecordTag THEN ErrMalformed
  ELSE IF Len(buf) < beefRecordMin THEN ErrShort
  ELSE IF buf[3] # BEEFRecordVer \/ buf[4] \notin 1..BEEFMaxTopics THEN ErrMalformed
  ELSE ObjectEnd(buf, Topics(buf, buf[4]))

BEEFDeliverySize(buf) ==
  IF Len(buf) < BEEFDeliveryHeaderSize THEN ErrShort ELSE ObjectEnd(buf, rootSize)

BlockHeaderSize(buf) == IF Len(buf) < BlockHeaderLen THEN ErrShort ELSE BlockHeaderLen

Size(c, buf) ==
  CASE c = "tx"       -> TxSize(buf)
    [] c = "subtree"  -> SubtreeSize(buf)
    [] c = "block"    -> BlockSize(buf)
    [] c = "beef"     -> BEEFRecordSize(buf)
    [] c = "delivery" -> BEEFDeliverySize(buf)
    [] c = "header"   -> BlockHeaderSize(buf)

-----------------------------------------------------------------------------
(* The spans of an Extended Format transaction that belong to its standard *)
(* form: the version, the count of inputs, the inputs up to the sequence,  *)
(* and everything after the last of them.                                  *)
StandardSpans(tx) ==
  LET count == varInt(tx, versionLen + Len(efMarker))
      off[i \in 0..count.val] == IF i = 0 THEN count.next ELSE Input(tx, off[i - 1], TRUE)
  IN  <<SubSeq(tx, 1, versionLen), SubSeq(tx, versionLen + Len(efMarker) + 1, count.next)>>
      \o [i \in 1..count.val |-> SubSeq(tx, off[i - 1] + 1, Input(tx, off[i - 1], FALSE))]
      \o <<SubSeq(tx, off[count.val] + 1, Len(tx))>>

(* For a transaction that TxSize accepts.                                  *)
ToStandard(buf) ==
  LET tx == SubSeq(buf, 1, TxSize(buf))
  IN  IF IsEF(tx) THEN FlattenSeq(StandardSpans(tx)) ELSE tx

(* Mutant: the spent value and script of each input are hashed as well.    *)
HashedAll(tx) ==
  SubSeq(tx, 1, versionLen) \o SubSeq(tx, versionLen + Len(efMarker) + 1, Len(tx))

(* What TxID has written to the hash at the end of a walk of its own, which *)
(* skips the spent value and script of each input.                         *)
Hashed(tx) ==
  LET count == varInt(tx, versionLen + Len(efMarker))
      h[i \in 0..count.val] ==
        IF i = 0
        THEN [off |-> count.next,
              written |-> SubSeq(tx, 1, versionLen)
                          \o SubSeq(tx, versionLen + Len(efMarker) + 1, count.next)]
        ELSE LET from == h[i - 1].off
                 sequenced == Field(tx, Script(tx, Field(tx, from)))
             IN  [off |-> Script(tx, Field(tx, sequenced)),
                  written |-> h[i - 1].written \o SubSeq(tx, from + 1, sequenced)]
  IN  h[count.val].written \o SubSeq(tx, h[count.val].off + 1, Len(tx))

(* The hash stands for what is hashed.                                     *)
Sha256d(bytes) == <<"sha256d", bytes>>

TxID(buf) ==
  LET tx == SubSeq(buf, 1, TxSize(buf))
  IN  Sha256d(IF IsEF(tx) THEN Hashed(tx) ELSE tx)
=============================================================================
