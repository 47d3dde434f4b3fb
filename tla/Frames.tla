------------------------------- MODULE Frames -------------------------------
(***************************************************************************)
(* The multicast frames (src/frame) and the way objects go into them and   *)
(* out of them again (src/objfmt/{multicast,strip,block,subtree,beef}.go). *)
(* A datagram is a sequence of cells: one for the 44 bytes that every      *)
(* version has, one for the rest of the 92-byte header, one for what a     *)
(* fragment adds, and then one for each byte of the payload.               *)
(***************************************************************************)
EXTENDS Sizes

HeaderSizeLegacy == 1
FrameHeaderSize == 2
HeaderSizeV3 == 3

BlockMsgs == {1, 2}    \* BlockMsgAnnounce, BlockMsgCoinbase
SubtreeMsgs == {1, 2}  \* SubtreeMsgHashesOnly, SubtreeMsgFullNodes
Zeros == <<"zeros">>

(* The common part of every Encode: the version, byte 7, the id at bytes   *)
(* 8-39, the 32 bytes at 56-87 and the payload; unstamped.                 *)
EncodeV(ver, byte7, id, at56, payload) ==
  <<[magic |-> TRUE, ver |-> ver, byte7 |-> byte7, id |-> id, at40 |-> 0],
    [hashKey |-> 0, seqNum |-> 0, at56 |-> at56, payLen |-> Len(payload)]>> \o payload

Encode(txID, payload) == EncodeV(2, 0, txID, Zeros, payload)
EncodeBlock(msgType, contentID, payload) == EncodeV(4, msgType, contentID, Zeros, payload)
EncodeSubtreeData(msgType, subtreeID, payload) == EncodeV(5, msgType, subtreeID, Zeros, payload)
EncodeBEEF(count, contentID, topicID, payload) == EncodeV(9, count, contentID, topicID, payload)

(* Whether a datagram begins with a header of the version (the Is...Frame  *)
(* functions, IsFragment and IsBundle).                                    *)
IsVersion(buf, ver) == Len(buf) >= HeaderSizeLegacy /\ buf[1].magic /\ buf[1].ver = ver

(* What every decoder checks, in its order; "" when there is no error.     *)
Checks(buf, ver, header, byte7s) ==
  IF Len(buf) < HeaderSizeLegacy THEN "short"
  ELSE IF ~buf[1].magic THEN "magic"
  ELSE IF buf[1].ver # ver THEN "version"
  ELSE IF Len(buf) < header THEN "short"
  ELSE IF buf[1].byte7 \notin byte7s THEN "message"
  ELSE ""

(* Mutant: a payload longer than what is left is cut to that.              *)
DecodeVLoose(buf, ver, byte7s) ==
  IF Checks(buf, ver, FrameHeaderSize, byte7s) # "" THEN [err |-> Checks(buf, ver, FrameHeaderSize, byte7s)]
  ELSE [err |-> "", ver |-> ver, byte7 |-> buf[1].byte7, id |-> buf[1].id, at56 |-> buf[2].at56,
        payload |-> SubSeq(buf, FrameHeaderSize + 1, Len(buf))]

(* A decoder of the 92-byte header that takes the given values of byte 7.  *)
DecodeV(buf, ver, byte7s) ==
  LET err == Checks(buf, ver, FrameHeaderSize, byte7s)
  IN  IF err # "" THEN [err |-> err]
      ELSE IF Len(buf) - FrameHeaderSize < buf[2].payLen THEN [err |-> "eof"]
      ELSE [err |-> "", ver |-> ver, byte7 |-> buf[1].byte7, id |-> buf[1].id, at56 |-> buf[2].at56,
            payload |-> SubSeq(buf, FrameHeaderSize + 1, FrameHeaderSize + buf[2].payLen)]

Byte == 0..Base - 1

decodeV1(buf) ==
  IF Len(buf) - HeaderSizeLegacy < buf[1].at40 THEN [err |-> "eof"]
  ELSE [err |-> "", ver |-> 1, byte7 |-> 0, id |-> buf[1].id, at56 |-> Zeros,
        payload |-> SubSeq(buf, HeaderSizeLegacy + 1, HeaderSizeLegacy + buf[1].at40)]

(* Decode takes version 1 or 2 and names the decoder of the others.        *)
Decode(buf) ==
  IF Checks(buf, 1, HeaderSizeLegacy, Byte) = "" THEN decodeV1(buf) ELSE DecodeV(buf, 2, Byte)

DecodeBlock(buf) == DecodeV(buf, 4, BlockMsgs)
DecodeSubtreeData(buf) == DecodeV(buf, 5, SubtreeMsgs)
DecodeAnchor(buf) == DecodeV(buf, 6, Byte)
DecodeBEEF(buf) == DecodeV(buf, 9, Byte)

(* The length is fixed: a datagram that lacks some of it is short.         *)
DecodeBlockHeader(buf) ==
  LET err == Checks(buf, 7, FrameHeaderSize, Byte)
  IN  IF err # "" THEN [err |-> err]
      ELSE IF buf[2].payLen # BlockHeaderLen THEN [err |-> "length"]
      ELSE IF Len(buf) < FrameHeaderSize + BlockHeaderLen THEN [err |-> "short"]
      ELSE [err |-> "", ver |-> 7, byte7 |-> 0, id |-> buf[1].id, at56 |-> Zeros,
            payload |-> SubSeq(buf, FrameHeaderSize + 1, FrameHeaderSize + BlockHeaderLen)]

(* A fragment: EncodeFragment writes no message type.                      *)
EncodeFragment(id, at56, origPayloadLen, index, total, origVer, data) ==
  LET f == EncodeV(3, 0, id, at56, data)
  IN  SubSeq(f, 1, FrameHeaderSize)
      \o <<[origLen |-> origPayloadLen, index |-> index, total |-> total, origVer |-> origVer]>>
      \o data

DecodeFragment(buf) ==
  LET err == Checks(buf, 3, HeaderSizeV3, Byte)
  IN  IF err # "" THEN [err |-> err]
      ELSE IF Len(buf) - HeaderSizeV3 < buf[2].payLen THEN [err |-> "eof"]
      ELSE IF buf[3].total = 0 \/ buf[3].index >= buf[3].total THEN [err |-> "fragment"]
      ELSE [err |-> "", ver |-> 3, byte7 |-> buf[1].byte7, id |-> buf[1].id, at56 |-> buf[2].at56,
            payload |-> SubSeq(buf, HeaderSizeV3 + 1, HeaderSizeV3 + buf[2].payLen),
            part |-> buf[3]]

-----------------------------------------------------------------------------
(* A number in n bytes, most significant first.                            *)
PutBigEndian(v, n) == [i \in 1..n |-> (v \div Base^(n - i)) % Base]

PayloadHeaderSize == 2 * fieldLen + u64Len

(* A node's hash, and with full nodes its fee and its size.                *)
nodeStride(msgType) == IF msgType = 1 THEN rootSize ELSE rootSize + 2 * fieldLen

EncodeSubtreeDataPayload(p, msgType) ==
  <<p.fees, p.size>> \o PutBigEndian(Len(p.nodes), u64Len)
  \o FlattenSeq([i \in DOMAIN p.nodes |-> SubSeq(p.nodes[i], 1, nodeStride(msgType))])
  \o PutBigEndian(Len(p.conflicts), u64Len) \o p.conflicts

(* An int that wraps: a uint64 converted to it, a product or a sum.        *)
IntOf(v) == ((v + MaxInt + 1) % (2 * (MaxInt + 1))) - (MaxInt + 1)

(* make panics when n elements of a size are more than memory can hold,    *)
(* which is less than an int can count.                                    *)
MakePanics(n, elemSize) == n * elemSize > MaxInt \div 2

(* Both counts are multiplied unchecked, so a count out of range may pass  *)
(* the length check, and then make panics.                                 *)
DecodeSubtreeDataPayload(payload, msgType) ==
  LET count == BigEndian(payload, 2 * fieldLen, u64Len)
      stride == nodeStride(msgType)
      nodesEnd == IntOf(PayloadHeaderSize + count * stride)
      conflicts == BigEndian(payload, nodesEnd, u64Len)
      conflictsEnd == IntOf(nodesEnd + u64Len + conflicts * rootSize)
  IN  IF Len(payload) < PayloadHeaderSize THEN [err |-> "short"]
      ELSE IF Len(payload) < IntOf(nodesEnd + u64Len) THEN [err |-> "short"]
      ELSE IF MakePanics(count, nodeStride(2)) THEN [err |-> "panic"]
      ELSE IF Len(payload) < conflictsEnd THEN [err |-> "short"]
      ELSE IF MakePanics(conflicts, rootSize) THEN [err |-> "panic"]
      ELSE [err |-> "", fees |-> payload[1], size |-> payload[2],
            nodes |-> [i \in 1..count |->
              SubSeq(payload, PayloadHeaderSize + (i - 1) * stride + 1, PayloadHeaderSize + i * stride)],
            conflicts |-> SubSeq(payload, nodesEnd + u64Len + 1, conflictsEnd)]

(* A subtree goes out as its hashes, its root as the frame's SubtreeID.    *)
subtreeMulticast(obj) ==
  LET count == BigEndian(obj, rootSize, u64Len)
      p == [fees |-> 0, size |-> 0, conflicts |-> <<>>,
            nodes |-> [i \in 1..count |-> <<obj[SubtreeHeaderSize + i], 0, 0>>]]
  IN  EncodeSubtreeData(1, obj[1], EncodeSubtreeDataPayload(p, 1))

(* A block goes out verbatim.                                              *)
blockMulticast(obj) ==
  EncodeBlock(1, Sha256d(SubSeq(obj, 1, BlockHeaderLen)), SubSeq(obj, 1, BlockSize(obj)))

EncodeBlockHeader(header) == EncodeV(7, 0, Sha256d(header), Zeros, header)

(* The frame of an object that Size accepts, for the classes it knows.     *)
MulticastBytes(c, obj) ==
  CASE c = "tx"      -> Encode(TxID(obj), SubSeq(obj, 1, TxSize(obj)))
    [] c = "subtree" -> subtreeMulticast(obj)
    [] c = "block"   -> blockMulticast(obj)

subtreeStrip(mcast) ==
  LET sf == DecodeSubtreeData(mcast)
      p == DecodeSubtreeDataPayload(sf.payload, sf.byte7)
  IN  IF sf.err # "" THEN [err |-> sf.err]
      ELSE IF p.err # "" THEN [err |-> p.err]
      ELSE [err |-> "", obj |-> <<sf.id>> \o PutBigEndian(Len(p.nodes), u64Len)
                                \o [i \in DOMAIN p.nodes |-> p.nodes[i][1]]]

(* Only a whole block comes out of a block frame.                          *)
blockStrip(mcast) ==
  LET bf == DecodeBlock(mcast)
  IN  IF bf.err # "" THEN [err |-> bf.err]
      ELSE IF BlockSize(bf.payload) # Len(bf.payload) THEN [err |-> "not strippable"]
      ELSE [err |-> "", obj |-> bf.payload]

Payload(f) == IF f.err # "" THEN [err |-> f.err] ELSE [err |-> "", obj |-> f.payload]

StripBytes(c, mcast) ==
  CASE c = "tx"      -> Payload(Decode(mcast))
    [] c = "subtree" -> subtreeStrip(mcast)
    [] c = "block"   -> blockStrip(mcast)
    [] c = "beef"    -> Payload(DecodeBEEF(mcast))

-----------------------------------------------------------------------------
(* A hash that tells the names of an instance apart.                       *)
TopicID(name) == (7 + 3 * BigEndian(name, 0, Len(name))) % Base

EncodeBEEFRecord(topics, object) ==
  BEEFRecordTag \o <<BEEFRecordVer, Len(topics)>>
  \o FlattenSeq([i \in DOMAIN topics |-> <<Len(topics[i])>> \o topics[i]])
  \o PutBigEndian(Len(object), u32Len) \o object

(* The names and the object of a record that BEEFRecordSize accepts.       *)
DecodeBEEFRecord(buf) ==
  [topics |-> [i \in 1..buf[4] |-> SubSeq(buf, Topics(buf, i - 1) + 2, Topics(buf, i))],
   object |-> SubSeq(buf, Topics(buf, buf[4]) + u32Len + 1, BEEFRecordSize(buf))]

(* A payload that begins with the tag is one record and nothing else.      *)
SplitBEEFPayload(payload) ==
  IF Len(payload) >= Len(BEEFRecordTag) /\ SubSeq(payload, 1, Len(BEEFRecordTag)) = BEEFRecordTag
  THEN IF BEEFRecordSize(payload) # Len(payload) THEN [err |-> "malformed"]
       ELSE [err |-> "", record |-> DecodeBEEFRecord(payload)]
  ELSE [err |-> "", record |-> [topics |-> <<>>, object |-> payload]]

(* deliverCount is clamped to the number of the record's topics.           *)
BEEFMulticastRecord(rec, deliverCount) ==
  LET topics == DecodeBEEFRecord(rec).topics
      count == IF deliverCount < 1 THEN 1
               ELSE IF deliverCount > Len(topics) THEN Len(topics) ELSE deliverCount
  IN  EncodeBEEF(count, Sha256d(rec), TopicID(topics[1]), rec)

BEEFMulticastBytes(topicID, obj) == EncodeBEEF(0, Sha256d(obj), topicID, obj)

(* The zero of an old frame means one.                                     *)
Deliverable(f) == IF f.byte7 = 0 THEN 1 ELSE f.byte7

(* Mutant: every name of the record may be matched.                        *)
BEEFDeliverableTopicIDsNames(f) ==
  LET split == SplitBEEFPayload(f.payload)
  IN  [i \in 1..Len(split.record.topics) |-> TopicID(split.record.topics[i])]

BEEFDeliverableTopicIDs(f) ==
  LET split == SplitBEEFPayload(f.payload)
      names == split.record.topics
      want == IF Deliverable(f) > Len(names) THEN Len(names) ELSE Deliverable(f)
  IN  IF Deliverable(f) <= 1 \/ split.err # "" \/ Len(names) < 2 THEN <<f.at56>>
      ELSE <<f.at56>> \o [i \in 1..want - 1 |-> TopicID(names[i + 1])]

EncodeBEEFDelivery(topicID, payload) == <<topicID>> \o PutBigEndian(Len(payload), u32Len) \o payload

DecodeBEEFDelivery(buf) ==
  [topicID |-> buf[1], payload |-> SubSeq(buf, BEEFDeliveryHeaderSize + 1, BEEFDeliverySize(buf))]
=============================================================================
