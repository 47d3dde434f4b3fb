-------------------------------- MODULE Lane --------------------------------
(***************************************************************************)
(* One lane: a stream of objects of one class that arrives in chunks of    *)
(* any size, the Reader that splits it (src/objfmt/reader.go), and a       *)
(* caller that takes each object out of the Reader's buffer before it asks *)
(* for the next.  An input is what was written: whole objects, and then    *)
(* nothing, the beginning of one more object, or bytes that no object      *)
(* begins with, the last `wrong' of which are to blame.                    *)
(***************************************************************************)
EXTENDS Frames

CONSTANTS
  Inputs,     \* [cls, objects, tail, kind, wrong]: kind is "whole", "torn" or "bad"
  Maxes,      \* the bounds a caller may give to SetMaxObject
  InitialBuf, \* the size of the first buffer
  Slack       \* the room that a Read gets at least

ASSUME LaneAssumption == InitialBuf \in Nat /\ Slack \in Nat \ {0} /\ Maxes \subseteq Nat \ {0}

VARIABLES
  input,    \* what was written
  stream,   \* its bytes
  read,     \* how much of it the Reader has read
  max,      \* Reader.max
  buf,      \* Reader.buf up to Reader.end; what is after it is never looked at
  size,     \* len(Reader.buf)
  start,    \* Reader.start
  alias,    \* the slice Next returned: from an offset, a length
  pc,       \* "idle", "scan", "fill", "returned", "done"
  verdict,  \* the error of the last Next
  objs      \* history: what the caller took

vars == <<input, stream, read, max, buf, size, start, alias, pc, verdict, objs>>

PCs == {"idle", "scan", "fill", "returned", "done"}

end == Len(buf)
window == SubSeq(buf, start + 1, end)

Init ==
  /\ input \in Inputs
  /\ stream = FlattenSeq(input.objects) \o input.tail
  /\ max \in Maxes
  /\ read = 0 /\ buf = <<>> /\ size = 0 /\ start = 0
  /\ alias = <<0, 0>> /\ pc = "idle" /\ verdict = "" /\ objs = <<>>

-----------------------------------------------------------------------------
(* Mutant: the pending window is moved without its offset.                 *)
CompactStale(b, from) == SubSeq(b, 1, Len(b) - from)

(* The pending window at the front of the buffer.                          *)
Compact(b, from) == SubSeq(b, from + 1, Len(b))

(* Mutant: the bound of an object is the bound of the buffer.              *)
GrownTight(len, pending, bound) ==
  LET grow == IF len = 0 THEN InitialBuf ELSE 2 * len
  IN  IF len - pending >= Slack THEN len ELSE IF grow > bound THEN bound ELSE grow

(* The length of the buffer that Read is given.                            *)
Grown(len, pending, bound) ==
  LET grow == IF len = 0 THEN InitialBuf ELSE 2 * len
  IN  IF len - pending >= Slack THEN len
      ELSE IF grow > bound + Slack THEN bound + Slack ELSE grow

(* Mutant: whatever is left at the end of the stream is scanned again.     *)
AtEOFAgain(c, pending) ==
  IF pending = <<>> THEN <<"done", "EOF">> ELSE <<"scan", "">>

(* What Next does when the stream ends, with these bytes pending.          *)
AtEOF(c, pending) ==
  IF pending = <<>> THEN <<"done", "EOF">>
  ELSE LET n == Size(c, pending)
       IN  IF n = ErrShort THEN <<"done", "unexpected EOF">>
           ELSE IF n = ErrMalformed THEN <<"done", "malformed">>
           ELSE <<"scan", "">>

-----------------------------------------------------------------------------
Call ==
  /\ pc = "idle"
  /\ pc' = "scan"
  /\ UNCHANGED <<input, stream, read, max, buf, size, start, alias, verdict, objs>>

(* The window holds a whole object: Next returns it.                       *)
ScanWhole ==
  LET n == Size(input.cls, window)
  IN  /\ pc = "scan" /\ end > start /\ n >= 0
      /\ alias' = <<start, n>>
      /\ start' = start + n
      /\ pc' = "returned"
      /\ UNCHANGED <<input, stream, read, max, buf, size, verdict, objs>>

(* It holds none, or not enough of one to be too large already.            *)
ScanShort ==
  /\ pc = "scan"
  /\ end > start => Size(input.cls, window) = ErrShort /\ end - start < max
  /\ pc' = "fill"
  /\ UNCHANGED <<input, stream, read, max, buf, size, start, alias, verdict, objs>>

ScanFails ==
  LET n == Size(input.cls, window)
  IN  /\ pc = "scan" /\ end > start /\ n < 0
      /\ n = ErrShort => end - start >= max
      /\ verdict' = IF n = ErrShort THEN "too large" ELSE "malformed"
      /\ pc' = "done"
      /\ UNCHANGED <<input, stream, read, max, buf, size, start, alias, objs>>

(* Compact, grow, and one Read of n bytes with its error: the end of the   *)
(* stream only if it got there, another one with or without bytes.  A Read *)
(* of nothing without an error, which io.Reader discourages and which Next *)
(* answers by reading again, is left out.                                  *)
Fill(n, err) ==
  LET pending == Compact(buf, start)
      len == Grown(size, Len(pending), max)
      filled == pending \o SubSeq(stream, read + 1, read + n)
      after == CASE err = "" -> <<"scan", "">>
                 [] err = "EOF" -> AtEOF(input.cls, filled)
                 [] err = "reset" -> <<"done", "reset">>
  IN  /\ pc = "fill"
      /\ n <= len - Len(pending) /\ read + n <= Len(stream)
      /\ err = "" => n > 0
      /\ err = "EOF" => read + n = Len(stream)
      /\ buf' = filled /\ size' = len /\ start' = 0
      /\ read' = read + n
      /\ pc' = after[1] /\ verdict' = after[2]
      /\ UNCHANGED <<input, stream, max, alias, objs>>

(* The caller uses the slice that Next gave it.                            *)
Take ==
  /\ pc = "returned"
  /\ objs' = Append(objs, SubSeq(buf, alias[1] + 1, alias[1] + alias[2]))
  /\ pc' = "idle"
  /\ UNCHANGED <<input, stream, read, max, buf, size, start, alias, verdict>>

SetMaxObject(n) ==
  /\ pc = "idle" /\ n # max
  /\ max' = n
  /\ UNCHANGED <<input, stream, read, buf, size, start, alias, pc, verdict, objs>>

Done == pc = "done" /\ UNCHANGED vars

Next ==
  \/ Call \/ ScanWhole \/ ScanShort \/ ScanFails \/ Take
  \/ \E n \in 0..Len(stream), err \in {"", "EOF", "reset"} : Fill(n, err)
  \/ \E n \in Maxes : SetMaxObject(n)
  \/ Done

(* The caller keeps calling Next and the source gives something to each    *)
(* Read: until the lane is done some step other than SetMaxObject can be   *)
(* taken, and each of them moves pc.                                       *)
Moves == pc # "done" /\ pc' \in PCs \ {pc}

Spec == Init /\ [][Next]_vars /\ WF_pc(Moves)

-----------------------------------------------------------------------------
(* However the stream is cut into Reads, and whatever bound is set between *)
(* two calls, the caller gets the objects that were written, whole, in     *)
(* order and each once, and no object is made of a tail.                   *)
ObjectsWhole == IsPrefix(objs, input.objects)

(* The error that ends a lane says what is true of the stream: EOF only    *)
(* after the last object and no tail, malformed only at bytes that no      *)
(* object begins with, never at one that is torn, and too large only for   *)
(* an object or a tail longer than the bound of the moment.  An unexpected *)
(* EOF comes in a torn object, or where the stream ends inside the very    *)
(* field that is wrong: the walkers judge a tag, a marker or a count only  *)
(* when all of it is there, so fewer wrong bytes than the longest field    *)
(* has may go unnoticed, and never more.                                   *)
VerdictTrue ==
  LET i == Len(objs) + 1
      rest == IF i <= Len(input.objects) THEN input.objects[i] ELSE input.tail
  IN  /\ verdict = "EOF" => objs = input.objects /\ input.kind = "whole"
      /\ verdict = "unexpected EOF" =>
           /\ objs = input.objects
           /\ input.kind = "torn" \/ (input.kind = "bad" /\ input.wrong < u64Len)
      /\ verdict = "malformed" => objs = input.objects /\ input.kind = "bad"
      /\ verdict = "too large" =>
           \/ Len(rest) > max
           \/ i > Len(input.objects) /\ input.kind # "whole" /\ Len(rest) >= max

(* A Read is never given a buffer with less than Slack free, not even when *)
(* the bound has just been lowered, so that it can always make progress,   *)
(* never one too small for what is pending; and no buffer outgrows the     *)
(* largest bound by more than Slack.  The pending bytes lie within it.     *)
RoomToRead ==
  /\ 0 <= start /\ start <= end /\ end <= size
  /\ pc = "fill" => LET pending == end - start IN Grown(size, pending, max) - pending >= Slack
  /\ \E m \in Maxes : size <= m + Slack

(* Every lane comes to an end: Next never loops on bytes that will not     *)
(* become an object, at the end of the stream in particular.               *)
Ends == <>(pc = "done")

-----------------------------------------------------------------------------
Decoders(d) ==
  <<Decode(d), DecodeFragment(d), DecodeBlock(d), DecodeSubtreeData(d), DecodeAnchor(d),
    DecodeBlockHeader(d), DecodeBEEF(d)>>

Versions == <<{1, 2}, {3}, {4}, {5}, {6}, {7}, {9}>>

(* The frame in which an object of each class travels.                     *)
FrameOf(c, obj) ==
  CASE c \in {"tx", "subtree", "block"} -> MulticastBytes(c, obj)
    [] c = "beef" -> BEEFMulticastRecord(obj, 1)
    [] c = "header" -> EncodeBlockHeader(obj)
    [] c = "delivery" -> BEEFMulticastBytes(obj[1], DecodeBEEFDelivery(obj).payload)

(* What comes out of that frame on the other side.                         *)
Unwrap(c, d) ==
  CASE c = "header" -> DecodeBlockHeader(d).payload
    [] c = "delivery" -> EncodeBEEFDelivery(DecodeBEEF(d).at56, DecodeBEEF(d).payload)
    [] OTHER -> StripBytes(c, d).obj

(* The datagram in two fragments.                                          *)
Half(d, i) ==
  LET n == Len(d) - FrameHeaderSize
      data == IF i = 0 THEN SubSeq(d, FrameHeaderSize + 1, FrameHeaderSize + n \div 2)
              ELSE SubSeq(d, FrameHeaderSize + n \div 2 + 1, Len(d))
  IN  EncodeFragment(d[1].id, d[2].at56, n, i, 2, d[1].ver, data)

(* The object the caller took last.                                        *)
Taken == IF pc = "idle" /\ objs # <<>> THEN {Last(objs)} ELSE {}

(* The same payload in a datagram of version 1.                            *)
Legacy(d) ==
  <<[d[1] EXCEPT !.ver = 1, !.at40 = d[2].payLen]>> \o SubSeq(d, FrameHeaderSize + 1, Len(d))

(* The frame that two fragments tell of.                                   *)
Reassembled(f, g) ==
  EncodeV(f.part.origVer, f.byte7, f.id, f.at56, f.payload \o g.payload)

(* The datagram with another number in the u64Len bytes at an offset.      *)
Recounted(d, off, n) ==
  SubSeq(d, 1, off) \o PutBigEndian(n, u64Len) \o SubSeq(d, off + u64Len + 1, Len(d))

(* Counts under both message types, of the nodes and of the conflicts: any *)
(* small one, and as many as an int can still count the bytes of.          *)
Counts(d) ==
  UNION {{Recounted([d EXCEPT ![1].byte7 = m], off, n) :
            off \in {FrameHeaderSize + 2 * fieldLen, Len(d) - u64Len},
            n \in 0..6 \cup {(MaxInt - Len(d)) \div nodeStride(m)}} : m \in SubtreeMsgs}

(* An object that a lane gave goes into its frame and comes out of it byte *)
(* for byte on the other side.  Only the decoder of the frame's version    *)
(* takes the datagram (the Is... functions agree), none takes it truncated *)
(* anywhere, and version 1 carries the payload as well.  Of its fragments  *)
(* each gives its part back, and together they tell the frame but for its  *)
(* message type, for which EncodeFragment writes a zero.  A subtree frame  *)
(* with a wrong count is refused or gives a whole subtree, as long as an   *)
(* int can count the bytes of what it says; DecodeSubtreeDataPayload       *)
(* panics on larger counts.                                                *)
Carried ==
  \A obj \in Taken : \A d \in {FrameOf(input.cls, obj)} :
    /\ Unwrap(input.cls, d) = obj
    /\ \A x \in {d, Half(d, 0), Half(d, 1), Legacy(d), [d EXCEPT ![1].ver = 6]}, i \in DOMAIN Versions :
         /\ (Decoders(x)[i].err = "") = (\E v \in Versions[i] : IsVersion(x, v))
         /\ \A k \in 0..Len(x) - 1 : Decoders(SubSeq(x, 1, k))[i].err # ""
    /\ Decode(Legacy(d)).payload = SubSeq(d, FrameHeaderSize + 1, Len(d))
    /\ Reassembled(DecodeFragment(Half(d, 0)), DecodeFragment(Half(d, 1)))
         = [d EXCEPT ![1].byte7 = 0]
    /\ input.cls = "subtree" => \A x \in Counts(d) : \A r \in {StripBytes("subtree", x)} :
         r.err = "short" \/ (r.err = "" /\ SubtreeSize(r.obj) = Len(r.obj))

(* A transaction has one identity: the id of an Extended Format            *)
(* transaction, which TxID finds in a walk of its own, is the id of the    *)
(* standard serialisation of the same transaction, which ToStandard gives  *)
(* and which is a transaction itself.                                      *)
SameTxID ==
  input.cls = "tx" =>
    \A obj \in Taken : \A std \in {ToStandard(obj)} :
      /\ std = input.standard[Len(objs)]
      /\ TxSize(std) = Len(std)
      /\ TxID(obj) = TxID(std)

(* For every number of topics a record is delivered for (0: a frame from   *)
(* before there was one), whether the ingress clamped it or the frame says *)
(* more than its record has, a listener may match the frame on exactly     *)
(* that many of the record's names, the first ones in their order, never   *)
(* none and never more than there are; and the delivery record of any of   *)
(* them is an object of its lane that gives the names back.                *)
TopicsDelivered ==
  input.cls = "beef" =>
    \A rec \in Taken, k \in 0..BEEFMaxTopics + 1 : \A d \in {BEEFMulticastRecord(rec, k)} :
      LET names == input.topics[Len(objs)]
          matched == CASE k = 0 -> 1 [] k > Len(names) -> Len(names) [] OTHER -> k
      IN  /\ \A f \in {d, [d EXCEPT ![1].byte7 = k]} :
               BEEFDeliverableTopicIDs(DecodeBEEF(f)) = [i \in 1..matched |-> TopicID(names[i])]
          /\ \A i \in 1..matched : \A dr \in {EncodeBEEFDelivery(TopicID(names[i]), rec)} :
               /\ BEEFDeliverySize(dr) = Len(dr)
               /\ DecodeBEEFDelivery(dr).topicID = TopicID(names[i])
               /\ SplitBEEFPayload(DecodeBEEFDelivery(dr).payload).record.topics = names
=============================================================================
