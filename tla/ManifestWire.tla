---------------------------- MODULE ManifestWire ----------------------------
(***************************************************************************)
(* The shard manifest on the wire (src/frame/shard_manifest.go) and the    *)
(* object planes it describes (src/shard/plane.go).                        *)
(*                                                                         *)
(* A datagram is a sequence of cells: the header, then one cell for each   *)
(* group index or bitmap byte, each source, the successor block, the       *)
(* number of descriptors, and each descriptor with the successor block     *)
(* that may follow it.  A flag byte is the set of its flags, a bitmap byte *)
(* the set of its bits.  The checksum of some cells is those cells: CRC-32 *)
(* collisions are left out.  A refused manifest or datagram is NoManifest; *)
(* which error says so is left out.                                        *)
(***************************************************************************)
EXTENDS Integers, Sequences
LOCAL INSTANCE SequencesExt

CONSTANT NoManifest  \* no manifest, and no successor block

MaxShardBits == 12
MaxDomainDescriptors == 15
MaxDomainID == 14
MaxPlaneShardBits == 15
ControlBase == 63488

PlaneBase(domain) == domain * 4096
PlaneOf(idx) == idx \div 4096
SlotSpan(bits) == IF bits <= 12 THEN 1 ELSE 2 ^ (bits - 12)

ValidatePlane(domain, bits) ==
  /\ domain <= MaxDomainID
  /\ bits <= 15
  /\ domain = 0 => bits <= 12
  /\ PlaneBase(domain) + 2 ^ bits <= ControlBase

(* The first and the last group of a plane.                                *)
FirstGroup(domain) == PlaneBase(domain)
LastGroup(domain, bits) == PlaneBase(domain) + 2 ^ bits - 1

withinOneBit(a, b) == IF a > b THEN a - b <= 1 ELSE b - a <= 1

validateFlags(flags) == "pilot" \in flags => "auth" \in flags

MaxBits(id) == IF id = 0 THEN MaxShardBits ELSE MaxPlaneShardBits

(* Mutant: a descriptor reserves its first slot only.                      *)
SlotsFirst(d) == {d.id}

Slots(d) == d.id .. d.id + d.span - 1

(* The rules of one descriptor, and those between two.                     *)
DescriptorOK(d, bits, gen, auth) ==
  /\ d.id <= MaxDomainID
  /\ d.bits <= MaxBits(d.id)
  /\ PlaneBase(d.id) + 2 ^ d.bits <= ControlBase
  /\ d.span >= SlotSpan(d.bits)
  /\ d.id + d.span <= MaxDomainID + 1
  /\ d.id = 0 => d.bits = bits /\ d.gen = gen
  /\ "succ" \in d.flags <=> d.succ # NoManifest
  /\ d.succ # NoManifest =>
       /\ auth
       /\ d.succ.bits <= MaxBits(d.id)
       /\ withinOneBit(d.bits, d.succ.bits)
       /\ PlaneBase(d.id) + 2 ^ d.succ.bits <= ControlBase

validateDomains(ds, bits, gen, auth) ==
  /\ Len(ds) \in 1 .. MaxDomainDescriptors
  /\ \A i \in DOMAIN ds : DescriptorOK(ds[i], bits, gen, auth)
  /\ \A i, j \in DOMAIN ds : i # j =>
       /\ ds[i].id # ds[j].id
       /\ Slots(ds[i]) \cap Slots(ds[j]) = {}

Ascending(list) == \A i \in 2 .. Len(list) : list[i] > list[i - 1]

SuccessorOK(bits, s) == s.bits <= MaxShardBits /\ withinOneBit(bits, s.bits)

(* What EncodeShardManifest checks before it writes anything.              *)
Encodable(m) ==
  /\ m.bits <= MaxShardBits
  /\ IF "groups" \in m.flags
     THEN (m.groups = <<>>) # (m.bitmap = <<>>)
     ELSE m.groups = <<>> /\ m.bitmap = <<>>
  /\ Ascending(m.groups)
  /\ "sources" \in m.flags <=> m.sources # <<>>
  /\ validateFlags(m.flags)
  /\ "succ" \in m.flags <=> m.succ # NoManifest
  /\ "succ" \in m.flags => "auth" \in m.flags /\ SuccessorOK(m.bits, m.succ)
  /\ "domains" \in m.flags <=> m.domains # <<>>
  /\ "domains" \in m.flags =>
       validateDomains(m.domains, m.bits, m.gen, "auth" \in m.flags)

Header(m) ==
  [magic |-> "BSV", type |-> "manifest", flags |-> m.flags, bits |-> m.bits,
   epoch |-> m.epoch, ttl |-> m.ttl, interval |-> m.interval, gen |-> m.gen,
   groupCount |-> IF m.bitmap # <<>> THEN 0 ELSE Len(m.groups),
   bitmapBytes |-> Len(m.bitmap), sourceCount |-> Len(m.sources), crc |-> <<>>]

DescriptorCells(d) ==
  <<[id |-> d.id, bits |-> d.bits, span |-> d.span, flags |-> d.flags, gen |-> d.gen]>>
    \o (IF d.succ # NoManifest THEN <<d.succ>> ELSE <<>>)

Cells(m) ==
  <<Header(m)>> \o (IF m.bitmap # <<>> THEN m.bitmap ELSE m.groups) \o m.sources
    \o (IF "succ" \in m.flags THEN <<m.succ>> ELSE <<>>)
    \o (IF "domains" \in m.flags
        THEN <<Len(m.domains)>>
               \o FlattenSeq([i \in DOMAIN m.domains |-> DescriptorCells(m.domains[i])])
        ELSE <<>>)

(* The checksum covers the datagram with its own field zeroed.             *)
Checksum(cells) == [cells EXCEPT ![1].crc = <<>>]
Sealed(cells) == [cells EXCEPT ![1].crc = Checksum(cells)]

EncodeShardManifest(m) == IF Encodable(m) THEN Sealed(Cells(m)) ELSE NoManifest

IsShardManifest(buf) ==
  buf # <<>> /\ buf[1].magic = "BSV" /\ buf[1].type = "manifest"

(* Mutant: a pilot need not be authoritative.                              *)
HeaderOKLoose(h) ==
  /\ h.bits <= MaxShardBits
  /\ IF "groups" \in h.flags
     THEN (h.groupCount = 0) # (h.bitmapBytes = 0)
     ELSE h.groupCount = 0 /\ h.bitmapBytes = 0
  /\ "sources" \in h.flags <=> h.sourceCount > 0
  /\ "succ" \in h.flags => "auth" \in h.flags

(* What the decoder checks of the header alone.                            *)
HeaderOK(h) ==
  /\ h.bits <= MaxShardBits
  /\ IF "groups" \in h.flags
     THEN (h.groupCount = 0) # (h.bitmapBytes = 0)
     ELSE h.groupCount = 0 /\ h.bitmapBytes = 0
  /\ "sources" \in h.flags <=> h.sourceCount > 0
  /\ validateFlags(h.flags)
  /\ "succ" \in h.flags => "auth" \in h.flags

GroupsLen(h) == IF h.bitmapBytes # 0 THEN h.bitmapBytes ELSE h.groupCount

(* The cells before the number of descriptors.                             *)
Fixed(h) ==
  1 + GroupsLen(h) + h.sourceCount + (IF "succ" \in h.flags THEN 1 ELSE 0)

DescriptorLen(d) == IF "succ" \in d.flags THEN 2 ELSE 1

(* The cells up to the end of n descriptors that follow the first "done";  *)
(* more than there are if the datagram ends before.                        *)
RECURSIVE Scan(_, _, _)
Scan(buf, done, n) ==
  IF n = 0 THEN done
  ELSE IF done >= Len(buf) THEN Len(buf) + 1
  ELSE Scan(buf, done + DescriptorLen(buf[done + 1]), n - 1)

(* The extent of the datagram that its own fields announce.                *)
Total(buf) ==
  LET fixed == Fixed(buf[1])
  IN  IF "domains" \notin buf[1].flags THEN fixed
      ELSE IF fixed >= Len(buf) THEN Len(buf) + 1
      ELSE IF buf[fixed + 1] \notin 1 .. MaxDomainDescriptors THEN Len(buf) + 1
      ELSE Scan(buf, fixed + 1, buf[fixed + 1])

RECURSIVE Descriptors(_, _, _)
Descriptors(buf, at, n) ==
  IF n = 0 THEN <<>>
  ELSE LET d == buf[at] IN LET has == "succ" \in d.flags
       IN  <<[id |-> d.id, bits |-> d.bits, span |-> d.span, flags |-> d.flags,
              gen |-> d.gen, succ |-> IF has THEN buf[at + 1] ELSE NoManifest]>>
             \o Descriptors(buf, at + (IF has THEN 2 ELSE 1), n - 1)

(* The manifest that the cells of a whole datagram spell.                  *)
Parsed(buf) ==
  LET h == buf[1]
      groups == SubSeq(buf, 2, 1 + GroupsLen(h))
      fixed == Fixed(h)
  IN  [flags |-> h.flags, bits |-> h.bits, epoch |-> h.epoch, ttl |-> h.ttl,
       interval |-> h.interval, gen |-> h.gen,
       groups |-> IF h.bitmapBytes # 0 THEN <<>> ELSE groups,
       bitmap |-> IF h.bitmapBytes # 0 THEN groups ELSE <<>>,
       sources |-> SubSeq(buf, 2 + GroupsLen(h), 1 + GroupsLen(h) + h.sourceCount),
       succ |-> IF "succ" \in h.flags THEN buf[fixed] ELSE NoManifest,
       domains |-> IF "domains" \in h.flags
                   THEN Descriptors(buf, fixed + 2, buf[fixed + 1]) ELSE <<>>]

(* What the decoder checks of the payload.                                 *)
PayloadOK(m) ==
  /\ Ascending(m.groups)
  /\ "succ" \in m.flags => SuccessorOK(m.bits, m.succ)
  /\ "domains" \in m.flags =>
       validateDomains(m.domains, m.bits, m.gen, "auth" \in m.flags)

DecodeShardManifest(buf) ==
  IF /\ IsShardManifest(buf)
     /\ HeaderOK(buf[1])
     /\ Total(buf) <= Len(buf)
     /\ buf[1].crc = Checksum(SubSeq(buf, 1, Total(buf)))
     /\ PayloadOK(Parsed(buf))
  THEN Parsed(buf) ELSE NoManifest

(* The groups that a manifest names, before its width bounds them.         *)
NamedGroups(m) ==
  IF m.groups # <<>> THEN ToSet(m.groups)
  ELSE UNION {{8 * (i - 1) + bit : bit \in m.bitmap[i]} : i \in DOMAIN m.bitmap}

SuccessorOf(s) ==
  IF s = NoManifest THEN NoManifest
  ELSE [gen |-> s.gen, bits |-> s.bits, ssm |-> "ssm" \in s.flags, epoch |-> s.epoch]

(* What a manifest says of a plane; the top level describes plane 0.       *)
Describes(m, p) ==
  LET ds == {d \in ToSet(m.domains) : d.id = p}
  IN  IF p = 0 THEN [bits |-> m.bits, ssm |-> "ssm" \in m.flags, succ |-> SuccessorOf(m.succ)]
      ELSE IF ds = {} THEN NoManifest
      ELSE LET d == CHOOSE d \in ds : TRUE
           IN  [bits |-> d.bits, ssm |-> "ssm" \in d.flags, succ |-> SuccessorOf(d.succ)]

(* The entry that the registry makes of a manifest.                        *)
EntryOf(m, planes) ==
  [auth |-> "auth" \in m.flags, pilot |-> "pilot" \in m.flags,
   shutdown |-> "shutdown" \in m.flags, stamped |-> m.epoch # 0, ttl |-> m.ttl,
   interval |-> m.interval, groups |-> NamedGroups(m), sources |-> ToSet(m.sources),
   plane |-> [p \in planes |-> Describes(m, p)]]
=============================================================================
