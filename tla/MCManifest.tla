----------------------------- MODULE MCManifest -----------------------------
(***************************************************************************)
(* Small instances of the manifest registry and evaluator.                 *)
(***************************************************************************)
EXTENDS ManifestFlow

CONSTANT Kinds

AllPlanes == {0, 1}

Block(b, e) == [gen |-> "g1", bits |-> b, flags |-> {}, epoch |-> e]
AllSuccessors == {SuccessorOf(Block(2, 1)), SuccessorOf(Block(2, 2))}
OneSuccessor == {SuccessorOf(Block(2, 1))}

(* A manifest with nothing but a width, and the parts to add to it.        *)
Plain(b) ==
  [flags |-> {"auth"}, bits |-> b, epoch |-> 1, ttl |-> 1, interval |-> 0, gen |-> "g0",
   groups |-> <<>>, bitmap |-> <<>>, sources |-> <<>>, succ |-> None, domains |-> <<>>]
With(m, flags) == [m EXCEPT !.flags = @ \cup flags]
Succeeded(m, x) == [With(m, {"succ"}) EXCEPT !.succ = x]
Planed(m, ds) == [With(m, {"domains"}) EXCEPT !.domains = ds]

Plane(id, b, span, x) ==
  [id |-> id, bits |-> b, span |-> span, gen |-> "g0", succ |-> x,
   flags |-> (IF x = None THEN {} ELSE {"succ"}) \cup (IF b = 4 THEN {"ssm"} ELSE {})]

Pilot(b) ==
  [With(Plain(b), {"pilot", "groups", "sources"} \cup (IF b = 4 THEN {"ssm"} ELSE {})) EXCEPT
     !.groups = <<1, 3>>, !.sources = <<"s1">>]

(* What the announcers send, and what their receivers make of it.          *)
ByKind ==
  [wide     |-> [Planed(Pilot(4), <<Plane(1, 4, 1, None)>>) EXCEPT !.epoch = 0, !.ttl = 0],
   succ     |-> Planed(Succeeded(Pilot(1), Block(2, 1)), <<Plane(1, 1, 1, Block(2, 1))>>),
   later    |-> Succeeded(Pilot(1), Block(2, 2)),
   bye      |-> With(Pilot(1), {"shutdown"}),
   listener |-> [Pilot(1) EXCEPT !.flags = @ \ {"auth", "pilot"}]]

SomeManifests ==
  {EntryOf(DecodeShardManifest(EncodeShardManifest(ByKind[k])), AllPlanes) : k \in Kinds}

(* Manifests for the wire: all payloads with all flags, descriptors at the *)
(* limits of their fields, and pairs of descriptors that meet or overlap.  *)
Payloads ==
  {[Plain(b) EXCEPT !.flags = flags, !.groups = groups, !.bitmap = bitmap,
                    !.sources = sources, !.succ = x] :
     flags \in SUBSET {"auth", "pilot", "groups", "sources"},
     groups \in {<<>>, <<1, 3>>, <<3, 1>>, <<2, 2>>}, bitmap \in {<<>>, <<{0}, {7}>>},
     sources \in {<<>>, <<"s1", "s2">>}, x \in {None, Block(2, 1)}, b \in {12, 13}}

Succeeding ==
  {[Succeeded(Plain(b), Block(c, 1)) EXCEPT !.flags = @ \ off] :
     b \in 0 .. 13, c \in 0 .. 14, off \in {{}, {"auth"}}}

AtLimits ==
  {Planed(Plain(12), <<Plane(id, b, span, x)>>) :
     id \in {0, 1, 7, 12, 13, 14, 15}, b \in {0, 11, 12, 13, 15, 16}, span \in {0, 1, 2, 8},
     x \in {None} \cup {Block(c, 1) : c \in {0, 2, 11, 12, 13, 14, 16}}}

Unentitled ==
  {[Planed(Plain(12), <<[Plane(id, 12, 1, x) EXCEPT !.gen = gen]>>) EXCEPT !.flags = @ \ off] :
     id \in {0, 1}, x \in {None, Block(12, 1)}, gen \in {"g0", "g1"}, off \in {{}, {"auth"}}}

Pairs ==
  {Planed(Plain(12), <<Plane(i, b, s, x), Plane(j, c, t, y)>>) :
     i \in {0, 1, 2}, j \in {1, 2, 3, 7}, b \in {12, 13}, c \in {12, 14, 15},
     s \in {1, 2, 3}, t \in {1, 4, 8}, x \in {None, Block(12, 1)}, y \in {None, Block(13, 1)}}

SomeSamples ==
  {ByKind[k] : k \in DOMAIN ByKind} \cup Payloads \cup Succeeding \cup AtLimits
    \cup Unentitled \cup Pairs
    \cup {Planed(Plain(12), [i \in 1 .. n |-> Plane(i - 1, 12, 1, None)]) : n \in 0 .. 16}

Configured(quorum, hysteresis, top, other) ==
  [quorum |-> quorum, hysteresis |-> hysteresis,
   pin |-> [p \in AllPlanes |-> IF p = 0 THEN top ELSE other], ssmPin |-> None]

(* Two announcers that must agree, with and without the top level pinned;  *)
(* and one that is enough at once, with the object plane pinned.           *)
SomeConfigs ==
  {Configured(2, 1, None, None), Configured(2, 1, 4, None),
   [Configured(1, 0, None, 1) EXCEPT !.ssmPin = TRUE]}
=============================================================================
