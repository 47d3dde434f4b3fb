---------------------------- MODULE ManifestFlow ----------------------------
(***************************************************************************)
(* Shard manifests from the announcer to the evaluator.  A behaviour       *)
(* follows either the evaluator, whose manifests have been through the     *)
(* codec (nothing is on the wire), or a single datagram on its way: what   *)
(* an announcer wrote, or another program that checks nothing, is cut      *)
(* short, damaged, or followed by other bytes.                             *)
(***************************************************************************)
EXTENDS ManifestHistory, ManifestWire

CONSTANTS
  Samples,  \* the manifests to put on the wire
  Junk      \* a damaged cell

VARIABLE wire  \* the datagram, what it was made of, and whether it is intact

fvars == <<hvars, wire>>

FInit ==
  /\ HInit
  /\ \/ wire = None
     \/ /\ cfg = CHOOSE c \in Configs : TRUE
        /\ wire \in {[sent |-> m, cells |-> Sealed(Cells(m)), intact |-> TRUE] : m \in Samples}

Flying == wire # None /\ wire.intact /\ wire.cells = EncodeShardManifest(wire.sent)

Truncate ==
  /\ Flying
  /\ \E n \in 0 .. Len(wire.cells) - 1 :
       wire' = [wire EXCEPT !.cells = SubSeq(@, 1, n), !.intact = FALSE]
  /\ UNCHANGED hvars

(* Of a cell that is a record, the generation is damaged.                  *)
Damage ==
  /\ Flying
  /\ LET h == wire.cells[1]
     IN  \E i \in DOMAIN wire.cells :
           wire' = IF i = 1 \/ i > Fixed(h) + 1 \/ (i = Fixed(h) /\ "succ" \in h.flags)
                   THEN [wire EXCEPT !.cells[i].gen = Junk, !.intact = FALSE]
                   ELSE [wire EXCEPT !.cells[i] = Junk, !.intact = FALSE]
  /\ UNCHANGED hvars

Trail ==
  /\ Flying
  /\ wire' = [wire EXCEPT !.cells = Append(@, Junk)]
  /\ UNCHANGED hvars

FNext ==
  \/ wire = None /\ HNext /\ UNCHANGED wire
  \/ Truncate \/ Damage \/ Trail

FSpec == FInit /\ [][FNext]_fvars

FFairSpec ==
  FSpec /\ WF_vars(wire = None /\ Evaluate) /\ WF_vars(wire = None /\ Tick)

-----------------------------------------------------------------------------
(* DecodeShardManifest returns exactly what EncodeShardManifest was given, *)
(* whatever follows the datagram; nothing of a datagram that was cut short *)
(* or damaged anywhere; and never a manifest that the encoder refuses,     *)
(* whoever wrote it.                                                       *)
WireFaithful ==
  wire # None =>
    IF ~Encodable(wire.sent) THEN DecodeShardManifest(wire.cells) # wire.sent
    ELSE DecodeShardManifest(wire.cells) = IF wire.intact THEN wire.sent ELSE NoManifest

(* In a manifest that the decoder lets through, the groups of each plane   *)
(* lie in slots that no other plane of it reserves and below the control   *)
(* plane, so the slot of a group tells its plane; and NewPlane accepts     *)
(* what the manifest says of the plane.                                    *)
PlanesApart ==
  wire # None => \A got \in {DecodeShardManifest(wire.cells)} \ {NoManifest} :
    \A i \in DOMAIN got.domains :
      LET d == got.domains[i]
          used == PlaneOf(FirstGroup(d.id)) .. PlaneOf(LastGroup(d.id, d.bits))
      IN  /\ ValidatePlane(d.id, d.bits)
          /\ LastGroup(d.id, d.bits) < ControlBase
          /\ \A j \in DOMAIN got.domains \ {i} :
               LET e == got.domains[j]
               IN  used \cap (e.id .. e.id + e.span - 1) = {}
=============================================================================
