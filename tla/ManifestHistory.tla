-------------------------- MODULE ManifestHistory ---------------------------
(***************************************************************************)
(* The manifest evaluator with a record of what each Evaluate saw at the   *)
(* top level: for how long every one of them has found a quorum for a      *)
(* width, and how long ago one last found none for any successor.          *)
(***************************************************************************)
EXTENDS ManifestEvaluator

VARIABLES
  held,  \* by width: time since Evaluate found a quorum for it, and has since
         \* (None = the last Evaluate found none)
  since  \* time since Evaluate last found no successor with quorum

hvars == <<vars, held, since>>

HInit == InitAll /\ held = [v \in Bits |-> None] /\ since = 0

HNext ==
  \/ /\ \/ \E a \in Announcers, m \in Manifests, delay \in Delays : Receive(a, m, delay)
        \/ EvictExpired
     /\ UNCHANGED <<held, since>>
  \/ /\ Evaluate
     /\ held' = [v \in Bits |-> IF Support(0, "bits", v) < cfg.quorum THEN None
                                ELSE IF held[v] = None THEN 0 ELSE held[v]]
     /\ since' = IF Best(0, "succ") = {} THEN 0 ELSE since
  \/ /\ Tick
     /\ held' = [v \in Bits |-> Older(held[v])]
     /\ since' = Older(since)

HSpec == HInit /\ [][HNext]_hvars

(* A width is adopted at the top level only after it has held quorum for   *)
(* the whole window, in every Evaluate of it ("Hysteresis is the duration  *)
(* a candidate value must hold quorum before being adopted").              *)
HeldBeforeAdopted ==
  [][LET v == adopted'[0].bits
         w == Window(0, "bits", v)
     IN  v # adopted[0].bits /\ w > 0 => held[v] # None /\ held[v] >= w]_hvars

(* A successor is shown at the top level only when every Evaluate within   *)
(* the window has found some successor with a quorum: a withdrawal makes   *)
(* the next one wait for the whole window.                                 *)
WithdrawalRestartsWait ==
  [][LET x == out'.plane[0].succ
     IN  x # None /\ out' # out => \E v \in Best(0, "succ") : since >= Window(0, "succ", v)]_hvars
=============================================================================
