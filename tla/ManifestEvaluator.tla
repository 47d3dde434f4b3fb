------------------------- MODULE ManifestEvaluator --------------------------
(***************************************************************************)
(* The evaluator of shard manifests (src/manifest/evaluator.go and         *)
(* domains.go) over the registry: a value that enough authoritative        *)
(* announcers agree on is adopted once it has been the candidate for the   *)
(* hysteresis window.  The top level and the object planes follow the same *)
(* rules, except in what they do to a successor that loses its quorum.     *)
(*                                                                         *)
(* Evaluate takes the snapshot it evaluates: a manifest that arrives in    *)
(* between is one that arrives after Evaluate.  A map of tallies is        *)
(* iterated in any order, so any of the candidates that tie may win.       *)
(***************************************************************************)
EXTENDS ManifestRegistry

CONSTANTS
  Configs,     \* the configurations the evaluator is created with
  MaxAge       \* timers stop here, at or above every window

(* Quorum, Hysteresis (0 = twice the announce interval) and Pin: the       *)
(* widths pinned by plane and the mode pinned at the top level.            *)
Config ==
  [quorum : Nat \ {0}, hysteresis : Nat,
   pin : [Planes -> Bits \cup {None}], ssmPin : BOOLEAN \cup {None}]

ASSUME EvaluatorAssumption ==
  /\ IsFiniteSet(Announcers) /\ Announcers \subseteq Nat
  /\ Configs \subseteq Config
  /\ MaxAge \in Nat
  /\ \A c \in Configs : c.hysteresis <= MaxAge
  /\ \A m \in Manifests : 2 * m.interval <= MaxAge

VARIABLES
  cfg,      \* e.cfg
  timers,   \* how long ago each candidate was first seen with quorum
  adopted,  \* e.adopted: what the evaluator remembers of each plane
  out       \* what the last Evaluate returned

vars == <<entries, cfg, timers, adopted, out>>

View == [bits : Bits \cup {0}, ssm : BOOLEAN, succ : Successors \cup {None}]
NoView == [bits |-> 0, ssm |-> FALSE, succ |-> None]

(* The values a field can take, and the timers of the values of a plane.   *)
Values == [bits |-> Bits, ssm |-> BOOLEAN, succ |-> Successors]
Age == 0..MaxAge \cup {None}
Timers == [bits : [Bits -> Age], ssm : [BOOLEAN -> Age], succ : [Successors -> Age]]
NoTimers ==
  [bits |-> [v \in Bits |-> None], ssm |-> [v \in BOOLEAN |-> None],
   succ |-> [v \in Successors |-> None]]

InitAll ==
  /\ Init
  /\ cfg \in Configs
  /\ timers = [p \in Planes |-> NoTimers]
  /\ adopted = [p \in Planes |-> NoView]
  /\ out = [plane |-> [p \in Planes |-> NoView], groups |-> {}, sources |-> {}]

-----------------------------------------------------------------------------
(* The tally of a field.                                                   *)
Authoritative == {a \in Held : entries[a].manifest.auth}

Describing(p) == {a \in Authoritative : entries[a].manifest.plane[p] # None}

Supporters(p, f, v) == {a \in Describing(p) : entries[a].manifest.plane[p][f] = v}

Support(p, f, v) == Cardinality(Supporters(p, f, v))

(* Mutant: the quorum is not asked for.                                    *)
BestWithoutQuorum(p, f) ==
  {v \in Values[f] :
     /\ Support(p, f, v) > 0
     /\ \A w \in Values[f] : Support(p, f, w) <= Support(p, f, v)}

(* bestCandidate: the values with most support, if it makes the quorum.    *)
Best(p, f) ==
  {v \in Values[f] :
     /\ Support(p, f, v) >= cfg.quorum
     /\ \A w \in Values[f] : Support(p, f, w) <= Support(p, f, v)}

(* A pin settles its field at the top level, and all of an object plane.   *)
Pinned(p, f) ==
  IF p = 0 /\ f = "ssm" THEN cfg.ssmPin # None
  ELSE cfg.pin[p] # None /\ (p # 0 \/ f = "bits")

Candidates(p, f) ==
  LET best == Best(p, f)
  IN  IF Pinned(p, f) \/ best = {} THEN {None} ELSE best

(* The ways in which the tallies of all planes can come out.               *)
Choices(f) ==
  {c \in [Planes -> UNION {Candidates(p, f) : p \in Planes}] :
     \A p \in Planes : c[p] \in Candidates(p, f)}

(* The exemplar of a tally is the first of its announcers.                 *)
Exemplar(S) == CHOOSE a \in S : \A c \in S : a <= c

(* hysteresisElapsed: the window is that of the exemplar; on first sight   *)
(* only an empty one has elapsed.                                          *)
Window(p, f, v) ==
  IF cfg.hysteresis # 0 THEN cfg.hysteresis
  ELSE 2 * entries[Exemplar(Supporters(p, f, v))].manifest.interval

Elapsed(p, f, v) ==
  IF timers[p][f][v] = None THEN Window(p, f, v) = 0
  ELSE timers[p][f][v] >= Window(p, f, v)

(* Mutant: the first sight of a candidate is not recorded.                 *)
TimedNever(p, f, v) == timers[p][f]

(* Its other half: the first sight of a candidate starts its timer.  The   *)
(* timer of a successor is its tuple's own; in the code it is that of the  *)
(* tuple's successorHash, which is taken to tell the tuples apart.         *)
Timed(p, f, v) ==
  IF v # None /\ timers[p][f][v] = None THEN [timers[p][f] EXCEPT ![v] = 0]
  ELSE timers[p][f]

(* The value that a field is left with.                                    *)
Settled(p, f, v) == IF v # None /\ Elapsed(p, f, v) THEN v ELSE adopted[p][f]

-----------------------------------------------------------------------------
(* The width that is returned for candidate b.                             *)
Width(p, b) == IF cfg.pin[p] # None THEN cfg.pin[p] ELSE Settled(p, "bits", b)

(* Mutant: the decoder's check of the announced width is relied on.        *)
EligibleAny(p, b, x) == x # None

(* A successor is considered only within a bit of that width.              *)
Eligible(p, b, x) == x # None /\ Near(Width(p, b), x.bits)

(* The successor is withdrawn when none has a quorum; on an object plane   *)
(* only when the announcers that describe it name none at all.             *)
Withdrawn(p, x) ==
  /\ x = None
  /\ p # 0 => /\ cfg.pin[p] = None
              /\ Describing(p) # {}
              /\ Describing(p) = Supporters(p, "succ", None)

(* A successor replaces the one adopted unless it has its GenerationID.    *)
NextSuccessor(p, b, x) ==
  LET old == adopted[p].succ
  IN  IF Withdrawn(p, x) THEN None
      ELSE IF /\ Eligible(p, b, x) /\ Elapsed(p, "succ", x)
              /\ old = None \/ old.gen # x.gen
      THEN x ELSE old

(* Mutant: the timer of a successor outlives its withdrawal.               *)
SuccessorTimersKept(p, b, x) ==
  IF Eligible(p, b, x) THEN Timed(p, "succ", x) ELSE timers[p].succ

SuccessorTimers(p, b, x) ==
  IF Withdrawn(p, x) THEN NoTimers.succ
  ELSE IF Eligible(p, b, x) THEN Timed(p, "succ", x) ELSE timers[p].succ

(* What Evaluate remembers of a plane, what it returns and what it makes   *)
(* of the timers when the candidates are b, s and x.  The top level shows  *)
(* its successor only while it is the candidate, and a width pinned there  *)
(* is not remembered.                                                      *)
Remembered(p, b, s, x) ==
  [bits |-> IF p = 0 THEN Settled(p, "bits", b) ELSE Width(p, b),
   ssm |-> Settled(p, "ssm", s), succ |-> NextSuccessor(p, b, x)]

Returned(p, b, s, x) ==
  [bits |-> Width(p, b),
   ssm |-> IF p = 0 /\ cfg.ssmPin # None THEN cfg.ssmPin ELSE Settled(p, "ssm", s),
   succ |-> IF p # 0 \/ (Eligible(p, b, x) /\ Elapsed(p, "succ", x))
            THEN NextSuccessor(p, b, x) ELSE None]

Retimed(p, b, s, x) ==
  [bits |-> Timed(p, "bits", b), ssm |-> Timed(p, "ssm", s),
   succ |-> SuccessorTimers(p, b, x)]

PilotGroups ==
  UNION {expandGroups(entries[a].manifest) :
           a \in {c \in Authoritative : entries[c].manifest.pilot}}

SourceSet == UNION {entries[a].manifest.sources : a \in Held}

Evaluate ==
  /\ UNCHANGED <<entries, cfg>>
  /\ \E b \in Choices("bits"), s \in Choices("ssm"), x \in Choices("succ") :
       /\ adopted' = [p \in Planes |-> Remembered(p, b[p], s[p], x[p])]
       /\ timers' = [p \in Planes |-> Retimed(p, b[p], s[p], x[p])]
       /\ out' = [plane |-> [p \in Planes |-> Returned(p, b[p], s[p], x[p])],
                  groups |-> PilotGroups, sources |-> SourceSet]

Receive(a, m, delay) ==
  Upsert(a, m, delay) /\ UNCHANGED <<cfg, timers, adopted, out>>

EvictExpired == Evict /\ UNCHANGED <<cfg, timers, adopted, out>>

Older(t) == IF t = None THEN None ELSE IF t < MaxAge THEN t + 1 ELSE t

Tick ==
  /\ entries' = Aged
  /\ timers' = [p \in Planes |->
                 [bits |-> [v \in Bits |-> Older(timers[p].bits[v])],
                  ssm  |-> [v \in BOOLEAN |-> Older(timers[p].ssm[v])],
                  succ |-> [v \in Successors |-> Older(timers[p].succ[v])]]]
  /\ UNCHANGED <<cfg, adopted, out>>

Next ==
  \/ \E a \in Announcers, m \in Manifests, delay \in Delays : Receive(a, m, delay)
  \/ EvictExpired
  \/ Evaluate
  \/ Tick

Spec == InitAll /\ [][Next]_vars

(* Evaluate is called on a timer.                                          *)
FairSpec == Spec /\ WF_vars(Evaluate) /\ WF_vars(Tick)

-----------------------------------------------------------------------------
(* The types of the variables.                                             *)
TypeOK ==
  /\ entries \in [Announcers -> Entry \cup {None}]
  /\ cfg \in Configs
  /\ timers \in [Planes -> Timers]
  /\ adopted \in [Planes -> View]
  /\ out \in [plane : [Planes -> View], groups : SUBSET Nat, sources : SUBSET STRING]

(* Evaluate moves a plane to another width or mode only if a quorum of     *)
(* authoritative announcers hold it and no value has more of them, or the  *)
(* width is pinned; otherwise it keeps what it adopted.                    *)
Supported(p, f, v) ==
  /\ Support(p, f, v) >= cfg.quorum
  /\ \A w \in Values[f] : Support(p, f, w) <= Support(p, f, v)
AdoptionStep(p) ==
  /\ adopted'[p].bits # adopted[p].bits =>
       \/ p # 0 /\ adopted'[p].bits = cfg.pin[p]
       \/ Supported(p, "bits", adopted'[p].bits)
  /\ adopted'[p].ssm # adopted[p].ssm => Supported(p, "ssm", adopted'[p].ssm)
AdoptionNeedsQuorum == [][\A p \in Planes : AdoptionStep(p)]_vars

(* A successor that Evaluate adopts is at most one bit from the width it   *)
(* returns with it, also when that width is pinned.                        *)
SuccessorStep(p) ==
  adopted'[p].succ \notin {None, adopted[p].succ} =>
    Near(out'.plane[p].bits, adopted'[p].succ.bits)
SuccessorNear == [][\A p \in Planes : SuccessorStep(p)]_vars

(* A successor that Evaluate returns for the top level has a quorum for    *)
(* its whole tuple ("quorum is computed on the tuple (GenerationID,        *)
(* ShardBits, SourceModeSSM, TransitionEpoch)").                           *)
SuccessorHasQuorum ==
  [][LET x == out'.plane[0].succ
     IN  x # None /\ out' # out => Support(0, "succ", x) >= cfg.quorum]_vars

(* Announcers that go on agreeing on a width get it adopted at the top     *)
(* level, unless it is pinned.                                             *)
Converges ==
  \A v \in Bits :
    /\ cfg.pin[0] = None
    /\ <>[](Supporters(0, "bits", v) = Authoritative /\ Support(0, "bits", v) >= cfg.quorum)
    => <>[](out.plane[0].bits = v)
=============================================================================
