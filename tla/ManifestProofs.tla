-------------------------- MODULE ManifestProofs ----------------------------
(***************************************************************************)
(* Proofs about the manifest registry and evaluator: the types of their    *)
(* state, the two rules of adoption and the wait of a successor, for any   *)
(* announcers, manifests, planes and configurations.                       *)
(***************************************************************************)
EXTENDS ManifestHistory, FiniteSetTheorems, WellFoundedInduction, TLAPS

(* A candidate of Evaluate is none at all, or a value with a quorum and    *)
(* the most support.                                                       *)
LEMMA CandidateSupported ==
  ASSUME NEW f, NEW c \in Choices(f), NEW p \in Planes, c[p] # None
  PROVE  c[p] \in Values[f] /\ Supported(p, f, c[p])
<1>1. c[p] \in Candidates(p, f)
  BY DEF Choices
<1>2. c[p] \in Best(p, f)
  BY <1>1 DEF Candidates
<1> QED  BY <1>2 DEF Best, Supported

(* The lifetime an entry has left is a number.                             *)
LEMMA LeftType ==
  ASSUME NEW m \in Manifests, NEW delay \in Delays
  PROVE  Left(m, delay) \in Nat
<1>1. Life(m) \in Nat
  BY ManifestAssumption DEF Life, Manifest
<1>2. delay \in Int
  BY ManifestAssumption
<1> QED  BY <1>1, <1>2 DEF Left

(* A timer that starts keeps the timers of its field typed.                *)
LEMMA TimedType ==
  ASSUME TypeOK, NEW p \in Planes
  PROVE  /\ \A v : timers[p].bits \in [Bits -> Age] /\ Timed(p, "bits", v) \in [Bits -> Age]
         /\ \A v : timers[p].ssm \in [BOOLEAN -> Age] /\ Timed(p, "ssm", v) \in [BOOLEAN -> Age]
         /\ \A v : timers[p].succ \in [Successors -> Age] /\ Timed(p, "succ", v) \in [Successors -> Age]
<1>1. timers[p] \in Timers
  BY DEF TypeOK
<1>2. 0 \in Age
  BY EvaluatorAssumption DEF Age
<1> QED  BY <1>1, <1>2, Zenon DEF Timers, Timed

(* What Evaluate settles on for a width and for a mode.                    *)
LEMMA SettledType ==
  ASSUME TypeOK, NEW p \in Planes, NEW b \in Choices("bits"), NEW s \in Choices("ssm")
  PROVE  /\ Settled(p, "bits", b[p]) \in Bits \cup {0}
         /\ Settled(p, "ssm", s[p]) \in BOOLEAN
         /\ Width(p, b[p]) \in Bits \cup {0}
<1>1. adopted[p].bits \in Bits \cup {0} /\ adopted[p].ssm \in BOOLEAN
  BY DEF TypeOK, View
<1>2. b[p] # None => b[p] \in Bits
  BY CandidateSupported DEF Values
<1>3. s[p] # None => s[p] \in BOOLEAN
  BY CandidateSupported DEF Values
<1>4. Settled(p, "bits", b[p]) \in Bits \cup {0}
  BY <1>1, <1>2 DEF Settled
<1>5. Settled(p, "ssm", s[p]) \in BOOLEAN
  BY <1>1, <1>3 DEF Settled
<1>6. cfg.pin[p] # None => cfg.pin[p] \in Bits
  BY EvaluatorAssumption DEF TypeOK, Config
<1> QED  BY <1>4, <1>5, <1>6 DEF Width

(* The successor that Evaluate goes on with.                               *)
LEMMA SuccessorType ==
  ASSUME TypeOK, NEW p \in Planes, NEW b, NEW x \in Choices("succ")
  PROVE  NextSuccessor(p, b, x[p]) \in Successors \cup {None}
<1>1. adopted[p].succ \in Successors \cup {None}
  BY DEF TypeOK, View
<1>2. x[p] # None => x[p] \in Successors
  BY CandidateSupported DEF Values
<1> QED  BY <1>1, <1>2 DEF NextSuccessor, Eligible

(* Evaluate keeps the types of what it remembers and returns.              *)
LEMMA EvaluateTyped ==
  ASSUME TypeOK, Evaluate
  PROVE  TypeOK'
<1>1. PICK b \in Choices("bits"), s \in Choices("ssm"), x \in Choices("succ") :
        /\ adopted' = [p \in Planes |-> Remembered(p, b[p], s[p], x[p])]
        /\ timers' = [p \in Planes |-> Retimed(p, b[p], s[p], x[p])]
        /\ out' = [plane |-> [p \in Planes |-> Returned(p, b[p], s[p], x[p])],
                   groups |-> PilotGroups, sources |-> SourceSet]
  BY Zenon DEF Evaluate
<1>2. UNCHANGED <<entries, cfg>>
  BY DEF Evaluate
<1>3. ASSUME NEW p \in Planes
      PROVE  Remembered(p, b[p], s[p], x[p]) \in View
  BY SettledType, SuccessorType DEF Remembered, View
<1>4. ASSUME NEW p \in Planes
      PROVE  Returned(p, b[p], s[p], x[p]) \in View
  <2>1. cfg.ssmPin # None => cfg.ssmPin \in BOOLEAN
    BY EvaluatorAssumption DEF TypeOK, Config
  <2> QED  BY <2>1, SettledType, SuccessorType DEF Returned, View
<1>5. ASSUME NEW p \in Planes
      PROVE  Retimed(p, b[p], s[p], x[p]) \in Timers
  <2>1. SuccessorTimers(p, b[p], x[p]) \in [Successors -> Age]
    BY TimedType DEF SuccessorTimers, NoTimers, Age
  <2> QED  BY <2>1, TimedType DEF Retimed, Timers
<1>6. PilotGroups \in SUBSET Nat
  <2>1. ASSUME NEW a \in Held PROVE expandGroups(entries[a].manifest) \subseteq Nat
    BY ManifestAssumption DEF TypeOK, Held, Entry, Manifest, expandGroups
  <2> QED  BY <2>1 DEF PilotGroups, Authoritative
<1>7. SourceSet \in SUBSET STRING
  <2>1. ASSUME NEW a \in Held PROVE entries[a].manifest.sources \subseteq STRING
    BY ManifestAssumption DEF TypeOK, Held, Entry, Manifest
  <2> QED  BY <2>1 DEF SourceSet
<1>8. adopted' \in [Planes -> View]
  BY <1>1, <1>3
<1>9. timers' \in [Planes -> Timers]
  BY <1>1, <1>5
<1>10. [p \in Planes |-> Returned(p, b[p], s[p], x[p])] \in [Planes -> View]
  BY <1>4
<1> QED  BY <1>1, <1>2, <1>6, <1>7, <1>8, <1>9, <1>10 DEF TypeOK

(* Every step keeps the types.                                             *)
LEMMA StepTyped ==
  ASSUME TypeOK, [Next]_vars
  PROVE  TypeOK'
<1>1. ASSUME NEW a \in Announcers, NEW m \in Manifests, NEW delay \in Delays, Receive(a, m, delay)
      PROVE  TypeOK'
  <2>1. [manifest |-> m, left |-> Left(m, delay)] \in Entry
    BY LeftType DEF Entry
  <2>2. entries' \in [Announcers -> Entry \cup {None}]
    BY <1>1, <2>1 DEF Receive, Upsert, TypeOK
  <2> QED  BY <1>1, <2>2 DEF Receive, TypeOK
<1>2. CASE EvictExpired
  BY <1>2 DEF EvictExpired, Evict, TypeOK
<1>3. CASE Evaluate
  BY <1>3, EvaluateTyped
<1>4. CASE Tick
  <2>1. ASSUME NEW t \in Age PROVE Older(t) \in Age
    BY EvaluatorAssumption DEF Older, Age
  <2>2. ASSUME NEW p \in Planes
        PROVE  [bits |-> [v \in Bits |-> Older(timers[p].bits[v])],
                ssm  |-> [v \in BOOLEAN |-> Older(timers[p].ssm[v])],
                succ |-> [v \in Successors |-> Older(timers[p].succ[v])]] \in Timers
    BY <2>1, TimedType DEF Timers
  <2>3. timers' \in [Planes -> Timers]
    BY <1>4, <2>2 DEF Tick
  <2>4. ASSUME NEW a \in Announcers PROVE Aged[a] \in Entry \cup {None}
    BY DEF Aged, Held, Entry, TypeOK
  <2>5. entries' \in [Announcers -> Entry \cup {None}]
    BY <1>4, <2>4 DEF Tick, Aged
  <2> QED  BY <1>4, <2>3, <2>5 DEF Tick, TypeOK
<1>5. CASE UNCHANGED vars
  BY <1>5 DEF vars, TypeOK
<1> QED  BY <1>1, <1>2, <1>3, <1>4, <1>5 DEF Next

(* The registry's entries, the timers and the adopted views keep their     *)
(* types, whatever arrives.                                                *)
THEOREM EvaluatorTypeCorrect == Spec => []TypeOK
<1>1. InitAll => TypeOK
  <2> SUFFICES ASSUME InitAll PROVE TypeOK
    OBVIOUS
  <2>1. NoView \in View
    BY DEF NoView, View
  <2>2. NoTimers \in Timers
    BY DEF NoTimers, Timers, Age
  <2> QED  BY <2>1, <2>2 DEF InitAll, Init, TypeOK
<1> QED  BY <1>1, StepTyped, PTL DEF Spec

(* Only a quorum with the most support, or a pin, changes the width or the *)
(* mode that a plane has adopted.                                          *)
THEOREM OnlyQuorumAdopts == Spec => AdoptionNeedsQuorum
<1>1. ASSUME TypeOK, [Next]_vars
      PROVE  [\A p \in Planes : AdoptionStep(p)]_vars
  <2> SUFFICES ASSUME NEW p \in Planes, adopted' # adopted PROVE AdoptionStep(p)
    BY DEF AdoptionStep
  <2>1. Evaluate
    BY <1>1 DEF Next, Receive, EvictExpired, Tick, vars
  <2>2. PICK b \in Choices("bits"), s \in Choices("ssm"), x \in Choices("succ") :
          adopted' = [q \in Planes |-> Remembered(q, b[q], s[q], x[q])]
    BY <2>1 DEF Evaluate
  <2>3. adopted'[p] = Remembered(p, b[p], s[p], x[p])
    BY <2>2
  <2>4. adopted'[p].ssm = Settled(p, "ssm", s[p])
    BY <2>3 DEF Remembered
  <2>5. adopted'[p].ssm # adopted[p].ssm => Supported(p, "ssm", adopted'[p].ssm)
    BY <2>4, CandidateSupported DEF Settled
  <2>6. \/ p # 0 /\ adopted'[p].bits = cfg.pin[p]
        \/ adopted'[p].bits = Settled(p, "bits", b[p])
    BY <2>3 DEF Remembered, Width
  <2>7. adopted'[p].bits = Settled(p, "bits", b[p]) /\ adopted'[p].bits # adopted[p].bits
          => Supported(p, "bits", adopted'[p].bits)
    BY CandidateSupported DEF Settled
  <2> QED  BY <2>5, <2>6, <2>7 DEF AdoptionStep
<1> QED  BY <1>1, EvaluatorTypeCorrect, PTL DEF Spec, AdoptionNeedsQuorum

(* A successor is adopted only within one bit of the width that Evaluate   *)
(* returns in the same call.                                               *)
THEOREM SuccessorAlwaysNear == Spec => SuccessorNear
<1>1. ASSUME TypeOK, [Next]_vars
      PROVE  [\A p \in Planes : SuccessorStep(p)]_vars
  <2> SUFFICES ASSUME NEW p \in Planes, adopted' # adopted PROVE SuccessorStep(p)
    BY DEF SuccessorStep
  <2>1. Evaluate
    BY <1>1 DEF Next, Receive, EvictExpired, Tick, vars
  <2>2. PICK b \in Choices("bits"), s \in Choices("ssm"), x \in Choices("succ") :
          /\ adopted' = [q \in Planes |-> Remembered(q, b[q], s[q], x[q])]
          /\ out' = [plane |-> [q \in Planes |-> Returned(q, b[q], s[q], x[q])],
                     groups |-> PilotGroups, sources |-> SourceSet]
    BY <2>1, Zenon DEF Evaluate
  <2>3. adopted'[p].succ = NextSuccessor(p, b[p], x[p])
    BY <2>2 DEF Remembered
  <2>4. out'.plane[p].bits = Width(p, b[p])
    BY <2>2 DEF Returned
  <2>5. ASSUME NextSuccessor(p, b[p], x[p]) \notin {None, adopted[p].succ}
        PROVE  Near(Width(p, b[p]), NextSuccessor(p, b[p], x[p]).bits)
    BY <2>5 DEF NextSuccessor, Eligible
  <2> QED  BY <2>3, <2>4, <2>5 DEF SuccessorStep
<1> QED  BY <1>1, EvaluatorTypeCorrect, PTL DEF Spec, SuccessorNear

-----------------------------------------------------------------------------
(* The wait of a successor.  Its timer never shows more time than has      *)
(* passed since the last withdrawal.                                       *)
TimersSince ==
  /\ since \in 0..MaxAge
  /\ \A v \in Successors : timers[0].succ[v] # None => timers[0].succ[v] <= since

(* A set of announcers has a first one.                                    *)
LEMMA ExemplarExists ==
  ASSUME NEW S, S \subseteq Announcers, S # {}
  PROVE  Exemplar(S) \in S
<1>1. S \subseteq Nat
  BY EvaluatorAssumption
<1>2. PICK a \in S : \A c \in S : <<c, a>> \notin OpToRel(<, Nat)
  BY <1>1, NatLessThanWellFounded, WFMin, Zenon
<1>3. ASSUME NEW c \in S, c < a PROVE FALSE
  <2>1. <<c, a>> \in {ss \in Nat \X Nat : ss[1] < ss[2]}
    BY <1>1, <1>3
  <2>2. <<c, a>> \in OpToRel(<, Nat)
    BY <2>1, Zenon DEF OpToRel
  <2> QED  BY <1>2, <2>2, Zenon
<1>4. \A c \in S : a <= c
  BY <1>1, <1>3
<1> QED  BY <1>4 DEF Exemplar

(* The window of a successor with a quorum is a number.                    *)
LEMMA WindowType ==
  ASSUME TypeOK, NEW v \in Best(0, "succ")
  PROVE  Window(0, "succ", v) \in Nat
<1> DEFINE S == Supporters(0, "succ", v)
<1>1. S \subseteq Held /\ Held \subseteq Announcers
  BY DEF Supporters, Describing, Authoritative, Held
<1>2. cfg.quorum \in Nat \ {0} /\ cfg.hysteresis \in Nat
  BY EvaluatorAssumption DEF TypeOK, Config
<1>3. Cardinality(S) >= cfg.quorum
  BY DEF Best, Support
<1>4. S # {}
  BY <1>2, <1>3, FS_EmptySet
<1>5. Exemplar(S) \in Held
  BY <1>1, <1>4, ExemplarExists
<1>6. entries[Exemplar(S)] \in Entry
  BY <1>1, <1>5 DEF Held, TypeOK
<1>7. entries[Exemplar(S)].manifest.interval \in Nat
  BY <1>6, ManifestAssumption DEF Entry, Manifest
<1> QED  BY <1>2, <1>7 DEF Window

(* Recording the history takes nothing away from the evaluator.            *)
LEMMA HistoryStep ==
  [HNext]_hvars => [Next]_vars
BY DEF HNext, hvars, Next

(* Every step keeps the timers within the time since the last withdrawal.  *)
LEMMA TimersSinceKept ==
  ASSUME TypeOK, TimersSince, [HNext]_hvars
  PROVE  TimersSince'
<1>0. 0 \in Planes
  BY ManifestAssumption
<1>1. CASE UNCHANGED <<timers, since>>
  BY <1>1 DEF TimersSince
<1>2. CASE Evaluate /\ since' = IF Best(0, "succ") = {} THEN 0 ELSE since
  <2>1. PICK b \in Choices("bits"), s \in Choices("ssm"), x \in Choices("succ") :
          timers' = [p \in Planes |-> Retimed(p, b[p], s[p], x[p])]
    BY <1>2 DEF Evaluate
  <2>2. timers'[0].succ = SuccessorTimers(0, b[0], x[0])
    BY <1>0, <2>1 DEF Retimed
  <2>3. x[0] \in Candidates(0, "succ")
    BY <1>0 DEF Choices
  <2>4. CASE Best(0, "succ") = {}
    <3>1. x[0] = None
      BY <2>3, <2>4 DEF Candidates
    <3>2. timers'[0].succ = [v \in Successors |-> None]
      BY <2>2, <3>1 DEF SuccessorTimers, Withdrawn, NoTimers
    <3> QED  BY <1>2, <2>4, <3>2, EvaluatorAssumption DEF TimersSince
  <2>5. CASE Best(0, "succ") # {}
    <3>1. x[0] \in Best(0, "succ")
      BY <2>3, <2>5 DEF Candidates, Pinned
    <3>2. x[0] \in Successors /\ x[0] # None
      BY <3>1, ManifestAssumption DEF Best, Values
    <3>3. timers'[0].succ \in {timers[0].succ, [timers[0].succ EXCEPT ![x[0]] = 0]}
      BY <2>2, <3>2 DEF SuccessorTimers, Withdrawn, Timed
    <3>4. timers[0].succ \in [Successors -> Age]
      BY <1>0, TimedType
    <3> QED  BY <1>2, <2>5, <3>3, <3>4, EvaluatorAssumption DEF TimersSince
  <2> QED  BY <2>4, <2>5
<1>3. CASE Tick /\ since' = Older(since)
  <2>1. timers'[0].succ = [v \in Successors |-> Older(timers[0].succ[v])]
    BY <1>0, <1>3 DEF Tick
  <2>2. timers[0].succ \in [Successors -> Age]
    BY <1>0, TimedType
  <2>3. since \in 0..MaxAge /\ since # None
    BY ManifestAssumption, EvaluatorAssumption DEF TimersSince
  <2>4. ASSUME NEW v \in Successors, Older(timers[0].succ[v]) # None
        PROVE  Older(timers[0].succ[v]) <= Older(since)
    <3>1. timers[0].succ[v] \in 0..MaxAge /\ timers[0].succ[v] <= since
      BY <2>2, <2>4 DEF Older, Age, TimersSince
    <3> QED  BY <2>3, <2>4, <3>1, EvaluatorAssumption DEF Older
  <2>5. Older(since) \in 0..MaxAge
    BY <2>3, EvaluatorAssumption DEF Older
  <2> QED  BY <1>3, <2>1, <2>4, <2>5 DEF TimersSince
<1> QED  BY <1>1, <1>2, <1>3 DEF HNext, hvars, vars, Receive, EvictExpired

(* A successor is shown only when every Evaluate within the window found   *)
(* one with a quorum: Evaluate clears the timers when it finds none.       *)
THEOREM SuccessorWaits == HSpec => WithdrawalRestartsWait
<1> DEFINE Waits ==
      out'.plane[0].succ # None /\ out' # out =>
        \E v \in Best(0, "succ") : since >= Window(0, "succ", v)
<1>1. HInit => InitAll /\ TimersSince
  <2> SUFFICES ASSUME HInit PROVE TimersSince
    BY DEF HInit
  <2>1. timers[0].succ = [v \in Successors |-> None]
    BY ManifestAssumption DEF HInit, InitAll, NoTimers
  <2> QED  BY <2>1, EvaluatorAssumption DEF HInit, TimersSince
<1>2. HInit => TypeOK
  <2>1. NoView \in View
    BY DEF NoView, View
  <2>2. NoTimers \in Timers
    BY DEF NoTimers, Timers, Age
  <2> QED  BY <2>1, <2>2 DEF HInit, InitAll, Init, TypeOK
<1>3. TypeOK /\ TimersSince /\ [HNext]_hvars => TypeOK' /\ TimersSince'
  BY HistoryStep, StepTyped, TimersSinceKept
<1>4. ASSUME TypeOK, TimersSince, [HNext]_hvars
      PROVE  [Waits]_hvars
  <2> SUFFICES ASSUME out' # out, out'.plane[0].succ # None
               PROVE  \E v \in Best(0, "succ") : since >= Window(0, "succ", v)
    OBVIOUS
  <2>0. 0 \in Planes
    BY ManifestAssumption
  <2>1. Evaluate
    BY <1>4 DEF HNext, Receive, EvictExpired, Tick, hvars, vars
  <2>2. PICK b \in Choices("bits"), s \in Choices("ssm"), x \in Choices("succ") :
          out' = [plane |-> [q \in Planes |-> Returned(q, b[q], s[q], x[q])],
                  groups |-> PilotGroups, sources |-> SourceSet]
    BY <2>1, Zenon DEF Evaluate
  <2>3. out'.plane[0].succ = Returned(0, b[0], s[0], x[0]).succ
    BY <2>0, <2>2
  <2>4. x[0] # None /\ Elapsed(0, "succ", x[0])
    BY <2>3 DEF Returned, Eligible
  <2>5. x[0] \in Best(0, "succ")
    BY <2>0, <2>4 DEF Choices, Candidates
  <2>6. x[0] \in Successors
    BY <2>5 DEF Best, Values
  <2>7. Window(0, "succ", x[0]) \in Nat
    BY <1>4, <2>5, WindowType
  <2>8. timers[0].succ \in [Successors -> Age]
    BY <1>4, <2>0, TimedType
  <2>9. since >= Window(0, "succ", x[0])
    <3>1. CASE timers[0].succ[x[0]] = None
      BY <1>4, <2>4, <3>1, EvaluatorAssumption DEF Elapsed, TimersSince
    <3>2. CASE timers[0].succ[x[0]] # None
      <4>1. timers[0].succ[x[0]] \in 0..MaxAge /\ timers[0].succ[x[0]] <= since
        BY <1>4, <2>6, <2>8, <3>2 DEF Age, TimersSince
      <4>2. timers[0].succ[x[0]] >= Window(0, "succ", x[0])
        BY <2>4, <3>2 DEF Elapsed
      <4> QED  BY <1>4, <2>7, <4>1, <4>2, EvaluatorAssumption DEF TimersSince
    <3> QED  BY <3>1, <3>2
  <2> QED  BY <2>5, <2>9
<1> QED  BY <1>1, <1>2, <1>3, <1>4, PTL DEF HSpec, WithdrawalRestartsWait
=============================================================================
