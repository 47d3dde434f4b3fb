--------------------------- MODULE TxidSetProofs ----------------------------
(***************************************************************************)
(* A transaction is suppressed only if it is covered, for any number of    *)
(* processes, goroutines, transactions and crashes, any capacity of the    *)
(* local sets and any depth of the queues, whatever the backend answers,   *)
(* loses or applies late.                                                  *)
(***************************************************************************)
EXTENDS TxidSetSteps

(* SeenAndAdd enters the key of a claim that then asks the backend, or     *)
(* proceeds without one, or of a mark.                                     *)
LEMMA LocalStep ==
  ASSUME TypeOK, CoverInv, [Next]_vars
  PROVE  LocalCovered'
<1>0. local \in [Stores -> Shard] /\ procs \in [Procs -> Call \cup {Idle, Exited}]
  BY DEF TypeOK
<1> SUFFICES ASSUME NEW s \in Stores, NEW k \in Held(local'[s]) PROVE Weak(k)'
  BY DEF LocalCovered, Held
<1>1. CASE k \in Held(local[s])
  <2>1. k \in Keys /\ Weak(k)
    BY <1>1 DEF CoverInv, LocalCovered, Held
  <2> QED  BY <2>1, WeakKept DEF CoverInv
<1>2. ASSUME NEW p \in Procs, NEW seen, AddLocal(p, seen), k \notin Held(local[s])
      PROVE  procs[p].key = k
  BY <1>2, LocalTyped
<1>3. ASSUME NEW p \in Procs, ClaimLocalHit(p), k \notin Held(local[s])
      PROVE  Weak(k)'
  <2>1. AddLocal(p, TRUE)
    BY <1>3, Zenon DEF ClaimLocalHit
  <2>2. procs[p].key = k
    BY <1>2, <1>3, <2>1, ZenonT(40)
  <2>3. k \in Held(local[Owner[p]]) /\ Owner[p] \in Stores
    BY <2>1, <2>2, StoreAssumption DEF AddLocal, Seen, Procs
  <2>4. k \in Keys /\ Weak(k)
    BY <2>3, SMTT(30) DEF CoverInv, LocalCovered, Held
  <2> QED  BY <2>4, WeakKept DEF CoverInv
<1>4. ASSUME NEW p \in Procs, ClaimLocalMiss(p), k \notin Held(local[s])
      PROVE  Weak(k)'
  <2>1. procs[p].key = k /\ procs[p].op = "claim"
    BY <1>2, <1>4, Zenon DEF ClaimLocalMiss
  <2>2. CASE tiers[Owner[p]] = 2
    <3>1. procs'[p] = [at |-> "sent", op |-> "claim", key |-> k]
      BY <1>0, <1>4, <2>1, <2>2, SMTT(30) DEF ClaimLocalMiss, Moved
    <3>2. Asking(p, k)'
      BY <3>1, SMTT(30) DEF Asking
    <3> QED  BY <3>2 DEF Weak
  <2>3. CASE tiers[Owner[p]] # 2
    <3>1. k \in proceeded'
      BY <1>4, <2>1, <2>3, Zenon DEF ClaimLocalMiss
    <3> QED  BY <3>1, SMTT(30) DEF Weak, Strong, Settled
  <2> QED  BY <2>2, <2>3, SMTT(30)
<1>5. ASSUME NEW p \in Procs, MarkLocal(p), k \notin Held(local[s])
      PROVE  Weak(k)'
  <2>1. k \in marked'
    BY <1>2, <1>5, ZenonT(40) DEF MarkLocal
  <2> QED  BY <2>1, SMTT(30) DEF Weak, Strong, Settled
<1>6. ASSUME NEW r \in Stores, Crash(r)
      PROVE  k \in Held(local[s])
  BY <1>0, <1>6, SMTT(30) DEF Crash, Held, Empty
<1>7. \/ local' = local
      \/ \E p \in Procs : ClaimLocalHit(p) \/ ClaimLocalMiss(p) \/ MarkLocal(p)
      \/ \E r \in Stores : Crash(r)
  BY ZenonT(40) DEF Next, Step, vars, Enqueue, Apply, ApplyLate, Reply, Fail,
         Start, Take, Exit, Close, CloseReturn, Tick
<1> QED  BY <1>1, <1>3, <1>4, <1>5, <1>6, <1>7, SMTT(30)

(* A step that is not p's own leaves p's call alone, or ends it.           *)
LEMMA CallKept ==
  ASSUME TypeOK, [Next]_vars, NEW p \in Procs
  PROVE  \/ procs'[p] \in {procs[p], Idle, Exited}
         \/ Step(p)
         \/ \E k \in Keys : \E op \in Ops[p] : Start(p, op, k)
         \/ p \in Workers /\ Take(p)
<1>0. procs \in [Procs -> Call \cup {Idle, Exited}]
  BY SMTT(30) DEF TypeOK
<1>1. ASSUME NEW q \in Procs, Step(q), q # p
      PROVE  procs'[p] = procs[p]
  BY <1>0, <1>1, ZenonT(40) DEF Step, ClaimLocalHit, ClaimLocalMiss, MarkLocal, Enqueue,
     Apply, Reply, Fail, Moved, Returned
<1>2. ASSUME NEW c \in Callers, NEW k \in Keys, NEW op \in Ops[c], Start(c, op, k), c # p
      PROVE  procs'[p] = procs[p]
  BY <1>0, <1>2, Zenon DEF Start
<1>3. ASSUME NEW w \in Workers, Take(w), w # p
      PROVE  procs'[p] = procs[p]
  BY <1>0, <1>3 DEF Take
<1>4. ASSUME NEW w \in Workers, Exit(w)
      PROVE  procs'[p] \in {procs[p], Exited}
  BY <1>0, <1>4, SMTT(30) DEF Exit
<1>5. ASSUME NEW s \in Stores, Crash(s)
      PROVE  procs'[p] \in {procs[p], Idle}
  BY <1>0, <1>5, SMTT(30) DEF Crash
<1>6. ASSUME \/ \E s \in Stores : Close(s) \/ CloseReturn(s)
             \/ \E k \in Keys : ApplyLate(k)
             \/ Tick
             \/ UNCHANGED vars
      PROVE  procs'[p] = procs[p]
  BY <1>6 DEF Close, CloseReturn, ApplyLate, Tick, vars
<1> QED  BY <1>1, <1>2, <1>3, <1>4, <1>5, <1>6, ZenonT(40) DEF Next

(* A claim loses only to a live key of the backend.                        *)
LEMMA LostStep ==
  ASSUME TypeOK, CoverInv, [Next]_vars
  PROVE  LostCovered'
<1>0. procs \in [Procs -> Call \cup {Idle, Exited}]
  BY DEF TypeOK
<1> SUFFICES ASSUME NEW p \in Procs, NEW k \in Keys, Lost(p, k)'
             PROVE  Strong(k)'
  BY DEF LostCovered
<1>1. CASE procs'[p] = procs[p]
  <2>1. Lost(p, k)
    BY <1>1 DEF Lost
  <2>2. Strong(k)
    BY <2>1 DEF CoverInv, LostCovered
  <2> QED  BY <2>2, StrongKept
<1>2. CASE Apply(p)
  <2>1. procs'[p].key = procs[p].key /\ procs'[p].ok = ~Live(procs[p].key)
    BY <1>0, <1>2 DEF Apply
  <2>2. Live(k)
    BY <2>1, ZenonT(40) DEF Lost
  <2>3. Strong(k)
    BY <2>2 DEF Live, CoverInv, BackendCovered
  <2> QED  BY <2>3, StrongKept
<1>3. procs'[p].at = "answered"
  BY DEF Lost
<1>4. procs'[p] = procs[p] \/ Apply(p)
  <2>1. procs'[p] \notin {Idle, Exited}
    BY <1>3, SMTT(30) DEF Idle, Exited
  <2>2. ~(ClaimLocalHit(p) \/ Enqueue(p) \/ Reply(p) \/ Fail(p))
    BY <1>0, <2>1, ZenonT(40) DEF ClaimLocalHit, Enqueue, Reply, Fail, Returned
  <2>3. ~(ClaimLocalMiss(p) \/ MarkLocal(p))
    <3>1. ASSUME ClaimLocalMiss(p) \/ MarkLocal(p)
          PROVE  procs' \in {Returned(p), Moved(p, "sent"), Moved(p, "enqueue")}
      BY <3>1, Zenon DEF ClaimLocalMiss, MarkLocal
    <3>2. Returned(p)[p] = Idle /\ Moved(p, "sent")[p].at = "sent"
            /\ Moved(p, "enqueue")[p].at = "enqueue"
      BY <1>0 DEF Returned, Moved
    <3> QED  BY <1>3, <2>1, <3>1, <3>2
  <2>4. ASSUME NEW j \in Keys, NEW op \in Ops[p], Start(p, op, j) PROVE FALSE
    BY <1>0, <1>3, <2>4 DEF Start
  <2>5. ~Take(p)
    BY <1>0, <1>3 DEF Take
  <2> QED  BY <2>1, <2>2, <2>3, <2>4, <2>5, CallKept DEF Step
<1> QED  BY <1>1, <1>2, <1>4

(* A claim suppresses on a hit, whose key is covered, or when it lost.     *)
LEMMA SuppressedStep ==
  ASSUME TypeOK, CoverInv, [Next]_vars
  PROVE  SuppressedCovered'
<1> SUFFICES ASSUME NEW k \in suppressed' PROVE Weak(k)'
  BY DEF SuppressedCovered
<1>1. CASE k \in suppressed
  <2>1. k \in Keys /\ Weak(k)
    BY <1>1 DEF CoverInv, SuppressedCovered, TypeOK
  <2> QED  BY <2>1, WeakKept DEF CoverInv
<1>2. ASSUME NEW p \in Procs, ClaimLocalHit(p), k \notin suppressed
      PROVE  Weak(k)'
  <2>1. procs[p].key = k /\ AddLocal(p, TRUE)
    BY <1>2, ZenonT(40) DEF ClaimLocalHit
  <2>2. k \in Held(local[Owner[p]]) /\ Owner[p] \in Stores
    BY <2>1, StoreAssumption DEF AddLocal, Seen, Procs
  <2>3. k \in Keys /\ Weak(k)
    BY <2>2 DEF CoverInv, LocalCovered, Held
  <2> QED  BY <2>3, WeakKept DEF CoverInv
<1>3. ASSUME NEW p \in Procs, Reply(p), k \notin suppressed
      PROVE  Weak(k)'
  <2>1. Lost(p, k) /\ k \in Keys
    BY <1>3, CallShape DEF Reply, Lost, Busy
  <2>2. Strong(k)
    BY <2>1, SMTT(30) DEF CoverInv, LostCovered
  <2> QED  BY <2>2, StrongKept DEF Weak
<1>4. \/ suppressed' = suppressed
      \/ \E p \in Procs : ClaimLocalHit(p) \/ Reply(p)
  BY ZenonT(40) DEF Next, Step, vars, history, ClaimLocalMiss, MarkLocal, Enqueue, Apply, ApplyLate, Fail,
         Start, Take, Exit, Close, CloseReturn, Crash, Tick
<1> QED  BY <1>1, <1>2, <1>3, <1>4

(* Only keys that were marked are queued and sent by workers.              *)
LEMMA MarksStep ==
  ASSUME TypeOK, CoverInv, [Next]_vars
  PROVE  MarksMarked'
<1>0. /\ procs \in [Procs -> Call \cup {Idle, Exited}]
      /\ markCh \in [Stores -> Seq(Keys)]
  BY SMTT(30) DEF TypeOK
<1>1. marked \subseteq marked'
  BY ZenonT(40) DEF Next, Step, vars, history, ClaimLocalHit, ClaimLocalMiss, MarkLocal, Enqueue, Apply,
         Reply, Fail, Start, Take, Exit, Close, CloseReturn, Crash, ApplyLate, Tick
<1>2. ASSUME NEW p \in Procs, Sends(p)'
      PROVE  procs'[p].key \in marked'
  <2>1. procs'[p] \notin {Idle, Exited}
    BY <1>2, SMTT(30) DEF Idle, Exited, Sends
  <2>2. CASE procs'[p] = procs[p]
    BY <1>1, <1>2, <2>2, Zenon DEF CoverInv, MarksMarked, Sends
  <2>3. ASSUME Step(p)
        PROVE  procs'[p].key \in marked'
    <3>1. MarkLocal(p) \/ Apply(p)
      <4>1. ~(ClaimLocalHit(p) \/ Enqueue(p) \/ Reply(p) \/ Fail(p))
        BY <1>0, <2>1, ZenonT(40) DEF ClaimLocalHit, Enqueue, Reply, Fail, Returned
      <4>2. ASSUME ClaimLocalMiss(p)
            PROVE  procs'[p] = Idle \/ (procs'[p].at = "sent" /\ procs'[p].op = "claim")
        BY <1>0, <4>2 DEF ClaimLocalMiss, Moved, Returned
      <4>3. ~ClaimLocalMiss(p)
        BY <1>2, <2>1, <4>2, SMTT(30) DEF Sends
      <4> QED  BY <2>3, <4>1, <4>3, SMTT(30) DEF Step
    <3>2. CASE MarkLocal(p)
      BY <1>0, <2>1, <3>2, SMTT(30) DEF MarkLocal, Moved, Returned
    <3>3. CASE Apply(p)
      BY <1>0, <1>1, <1>2, <3>3, SMTT(30) DEF Apply, CoverInv, MarksMarked, Sends
    <3> QED  BY <3>1, <3>2, <3>3
  <2>4. ASSUME NEW k \in Keys, NEW op \in Ops[p], Start(p, op, k)
        PROVE  FALSE
    BY <1>0, <1>2, <2>4 DEF Start, Sends
  <2>5. ASSUME p \in Workers, Take(p)
        PROVE  procs'[p].key \in marked'
    <3>1. Owner[p] \in Stores
      BY <2>5, StoreAssumption
    <3>2. procs'[p].key = Head(markCh[Owner[p]]) /\ markCh[Owner[p]] # <<>>
      BY <1>0, <2>5 DEF Take
    <3>3. 1 \in 1 .. Len(markCh[Owner[p]]) /\ Head(markCh[Owner[p]]) = markCh[Owner[p]][1]
      BY <1>0, <3>1, <3>2, SMTT(30)
    <3> QED  BY <1>1, <3>1, <3>2, <3>3 DEF CoverInv, MarksMarked
  <2> QED  BY <2>1, <2>2, <2>3, <2>4, <2>5, CallKept, ZenonT(40)
<1>3. ASSUME NEW s \in Stores, NEW i \in 1 .. Len(markCh'[s])
      PROVE  markCh'[s][i] \in marked'
  <2>1. CASE markCh'[s] = markCh[s]
    BY <1>1, <1>3, <2>1, SMTT(30) DEF CoverInv, MarksMarked
  <2>2. ASSUME NEW p \in Procs, Enqueue(p), markCh'[s] # markCh[s]
        PROVE  markCh'[s][i] \in marked'
    <3>1. procs[p].key \in marked /\ procs[p].key \in Keys
      <4>1. procs[p].at = "enqueue" /\ procs[p].key \in Keys
        BY <2>2, CallShape, SMTT(30) DEF Enqueue, Busy
      <4> QED  BY <4>1, SMTT(30) DEF CoverInv, MarksMarked, Sends
    <3>2. markCh'[s] = Append(markCh[s], procs[p].key)
      BY <1>0, <2>2, SMTT(30) DEF Enqueue
    <3>3. CASE i \in 1 .. Len(markCh[s])
      BY <1>0, <1>1, <3>1, <3>2, <3>3, SMTT(30) DEF CoverInv, MarksMarked
    <3>4. CASE i = Len(markCh[s]) + 1
      BY <1>0, <1>1, <3>1, <3>2, <3>4
    <3> QED  BY <1>0, <1>3, <3>1, <3>2, <3>3, <3>4, SMTT(30)
  <2>3. ASSUME NEW w \in Workers, Take(w), markCh'[s] # markCh[s]
        PROVE  markCh'[s][i] \in marked'
    <3>1. markCh'[s] = Tail(markCh[s]) /\ markCh[s] # <<>>
      BY <1>0, <2>3, SMTT(30) DEF Take
    <3>2. i + 1 \in 1 .. Len(markCh[s]) /\ markCh'[s][i] = markCh[s][i + 1]
      BY <1>0, <1>3, <3>1
    <3> QED  BY <1>1, <3>2 DEF CoverInv, MarksMarked
  <2>4. ASSUME NEW r \in Stores, Crash(r), markCh'[s] # markCh[s]
        PROVE  FALSE
    BY <1>0, <1>3, <2>4, SMTT(30) DEF Crash
  <2>5. \/ markCh' = markCh
        \/ \E p \in Procs : Enqueue(p)
        \/ \E w \in Workers : Take(w)
        \/ \E r \in Stores : Crash(r)
    BY Zenon DEF Next, Step, vars, ClaimLocalHit, ClaimLocalMiss, MarkLocal, Apply, ApplyLate, Reply,
           Fail, Start, Exit, Close, CloseReturn, Tick
  <2> QED  BY <2>1, <2>2, <2>3, <2>4, <2>5, SMTT(30)
<1> QED  BY <1>2, <1>3 DEF MarksMarked

(* CoverInv, with the types, holds in every behaviour of the stores.       *)
THEOREM CoverInvariance == Spec => [](TypeOK /\ CoverInv)
<1>1. Init => TypeOK /\ CoverInv
  <2> SUFFICES ASSUME Init PROVE TypeOK /\ CoverInv
    BY SMTT(30)
  <2>1. Empty \in Shard /\ Held(Empty) = {}
    BY EmptyInShard, ZenonT(40) DEF Held, Empty
  <2>2. TypeOK
    BY <2>1, StoreAssumption, SMTT(30) DEF Init, TypeOK
  <2>3. CoverInv
    BY <2>1 DEF Init, CoverInv, BackendCovered, LateCovered, LocalCovered, LostCovered, Lost,
                SuppressedCovered, MarksMarked, Sends, Idle
  <2> QED  BY <2>2, <2>3
<1>2. TypeOK /\ CoverInv /\ [Next]_vars => (TypeOK /\ CoverInv)'
  BY TypeOKStep, BackendStep, LateStep, LocalStep, LostStep, SuppressedStep, MarksStep
     DEF CoverInv
<1> QED  BY <1>1, <1>2, PTL DEF Spec

(* The Store's variables keep their types, and the queue of marks its      *)
(* depth.                                                                  *)
THEOREM StoreTypeCorrect == Spec => []TypeOK
  BY CoverInvariance, PTL

(* Claim suppresses only what another claimant holds.                      *)
THEOREM SuppressionCovered == Spec => []SuppressedIsCovered
<1>1. TypeOK /\ CoverInv => SuppressedIsCovered
  <2> SUFFICES ASSUME TypeOK, CoverInv, NEW k \in suppressed, ~Settled(k)
               PROVE  Claiming(k)
    BY DEF SuppressedIsCovered, Settled
  <2>1. PICK p \in Procs : Won(p, k) \/ Asking(p, k)
    BY DEF CoverInv, SuppressedCovered, Weak, Strong
  <2> QED  BY <2>1 DEF Claiming, Won, Asking, Busy
<1> QED  BY <1>1, CoverInvariance, PTL

(* A worker ends only when the channel is closed and empty, and then it    *)
(* stays empty; Close returns when all of them have ended.                 *)
DrainInv ==
  /\ \A w \in Workers : procs[w].at = "exited" =>
       phase[Owner[w]] # "open" /\ markCh[Owner[w]] = <<>>
  /\ \A s \in Stores : phase[s] = "closed" => \A w \in WorkersOf(s) : procs[w].at = "exited"

(* Every step keeps DrainInv.                                              *)
LEMMA DrainInvStep ==
  ASSUME TypeOK, DrainInv, [Next]_vars
  PROVE  DrainInv'
<1>0. /\ procs \in [Procs -> Call \cup {Idle, Exited}]
      /\ markCh \in [Stores -> Seq(Keys)]
      /\ phase \in [Stores -> {"open", "closing", "closed"}]
      /\ Workers \subseteq Procs
      /\ \A q \in Procs : Owner[q] \in Stores
  BY StoreAssumption, SMTT(30) DEF TypeOK, Procs
<1>1. ASSUME NEW w \in Workers, procs'[w].at = "exited", procs[w].at # "exited"
      PROVE  Exit(w)
  <2>1. procs'[w] # procs[w] /\ procs'[w] # Idle
    BY <1>1, SMTT(30) DEF Idle
  <2>2. ASSUME Step(w) PROVE FALSE
    <3>1. ~(ClaimLocalHit(w) \/ Enqueue(w) \/ Reply(w) \/ Fail(w))
      BY <1>0, <2>1, ZenonT(40) DEF ClaimLocalHit, Enqueue, Reply, Fail, Returned
    <3>2. ASSUME ClaimLocalMiss(w) \/ MarkLocal(w)
          PROVE  procs' \in {Returned(w), Moved(w, "sent"), Moved(w, "enqueue")}
      BY <3>2, Zenon DEF ClaimLocalMiss, MarkLocal
    <3>3. Returned(w)[w] = Idle /\ Moved(w, "sent")[w].at = "sent"
            /\ Moved(w, "enqueue")[w].at = "enqueue"
      BY <1>0, SMTT(30) DEF Returned, Moved
    <3>4. ~Apply(w)
      BY <1>0, <1>1, SMTT(30) DEF Apply
    <3> QED  BY <1>1, <2>1, <2>2, <3>1, <3>2, <3>3, <3>4, ZenonT(40) DEF Step
  <2>3. ASSUME NEW k \in Keys, NEW c \in Callers, NEW op \in Ops[c], Start(c, op, k) PROVE FALSE
    BY <1>0, <1>1, <2>3, SMTT(30) DEF Start
  <2>4. ASSUME NEW v \in Workers, Take(v) PROVE FALSE
    BY <1>0, <1>1, <2>4 DEF Take
  <2>5. ASSUME NEW v \in Workers, Exit(v), v # w PROVE FALSE
    BY <1>0, <1>1, <2>5, SMTT(30) DEF Exit
  <2>6. ASSUME NEW s \in Stores, Crash(s) PROVE FALSE
    BY <1>0, <2>1, <2>6, SMTT(30) DEF Crash
  <2>7. ASSUME NEW q \in Procs, Step(q), q # w PROVE FALSE
    BY <1>0, <2>1, <2>7, ZenonT(40) DEF Step, ClaimLocalHit, ClaimLocalMiss, MarkLocal, Enqueue,
       Apply, Reply, Fail, Moved, Returned
  <2> QED  BY <2>1, <2>2, <2>3, <2>4, <2>5, <2>6, <2>7, ZenonT(40)
           DEF Next, Close, CloseReturn, ApplyLate, Tick, vars
<1>2. ASSUME NEW s \in Stores
      PROVE  \/ phase'[s] = phase[s]
             \/ Close(s) \/ CloseReturn(s) \/ Crash(s)
  <2>1. phase' = phase \/ \E r \in Stores : Close(r) \/ CloseReturn(r) \/ Crash(r)
    BY ZenonT(40) DEF Next, Step, vars, ClaimLocalHit, ClaimLocalMiss, MarkLocal, Enqueue, Apply, Reply,
       Fail, Start, Take, Exit, ApplyLate, Tick
  <2>2. ASSUME NEW r \in Stores, Close(r) \/ CloseReturn(r) \/ Crash(r), r # s
        PROVE  phase'[s] = phase[s]
    BY <1>0, <2>2, Zenon DEF Close, CloseReturn, Crash
  <2> QED  BY <2>1, <2>2, SMTT(30)
<1>3. ASSUME NEW w \in Workers, procs'[w].at = "exited"
      PROVE  ~Crash(Owner[w])
  <2>1. ASSUME Crash(Owner[w]) PROVE procs'[w] = Idle
    <3>1. procs' = [p \in Procs |-> IF p \in {q \in Procs : Owner[q] = Owner[w]}
                                    THEN Idle ELSE procs[p]]
      BY <2>1, ZenonT(40) DEF Crash
    <3> QED  BY <1>0, <3>1, SMTT(30)
  <2> QED  BY <1>3, <2>1 DEF Idle
<1>4. ASSUME NEW w \in Workers, procs'[w].at = "exited"
      PROVE  phase'[Owner[w]] # "open" /\ markCh'[Owner[w]] = <<>>
  <2> DEFINE s == Owner[w]
  <2>1. s \in Stores
    BY <1>0, SMTT(30)
  <2>2. phase[s] # "open" /\ markCh[s] = <<>>
    BY <1>1, <1>4, ZenonT(40) DEF DrainInv, Exit
  <2>3. phase'[s] # "open"
    BY <1>0, <1>2, <1>3, <1>4, <2>1, <2>2, SMTT(30) DEF Close, CloseReturn
  <2>4. ASSUME NEW q \in Procs, Enqueue(q) PROVE markCh'[s] = markCh[s]
    BY <1>0, <2>1, <2>2, <2>4, SMTT(30) DEF Enqueue
  <2>5. ASSUME NEW v \in Workers, Take(v) PROVE markCh'[s] = markCh[s]
    BY <1>0, <2>1, <2>2, <2>5, SMTT(30) DEF Take
  <2>6. ASSUME NEW r \in Stores, Crash(r) PROVE markCh'[s] = markCh[s]
    BY <1>0, <1>3, <1>4, <2>1, <2>6, ZenonT(40) DEF Crash
  <2>7. \/ markCh' = markCh
        \/ \E q \in Procs : Enqueue(q)
        \/ \E v \in Workers : Take(v)
        \/ \E r \in Stores : Crash(r)
    BY ZenonT(40) DEF Next, Step, vars, ClaimLocalHit, ClaimLocalMiss, MarkLocal, Apply, ApplyLate, Reply,
           Fail, Start, Exit, Close, CloseReturn, Tick
  <2> QED  BY <2>2, <2>3, <2>4, <2>5, <2>6, <2>7, ZenonT(40)
<1>5. ASSUME NEW s \in Stores, phase'[s] = "closed", NEW w \in WorkersOf(s)
      PROVE  procs'[w].at = "exited"
  <2>0. w \in Workers /\ Owner[w] = s
    BY SMTT(30) DEF WorkersOf
  <2>1. ~Close(s) /\ ~Crash(s)
    BY <1>0, <1>5, ZenonT(40) DEF Close, Crash
  <2>2. procs[w].at = "exited"
    BY <1>2, <1>5, <2>1, ZenonT(40) DEF DrainInv, CloseReturn
  <2>3. ~Step(w) /\ ~Take(w)
    BY <2>2, ZenonT(40) DEF Step, ClaimLocalHit, ClaimLocalMiss, MarkLocal, Enqueue, Apply, Reply, Fail, Take
  <2>4. ASSUME NEW c \in Callers, NEW k \in Keys, NEW op \in Ops[c], Start(c, op, k)
        PROVE  procs'[w] = procs[w]
    BY <1>0, <2>0, <2>2, <2>4, ZenonT(40) DEF Start
  <2>5. ASSUME NEW r \in Stores, Crash(r)
        PROVE  procs'[w] = procs[w]
    BY <1>0, <2>0, <2>1, <2>5, ZenonT(40) DEF Crash
  <2>6. ASSUME NEW v \in Workers, Take(v) \/ Exit(v)
        PROVE  procs'[w] = procs[w]
    BY <1>0, <2>0, <2>2, <2>6, ZenonT(40) DEF Take, Exit
  <2>7. ASSUME NEW q \in Procs, Step(q)
        PROVE  procs'[w] = procs[w]
    <3>1. q # w
      BY <2>3, <2>7, SMTT(30)
    <3> QED  BY <1>0, <2>0, <2>7, <3>1, ZenonT(40) DEF Step, ClaimLocalHit, ClaimLocalMiss, MarkLocal,
                Enqueue, Apply, Reply, Fail, Moved, Returned
  <2>8. procs'[w] = procs[w]
    BY <2>4, <2>5, <2>6, <2>7, ZenonT(40) DEF Next, Close, CloseReturn, ApplyLate, Tick, vars
  <2> QED  BY <2>2, <2>8
<1> QED  BY <1>4, <1>5, SMTT(30) DEF DrainInv, WorkersOf

(* Close returns only after every queued mark has been attempted.          *)
THEOREM CloseDrainsAll == Spec => []CloseDrains
<1>1. Init => DrainInv
  BY StoreAssumption DEF Init, DrainInv, Idle, Procs
<1>2. TypeOK /\ DrainInv /\ [Next]_vars => DrainInv'
  BY DrainInvStep
<1>3. DrainInv => CloseDrains
  <2> SUFFICES ASSUME DrainInv, NEW s \in Stores, phase[s] = "closed"
               PROVE  markCh[s] = <<>> /\ \A w \in WorkersOf(s) : ~Busy(w)
    BY DEF CloseDrains
  <2>1. PICK w \in Workers : Owner[w] = s
    BY StoreAssumption
  <2>2. procs[w].at = "exited"
    BY <2>1 DEF DrainInv, WorkersOf
  <2> QED  BY <2>1, <2>2, SMTT(30) DEF DrainInv, WorkersOf, Busy
<1> QED  BY <1>1, <1>2, <1>3, StoreTypeCorrect, PTL DEF Spec
=============================================================================
