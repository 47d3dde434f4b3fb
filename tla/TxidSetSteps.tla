---------------------------- MODULE TxidSetSteps ----------------------------
(***************************************************************************)
(* The Store of txidset keeps its types, the inductive invariant behind the *)
(* covering of suppressed transactions, and how long a key stays covered,  *)
(* for every value of the constants.                                       *)
(***************************************************************************)
EXTENDS TxidSet, SequenceTheorems, TLAPS

(* The head wraps around within the slots, as (head + 1) % capacity does.  *)
LEMMA NextHead ==
  ASSUME NEW h \in Slots
  PROVE  /\ (h + 1) % Capacity \in Slots
         /\ h + 1 < Capacity => (h + 1) % Capacity = h + 1
  BY CapacityAssumption DEF Slots

(* The expiry of an entry is an integer, so it is not None.                *)
LEMMA ExpiryIsInt ==
  ASSUME NEW now \in Nat
  PROVE  Expiry(now) \in Int /\ Expiry(now) # None
  BY TTLAssumption, NoneAssumption DEF Expiry

(* The empty shard that newLocalSet makes has the type of a shard.         *)
LEMMA EmptyInShard == Empty \in Shard
  BY CapacityAssumption DEF Empty, Shard, Slots

(* SeenAndAdd keeps the shard's type and adds at most its own key.         *)
LEMMA AddedToShard ==
  ASSUME NEW s \in Shard, NEW k \in Keys, NEW now \in Nat
  PROVE  /\ AddedTo(s, k, now) \in Shard
         /\ Held(AddedTo(s, k, now)) \subseteq Held(s) \cup {k}
<1> DEFINE kept == IF s.count = Capacity THEN [s.entries EXCEPT ![s.ring[s.head]] = None]
                   ELSE s.entries
<1>1. /\ s.entries \in [Keys -> Int \cup {None}]
      /\ s.ring \in [Slots -> Keys \cup {None}]
      /\ s.head \in Slots
      /\ s.count \in 0 .. Capacity
  BY DEF Shard
<1>2. CASE Seen(s, k, now)
  BY <1>2, ExpiryIsInt DEF AddedTo, Refresh, Shard, Held
<1>3. CASE ~Seen(s, k, now)
  <2>1. AddedTo(s, k, now) = Insert(s, k, now)
    BY <1>3 DEF AddedTo
  <2>2. kept \in [Keys -> Int \cup {None}] /\ \A j \in Keys : kept[j] \in {s.entries[j], None}
    BY <1>1, Zenon
  <2>3. [kept EXCEPT ![k] = Expiry(now)] \in [Keys -> Int \cup {None}]
    BY <2>2, ExpiryIsInt
  <2>4. [s.ring EXCEPT ![s.head] = k] \in [Slots -> Keys \cup {None}]
    BY <1>1
  <2>5. /\ (s.head + 1) % Capacity \in Slots
        /\ (IF s.count = Capacity THEN s.count ELSE s.count + 1) \in 0 .. Capacity
    BY <1>1, NextHead, CapacityAssumption
  <2>6. Insert(s, k, now) \in Shard
    BY <2>3, <2>4, <2>5 DEF Insert, Shard
  <2>7. Held(Insert(s, k, now)) \subseteq Held(s) \cup {k}
    BY <2>2 DEF Insert, Held
  <2> QED  BY <2>1, <2>6, <2>7
<1> QED  BY <1>2, <1>3

(* What the type of a call says at each of its stages.                     *)
LEMMA CallShape ==
  ASSUME TypeOK, NEW p \in Procs
  PROVE  /\ procs[p].at \in {"local", "enqueue", "sent", "answered", "idle", "exited"}
         /\ Busy(p) => procs[p].key \in Keys /\ procs[p].op \in {"claim", "mark"}
         /\ procs[p].at = "local" => procs[p].now \in Nat
         /\ procs[p].at = "answered" => procs[p].ok \in BOOLEAN
  BY DEF TypeOK, Call, Idle, Exited, Busy

(* Every state between calls, and after each stage, has the type.          *)
LEMMA ProcsTyped ==
  ASSUME TypeOK, NEW p \in Procs
  PROVE  /\ Returned(p) \in [Procs -> Call \cup {Idle, Exited}]
         /\ Busy(p) => Moved(p, "sent") \in [Procs -> Call \cup {Idle, Exited}]
         /\ Busy(p) => Moved(p, "enqueue") \in [Procs -> Call \cup {Idle, Exited}]
<1>1. procs \in [Procs -> Call \cup {Idle, Exited}]
  BY DEF TypeOK
<1>2. Returned(p) \in [Procs -> Call \cup {Idle, Exited}]
  BY <1>1 DEF Returned
<1>3. ASSUME NEW a \in {"sent", "enqueue"}, Busy(p)
      PROVE  Moved(p, a) \in [Procs -> Call \cup {Idle, Exited}]
  <2>1. [at |-> a, op |-> procs[p].op, key |-> procs[p].key] \in Call
    BY <1>3, CallShape DEF Call
  <2> QED  BY <1>1, <2>1 DEF Moved
<1> QED  BY <1>2, <1>3

(* SeenAndAdd keeps the local sets.                                        *)
LEMMA LocalTyped ==
  ASSUME TypeOK, NEW p \in Procs, NEW seen, AddLocal(p, seen)
  PROVE  /\ local' \in [Stores -> Shard]
         /\ \A s \in Stores : Held(local'[s]) \subseteq Held(local[s]) \cup {procs[p].key}
<1>1. procs[p].key \in Keys /\ procs[p].now \in Nat
  BY CallShape DEF AddLocal, Busy
<1>2. Owner[p] \in Stores /\ local \in [Stores -> Shard]
  BY StoreAssumption DEF TypeOK, Procs
<1>3. local[Owner[p]] \in Shard
  BY <1>2
<1>4. local' = [local EXCEPT ![Owner[p]] = AddedTo(local[Owner[p]], procs[p].key, procs[p].now)]
  BY DEF AddLocal
<1>5. /\ AddedTo(local[Owner[p]], procs[p].key, procs[p].now) \in Shard
      /\ Held(AddedTo(local[Owner[p]], procs[p].key, procs[p].now))
           \subseteq Held(local[Owner[p]]) \cup {procs[p].key}
  BY <1>1, <1>3, AddedToShard
<1>6. local' \in [Stores -> Shard]
  BY <1>2, <1>4, <1>5
<1>7. ASSUME NEW s \in Stores
      PROVE  Held(local'[s]) \subseteq Held(local[s]) \cup {procs[p].key}
  BY <1>2, <1>4, <1>5
<1> QED  BY <1>6, <1>7

(* SetNX stores an expiry in the future or leaves the backend alone.       *)
LEMMA SetNXTyped ==
  ASSUME TypeOK, NEW k \in Keys, SetNX(k)
  PROVE  /\ backend' \in [Keys -> Nat \cup {None}]
         /\ \A j \in Keys : j # k => backend'[j] = backend[j]
  BY StoreAssumption, TTLAssumption DEF TypeOK, SetNX

(* Every step of the Store keeps the types, and with them the depth of the *)
(* queue of marks.                                                         *)
LEMMA TypeOKStep == TypeOK /\ [Next]_vars => TypeOK'
<1> SUFFICES ASSUME TypeOK, [Next]_vars PROVE TypeOK'
  OBVIOUS
<1> USE DEF history
<1>0. /\ clock \in Nat /\ crashes \in Nat
      /\ local \in [Stores -> Shard]
      /\ markCh \in [Stores -> Seq(Keys)]
      /\ \A s \in Stores : Len(markCh[s]) <= MarkQueueDepth
      /\ phase \in [Stores -> {"open", "closing", "closed"}]
      /\ procs \in [Procs -> Call \cup {Idle, Exited}]
      /\ backend \in [Keys -> Nat \cup {None}]
      /\ late \subseteq Keys /\ proceeded \subseteq Keys /\ suppressed \subseteq Keys
      /\ marked \subseteq Keys /\ orphaned \subseteq Keys
  BY DEF TypeOK
<1>1. ASSUME NEW p \in Procs, ClaimLocalHit(p) PROVE TypeOK'
  <2>1. AddLocal(p, TRUE) /\ procs[p].key \in Keys
    BY <1>1, CallShape, Zenon DEF ClaimLocalHit, Busy
  <2>2. local' \in [Stores -> Shard] /\ procs' \in [Procs -> Call \cup {Idle, Exited}]
    BY <1>1, <2>1, LocalTyped, ProcsTyped, Zenon DEF ClaimLocalHit
  <2> QED  BY <1>0, <1>1, <2>1, <2>2 DEF ClaimLocalHit, TypeOK
<1>2. ASSUME NEW p \in Procs, ClaimLocalMiss(p) PROVE TypeOK'
  <2>1. AddLocal(p, FALSE) /\ procs[p].key \in Keys /\ Busy(p)
    BY <1>2, CallShape, Zenon DEF ClaimLocalMiss, Busy
  <2>2. local' \in [Stores -> Shard] /\ procs' \in [Procs -> Call \cup {Idle, Exited}]
    BY <1>2, <2>1, LocalTyped, ProcsTyped, Zenon DEF ClaimLocalMiss
  <2>3. proceeded' \subseteq Keys
    BY <1>0, <1>2, <2>1, SMTT(30) DEF ClaimLocalMiss
  <2> QED  BY <1>0, <1>2, <2>2, <2>3 DEF ClaimLocalMiss, TypeOK
<1>3. ASSUME NEW p \in Procs, MarkLocal(p) PROVE TypeOK'
  <2>1. PICK seen \in BOOLEAN : AddLocal(p, seen)
    BY <1>3 DEF MarkLocal
  <2>2. procs[p].key \in Keys /\ Busy(p)
    BY <1>3, CallShape DEF MarkLocal, Busy
  <2>3. local' \in [Stores -> Shard] /\ procs' \in [Procs -> Call \cup {Idle, Exited}]
    BY <1>3, <2>1, <2>2, LocalTyped, ProcsTyped, SMTT(30) DEF MarkLocal
  <2> QED  BY <1>0, <1>3, <2>2, <2>3, SMTT(30) DEF MarkLocal, TypeOK
<1>4. ASSUME NEW p \in Procs, Enqueue(p) PROVE TypeOK'
  <2>1. procs[p].key \in Keys /\ Owner[p] \in Stores
    BY <1>4, CallShape, StoreAssumption DEF Enqueue, Busy, Procs
  <2>2. procs' \in [Procs -> Call \cup {Idle, Exited}]
    BY <1>4, ProcsTyped DEF Enqueue
  <2>3. /\ Append(markCh[Owner[p]], procs[p].key) \in Seq(Keys)
        /\ Len(Append(markCh[Owner[p]], procs[p].key)) = Len(markCh[Owner[p]]) + 1
    BY <1>0, <2>1
  <2>4. /\ markCh' \in [Stores -> Seq(Keys)]
        /\ \A s \in Stores : Len(markCh'[s]) <= MarkQueueDepth
    BY <1>0, <1>4, <2>1, <2>3, StoreAssumption, SMTT(30) DEF Enqueue
  <2> QED  BY <1>0, <1>4, <2>2, <2>4, SMTT(30) DEF Enqueue, TypeOK
<1>5. ASSUME NEW p \in Procs, Apply(p) PROVE TypeOK'
  <2>1. procs[p].key \in Keys /\ procs[p].op \in {"claim", "mark"}
    BY <1>5, CallShape DEF Apply, Busy
  <2>2. backend' \in [Keys -> Nat \cup {None}]
    BY <1>5, <2>1, SetNXTyped DEF Apply
  <2>3. [at |-> "answered", op |-> procs[p].op, key |-> procs[p].key,
         ok |-> ~Live(procs[p].key)] \in Call
    <3>1. CASE Live(procs[p].key)
      BY <2>1, <3>1 DEF Call
    <3>2. CASE ~Live(procs[p].key)
      BY <2>1, <3>2 DEF Call
    <3> QED  BY <3>1, <3>2
  <2>4. procs' \in [Procs -> Call \cup {Idle, Exited}]
    BY <1>0, <1>5, <2>3 DEF Apply
  <2> QED  BY <1>0, <1>5, <2>2, <2>4, SMTT(30) DEF Apply, TypeOK
<1>6. ASSUME NEW p \in Procs, Reply(p) PROVE TypeOK'
  <2>1. procs[p].key \in Keys /\ procs' \in [Procs -> Call \cup {Idle, Exited}]
    BY <1>6, CallShape, ProcsTyped DEF Reply, Busy
  <2> QED  BY <1>0, <1>6, <2>1 DEF Reply, TypeOK
<1>7. ASSUME NEW p \in Procs, Fail(p) PROVE TypeOK'
  <2>1. procs[p].key \in Keys /\ procs' \in [Procs -> Call \cup {Idle, Exited}]
    BY <1>7, CallShape, ProcsTyped, SMTT(30) DEF Fail, Busy
  <2> QED  BY <1>0, <1>7, <2>1, SMTT(30) DEF Fail, TypeOK
<1>8. ASSUME NEW p \in Callers, NEW k \in Keys, NEW op \in Ops[p], Start(p, op, k) PROVE TypeOK'
  <2>1. op \in {"claim", "mark"} /\ p \in Procs
    BY StoreAssumption DEF Procs
  <2>2. [at |-> "local", op |-> op, key |-> k, now |-> clock] \in Call
    BY <1>0, <2>1, SMTT(30) DEF Call
  <2>3. procs' \in [Procs -> Call \cup {Idle, Exited}]
    BY <1>0, <1>8, <2>1, <2>2, SMTT(30) DEF Start
  <2> QED  BY <1>0, <1>8, <2>3 DEF Start, TypeOK
<1>9. ASSUME NEW w \in Workers, Take(w) PROVE TypeOK'
  <2>1. w \in Procs /\ Owner[w] \in Stores
    BY StoreAssumption DEF Procs
  <2>2. /\ Head(markCh[Owner[w]]) \in Keys
        /\ Tail(markCh[Owner[w]]) \in Seq(Keys)
        /\ Len(Tail(markCh[Owner[w]])) = Len(markCh[Owner[w]]) - 1
    BY <1>0, <1>9, <2>1 DEF Take
  <2>3. [at |-> "sent", op |-> "mark", key |-> Head(markCh[Owner[w]])] \in Call
    BY <2>2, SMTT(30) DEF Call
  <2>4. procs' \in [Procs -> Call \cup {Idle, Exited}]
    BY <1>0, <1>9, <2>1, <2>3 DEF Take
  <2>5. /\ markCh' \in [Stores -> Seq(Keys)]
        /\ \A s \in Stores : Len(markCh'[s]) <= MarkQueueDepth
    <3>1. markCh' = [markCh EXCEPT ![Owner[w]] = Tail(markCh[Owner[w]])]
      BY <1>9 DEF Take
    <3>2. Len(markCh[Owner[w]]) \in Nat
      BY <1>0, <2>1
    <3> QED  BY <1>0, <2>1, <2>2, <3>1, <3>2, StoreAssumption
  <2> QED  BY <1>0, <1>9, <2>4, <2>5 DEF Take, TypeOK
<1>10. ASSUME NEW w \in Workers, Exit(w) PROVE TypeOK'
  <2>1. procs' \in [Procs -> Call \cup {Idle, Exited}]
    BY <1>0, <1>10, ZenonT(40) DEF Exit
  <2> QED  BY <1>0, <1>10, <2>1 DEF Exit, TypeOK
<1>11. ASSUME NEW s \in Stores, Close(s) PROVE TypeOK'
  BY <1>0, <1>11 DEF Close, TypeOK
<1>12. ASSUME NEW s \in Stores, CloseReturn(s) PROVE TypeOK'
  BY <1>0, <1>12 DEF CloseReturn, TypeOK
<1>13. ASSUME NEW s \in Stores, Crash(s) PROVE TypeOK'
  <2>1. local' \in [Stores -> Shard]
    BY <1>0, <1>13, EmptyInShard, SMTT(30) DEF Crash
  <2>2. /\ markCh' \in [Stores -> Seq(Keys)]
        /\ \A r \in Stores : Len(markCh'[r]) <= MarkQueueDepth
    BY <1>0, <1>13, StoreAssumption DEF Crash
  <2>3. procs' \in [Procs -> Call \cup {Idle, Exited}]
    BY <1>0, <1>13 DEF Crash
  <2>4. late' \subseteq Keys /\ orphaned' \subseteq Keys
    BY <1>0, <1>13, CallShape DEF Crash
  <2>5. phase' \in [Stores -> {"open", "closing", "closed"}] /\ crashes' \in Nat
    BY <1>0, <1>13 DEF Crash
  <2> QED  BY <1>0, <1>13, <2>1, <2>2, <2>3, <2>4, <2>5 DEF Crash, TypeOK
<1>14. ASSUME NEW k \in Keys, ApplyLate(k) PROVE TypeOK'
  <2>1. backend' \in [Keys -> Nat \cup {None}]
    BY <1>14, SetNXTyped DEF ApplyLate
  <2> QED  BY <1>0, <1>14, <2>1 DEF ApplyLate, TypeOK
<1>15. CASE Tick
  BY <1>0, <1>15 DEF Tick, TypeOK
<1>16. CASE UNCHANGED vars
  BY <1>0, <1>16 DEF vars, TypeOK
<1> QED
  BY SMTT(30), <1>1, <1>2, <1>3, <1>4, <1>5, <1>6, <1>7, <1>8, <1>9, <1>10, <1>11, <1>12,
     <1>13, <1>14, <1>15, <1>16 DEF Next, Step

(* Nobody need suppress k in vain: somebody proceeded with it or marked    *)
(* it, a claimant crashed, or a claim has won it and is about to return.   *)
Settled(k) == k \in proceeded \cup marked \cup orphaned

Won(p, k) ==
  /\ procs[p].at = "answered" /\ procs[p].op = "claim" /\ procs[p].key = k
  /\ procs[p].ok

Strong(k) == Settled(k) \/ \E p \in Procs : Won(p, k)

(* A claim of k has called the backend and has no answer yet.              *)
Asking(p, k) == procs[p].at = "sent" /\ procs[p].op = "claim" /\ procs[p].key = k

Weak(k) == Strong(k) \/ \E p \in Procs : Asking(p, k)

(* The inductive invariant.  A key in the backend, a late request and a    *)
(* claim that lost there belong to someone who proceeds, so a claim that   *)
(* asks may lose without harm; a key in a local set is at least being      *)
(* asked for, so a hit there may suppress.                                 *)
BackendCovered == \A k \in Keys : backend[k] # None => Strong(k)
LateCovered == \A k \in late : Settled(k)
LocalCovered == \A s \in Stores : \A k \in Held(local[s]) : Weak(k)
Lost(p, k) ==
  /\ procs[p].at = "answered" /\ procs[p].op = "claim" /\ procs[p].key = k
  /\ ~procs[p].ok
LostCovered == \A p \in Procs, k \in Keys : Lost(p, k) => Strong(k)
SuppressedCovered == \A k \in suppressed : Weak(k)
Sends(p) ==
  procs[p].at = "enqueue" \/ (procs[p].at \in {"sent", "answered"} /\ procs[p].op = "mark")
MarksMarked ==
  /\ \A p \in Procs : Sends(p) => procs[p].key \in marked
  /\ \A s \in Stores : \A i \in 1 .. Len(markCh[s]) : markCh[s][i] \in marked

CoverInv ==
  /\ BackendCovered /\ LateCovered /\ LocalCovered
  /\ LostCovered /\ SuppressedCovered /\ MarksMarked

(* Once a key is settled it stays so, and a winner that returns, fails or  *)
(* crashes settles its key.                                                *)
LEMMA StrongKept ==
  ASSUME TypeOK, [Next]_vars, NEW k, Strong(k)
  PROVE  Strong(k)'
<1> USE DEF history
<1>1. /\ proceeded \subseteq proceeded' /\ marked \subseteq marked'
      /\ orphaned \subseteq orphaned'
  BY ZenonT(40) DEF Next, Step, vars, ClaimLocalHit, ClaimLocalMiss, MarkLocal, Enqueue, Apply, Reply,
         Fail, Start, Take, Exit, Close, CloseReturn, Crash, ApplyLate, Tick
<1>2. CASE Settled(k)
  BY <1>1, <1>2 DEF Strong, Settled
<1>3. ASSUME NEW p \in Procs, Won(p, k)
      PROVE  Won(p, k)' \/ Settled(k)'
  <2>1. procs[p].at = "answered" /\ procs[p].op = "claim" /\ procs[p].key = k /\ Busy(p)
    BY <1>3 DEF Won, Busy
  <2>2. CASE procs'[p] = procs[p]
    BY <1>3, <2>2 DEF Won
  <2>3. ASSUME NEW q \in Procs, Step(q)
        PROVE  Won(p, k)' \/ Settled(k)'
    <3>1. CASE q # p
      <4>1. procs'[p] = procs[p]
        BY <2>3, <3>1, Zenon DEF TypeOK, Step, ClaimLocalHit, ClaimLocalMiss, MarkLocal, Enqueue,
           Apply, Reply, Fail, Moved, Returned
      <4> QED  BY <2>2, <4>1, SMTT(30)
    <3>2. CASE q = p
      <4>1. Reply(p) \/ Fail(p)
        BY <2>1, <2>3, <3>2, ZenonT(40) DEF Step, ClaimLocalHit, ClaimLocalMiss, MarkLocal, Enqueue, Apply
      <4>2. k \in proceeded'
        BY <1>3, <2>1, <4>1, Zenon DEF Reply, Fail, Won
      <4> QED  BY <4>2 DEF Settled
    <3> QED  BY <3>1, <3>2
  <2>4. ASSUME NEW c \in Callers, NEW j \in Keys, NEW op \in Ops[c], Start(c, op, j)
        PROVE  procs'[p] = procs[p]
    BY <2>1, <2>4, SMTT(30) DEF Start, TypeOK, Procs
  <2>5. ASSUME NEW w \in Workers, Take(w) \/ Exit(w)
        PROVE  procs'[p] = procs[p]
    BY <2>1, <2>5, SMTT(30) DEF Take, Exit, TypeOK, Procs
  <2>6. ASSUME NEW s \in Stores, Close(s) \/ CloseReturn(s)
        PROVE  procs'[p] = procs[p]
    BY <2>6 DEF Close, CloseReturn
  <2>7. ASSUME NEW s \in Stores, Crash(s)
        PROVE  Won(p, k)' \/ Settled(k)'
    <3>1. CASE Owner[p] = s
      <4>1. k \in orphaned'
        BY <2>1, <2>7, <3>1 DEF Crash
      <4> QED  BY <4>1, SMTT(30) DEF Settled
    <3>2. CASE Owner[p] # s
      <4>1. procs'[p] = procs[p]
        BY <2>7, <3>2 DEF Crash
      <4> QED  BY <2>2, <4>1, SMTT(30)
    <3> QED  BY <3>1, <3>2
  <2>8. ASSUME \/ \E j \in Keys : ApplyLate(j)
               \/ Tick
               \/ UNCHANGED vars
        PROVE  procs'[p] = procs[p]
    BY <2>8 DEF ApplyLate, Tick, vars
  <2> QED  BY <2>2, <2>3, <2>4, <2>5, <2>6, <2>7, <2>8 DEF Next
<1> QED  BY <1>2, <1>3, SMTT(30) DEF Strong

(* A key being asked for stays covered: a claim that loses at the backend  *)
(* loses to a key that is.                                                 *)
LEMMA WeakKept ==
  ASSUME TypeOK, BackendCovered, [Next]_vars, NEW k \in Keys, Weak(k)
  PROVE  Weak(k)'
<1> USE DEF history
<1>1. CASE Strong(k)
  BY <1>1, StrongKept, SMTT(30) DEF Weak
<1>2. ASSUME NEW p \in Procs, Asking(p, k)
      PROVE  Weak(k)'
  <2>1. procs[p].at = "sent" /\ procs[p].op = "claim" /\ procs[p].key = k /\ Busy(p)
    BY <1>2 DEF Asking, Busy
  <2>2. CASE procs'[p] = procs[p]
    BY <1>2, <2>2 DEF Weak, Asking
  <2>3. ASSUME NEW q \in Procs, Step(q)
        PROVE  Weak(k)'
    <3>1. CASE q # p
      <4>1. procs'[p] = procs[p]
        BY <2>3, <3>1, ZenonT(40) DEF TypeOK, Step, ClaimLocalHit, ClaimLocalMiss, MarkLocal, Enqueue,
           Apply, Reply, Fail, Moved, Returned
      <4> QED  BY <2>2, <4>1, SMTT(30)
    <3>2. CASE q = p
      <4>1. Apply(p) \/ Fail(p)
        BY <2>1, <2>3, <3>2, Zenon DEF Step, ClaimLocalHit, ClaimLocalMiss, MarkLocal, Enqueue, Reply
      <4>2. CASE Fail(p)
        <5>1. k \in proceeded'
          BY <2>1, <4>2, Zenon DEF Fail
        <5> QED  BY <5>1, SMTT(30) DEF Weak, Strong, Settled
      <4>3. CASE Apply(p) /\ Live(k)
        BY <1>1, <4>3 DEF Live, BackendCovered
      <4>4. CASE Apply(p) /\ ~Live(k)
        <5>1. procs'[p] = [at |-> "answered", op |-> "claim", key |-> k, ok |-> TRUE]
          BY <2>1, <4>4, ZenonT(40) DEF Apply, TypeOK
        <5>2. Won(p, k)'
          BY <4>4, <5>1 DEF Won
        <5> QED  BY <5>2 DEF Weak, Strong
      <4> QED  BY <4>1, <4>2, <4>3, <4>4
    <3> QED  BY <3>1, <3>2
  <2>4. ASSUME NEW c \in Callers, NEW j \in Keys, NEW op \in Ops[c], Start(c, op, j)
        PROVE  procs'[p] = procs[p]
    BY <2>1, <2>4 DEF Start, TypeOK, Procs
  <2>5. ASSUME NEW w \in Workers, Take(w) \/ Exit(w)
        PROVE  procs'[p] = procs[p]
    BY <2>1, <2>5, SMTT(30) DEF Take, Exit, TypeOK, Procs
  <2>6. ASSUME NEW s \in Stores, Close(s) \/ CloseReturn(s)
        PROVE  procs'[p] = procs[p]
    BY <2>6 DEF Close, CloseReturn
  <2>7. ASSUME NEW s \in Stores, Crash(s)
        PROVE  Weak(k)'
    <3>1. CASE Owner[p] = s
      <4>1. k \in orphaned'
        BY <2>1, <2>7, <3>1 DEF Crash
      <4> QED  BY <4>1, SMTT(30) DEF Weak, Strong, Settled
    <3>2. CASE Owner[p] # s
      <4>1. procs'[p] = procs[p]
        BY <2>7, <3>2, Zenon DEF Crash
      <4> QED  BY <2>2, <4>1, SMTT(30)
    <3> QED  BY <3>1, <3>2
  <2>8. ASSUME \/ \E j \in Keys : ApplyLate(j)
               \/ Tick
               \/ UNCHANGED vars
        PROVE  procs'[p] = procs[p]
    BY <2>8, SMTT(30) DEF ApplyLate, Tick, vars
  <2> QED  BY <2>2, <2>3, <2>4, <2>5, <2>6, <2>7, <2>8, SMTT(30) DEF Next
<1> QED  BY <1>1, <1>2 DEF Weak

(* Settled keys stay settled.                                              *)
LEMMA SettledKept ==
  ASSUME [Next]_vars, NEW k, Settled(k)
  PROVE  Settled(k)'
  BY ZenonT(40) DEF Settled, Next, Step, vars, history, ClaimLocalHit, ClaimLocalMiss, MarkLocal, Enqueue,
         Apply, Reply, Fail, Start, Take, Exit, Close, CloseReturn, Crash, ApplyLate, Tick

(* A key enters the backend by the request of a claim, which has then won, *)
(* of a worker, whose key is marked, or of a caller that gave up.          *)
LEMMA BackendStep ==
  ASSUME TypeOK, CoverInv, [Next]_vars
  PROVE  BackendCovered'
<1> SUFFICES ASSUME NEW k \in Keys, backend'[k] # None PROVE Strong(k)'
  BY DEF BackendCovered
<1>1. CASE backend[k] # None
  BY <1>1, StrongKept DEF CoverInv, BackendCovered
<1>2. ASSUME NEW p \in Procs, Apply(p), backend[k] = None
      PROVE  Strong(k)'
  <2>1. procs[p].key \in Keys /\ procs[p].op \in {"claim", "mark"} /\ procs[p].at = "sent"
    BY <1>2, CallShape DEF Apply, Busy
  <2>2. procs[p].key = k
    BY <1>2, <2>1, SetNXTyped DEF Apply
  <2>3. ~Live(k)
    BY <1>2 DEF Live
  <2>4. CASE procs[p].op = "claim"
    <3>1. procs'[p] = [at |-> "answered", op |-> "claim", key |-> k, ok |-> TRUE]
      BY <1>2, <2>2, <2>3, <2>4, Zenon DEF Apply, TypeOK
    <3>2. Won(p, k)'
      BY <3>1 DEF Won
    <3> QED  BY <3>2, SMTT(30) DEF Strong
  <2>5. CASE procs[p].op = "mark"
    <3>1. k \in marked
      BY <2>1, <2>2, <2>5 DEF CoverInv, MarksMarked, Sends
    <3> QED  BY <3>1, StrongKept DEF Strong, Settled
  <2> QED  BY <2>1, <2>4, <2>5
<1>3. ASSUME NEW j \in Keys, ApplyLate(j), backend[k] = None
      PROVE  Strong(k)'
  <2>1. j = k
    BY <1>3, SetNXTyped DEF ApplyLate
  <2>2. Strong(k)
    BY <1>3, <2>1, SMTT(30) DEF ApplyLate, CoverInv, LateCovered, Strong
  <2> QED  BY <2>2, StrongKept
<1>4. \/ backend' = backend
      \/ \E p \in Procs : Apply(p)
      \/ \E j \in Keys : ApplyLate(j)
  BY ZenonT(40) DEF Next, Step, vars, ClaimLocalHit, ClaimLocalMiss, MarkLocal, Enqueue, Reply, Fail,
         Start, Take, Exit, Close, CloseReturn, Crash, Tick
<1> QED  BY <1>1, <1>2, <1>3, <1>4

(* A request left behind is of a claim that proceeds or crashed, or of a   *)
(* mark.                                                                   *)
LEMMA LateStep ==
  ASSUME TypeOK, CoverInv, [Next]_vars
  PROVE  LateCovered'
<1> SUFFICES ASSUME NEW k \in late' PROVE Settled(k)'
  BY DEF LateCovered
<1>1. CASE k \in late
  BY <1>1, SettledKept DEF CoverInv, LateCovered
<1>2. ASSUME NEW p \in Procs, procs[p].at = "sent", procs[p].key = k, procs[p].op = "mark"
      PROVE  Settled(k)'
  <2>1. Settled(k)
    BY <1>2 DEF CoverInv, MarksMarked, Sends, Settled
  <2> QED  BY <2>1, SettledKept
<1>3. ASSUME NEW p \in Procs, Fail(p), k \notin late
      PROVE  Settled(k)'
  <2>1. procs[p].at = "sent" /\ procs[p].key = k
    BY <1>3 DEF Fail
  <2>2. procs[p].op \in {"claim", "mark"}
    BY <2>1, CallShape, SMTT(30) DEF Busy
  <2>3. CASE procs[p].op = "claim"
    BY <1>3, <2>1, <2>3, SMTT(30) DEF Fail, Settled
  <2> QED  BY <1>2, <2>1, <2>2, <2>3, SMTT(30)
<1>4. ASSUME NEW s \in Stores, Crash(s), k \notin late
      PROVE  Settled(k)'
  <2>1. PICK p \in Procs : procs[p].at = "sent" /\ procs[p].key = k /\ Owner[p] = s
    BY <1>4, Zenon DEF Crash
  <2>2. procs[p].op \in {"claim", "mark"} /\ Busy(p)
    BY <2>1, CallShape, SMTT(30) DEF Busy
  <2>3. CASE procs[p].op = "claim"
    BY <1>4, <2>1, <2>2, <2>3, SMTT(30) DEF Crash, Settled
  <2> QED  BY <1>2, <2>1, <2>2, <2>3, SMTT(30)
<1>5. \/ late' \subseteq late
      \/ \E p \in Procs : Fail(p)
      \/ \E s \in Stores : Crash(s)
  BY Zenon DEF Next, Step, vars, ClaimLocalHit, ClaimLocalMiss, MarkLocal, Enqueue, Apply, ApplyLate,
         Reply, Start, Take, Exit, Close, CloseReturn, Tick
<1> QED  BY <1>1, <1>3, <1>4, <1>5
=============================================================================
