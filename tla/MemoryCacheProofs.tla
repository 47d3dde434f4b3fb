------------------------- MODULE MemoryCacheProofs --------------------------
(***************************************************************************)
(* Theorems about MemoryCache, for every value of its constants.           *)
(***************************************************************************)
EXTENDS MemoryCacheQueues

(***************************************************************************)
(* Store.  The new item goes to the end of its queue: no deadline of a TTL *)
(* queue lies beyond now plus that TTL, and a write that never expires has *)
(* a number no earlier write has.  When the entry replaced carries the     *)
(* same deadline, the item queued for it serves the new entry.             *)
(***************************************************************************)

(* What a sequence holds once an element is appended.                      *)
LEMMA AppendOne ==
  ASSUME NEW A, NEW s \in Seq(A), NEW x \in A
  PROVE  /\ Append(s, x) \in Seq(A) /\ Len(s) \in Nat
         /\ DOMAIN s = 1..Len(s) /\ DOMAIN Append(s, x) = 1..(Len(s) + 1)
         /\ \A i \in 1..Len(s) : Append(s, x)[i] = s[i]
         /\ Append(s, x)[Len(s) + 1] = x
OBVIOUS

(* A deadline that passed the overflow test of put fits an int64.          *)
LEMMA NoOverflow ==
  ASSUME NEW ttl \in Int, NEW now \in Nat, Expires(ttl, now)
  PROVE  Int64(now + ttl) = now + ttl /\ now + ttl <= MaxInt
BY LimitsAssumption DEF Int64, Expires

(* put storing its entry and queueing its item keeps the invariant.        *)
LEMMA StoreInv == IndInv /\ Store => IndInv'
<1> SUFFICES ASSUME IndInv, Store
             PROVE  IndInv'
  OBVIOUS
<1> DEFINE k        == op.key
           expires  == Expires(op.ttl, op.now)
           q        == IF expires THEN op.ttl ELSE 0
           deadline == IF expires THEN Int64(op.now + op.ttl) ELSE -(writes + 1)
           queued   == Queued(deadline)
           it       == [key |-> k, deadline |-> deadline]
           e        == [value |-> op.val, deadline |-> deadline]
<1>1. /\ TypeOK /\ k \in Keys /\ op.val \in Values /\ op.prev = data[k]
      /\ op.now = clock /\ clock \in Nat /\ writes \in Nat /\ op.ttl \in TTLs \cup {0}
      /\ op.why \in {"keys", "bytes"}
  BY OpFields, SMTT(30) DEF Store, IndInv, TypeOK, OperationKnows, Putting
<1>2. /\ expires => /\ q \in PositiveTTLs /\ q \in Int /\ deadline \in Int
                    /\ deadline > 0 /\ deadline = clock + q
      /\ ~expires => q = 0 /\ deadline = -(writes + 1)
  <2>1. op.ttl \in Int
    <3>1. \A t \in TTLs : t \in Int
      BY TTLsAssumption
    <3>2. op.ttl \in TTLs \/ op.ttl = 0
      BY <1>1
    <3> QED
      BY <3>1, <3>2
  <2>2. expires => op.ttl > 0 /\ op.ttl \in PositiveTTLs
    BY <2>1, <1>1 DEF Expires, PositiveTTLs
  <2>3. CASE expires
    BY <2>1, <2>2, <2>3, <1>1, NoOverflow, SMTT(30)
  <2>4. CASE ~expires
    BY <2>4, SMTT(30)
  <2> QED
    BY <2>3, <2>4
<1>3. q \in QueueIds /\ deadline \in Int /\ it \in Item /\ e \in Entry /\ e # None
  BY <1>1, <1>2, NoneAssumption DEF QueueIds, Item, Entry
<1>4. /\ data' = [data EXCEPT ![k] = e]
      /\ writes' = IF expires THEN writes ELSE writes + 1
      /\ ttlQueues' = IF expires /\ \A i \in DOMAIN ttlQueues : ttlQueues[i] # q
                      THEN Append(ttlQueues, q) ELSE ttlQueues
      /\ bytes' = bytes - SizeOf(op.prev) + Size[op.val]
      /\ clock' = clock /\ expirer' = expirer /\ stop' = stop /\ reads' = reads
  BY DEF Store
<1>5. \/ queued /\ op' = Idle /\ queue' = queue /\ items' = items
      \/ /\ ~queued
         /\ queue' = [queue EXCEPT ![q] = Append(@, it)]
         /\ items' = items + 1
         /\ op' = [op EXCEPT !.pc = "trim", !.ttl = q,
                     !.budget = IF expires THEN WriteExpireBudget ELSE 0]
  BY SMTT(30) DEF Store, Release
<1> HIDE DEF e, it, deadline, q
<1>6. /\ Present' = Present \cup {k} /\ data'[k] = e
      /\ \A j \in Keys : j # k => data'[j] = data[j]
  BY <1>1, <1>3, <1>4 DEF TypeOK, Present
<1>7. /\ ttlQueues' \in Seq(PositiveTTLs)
      /\ \A i \in DOMAIN ttlQueues : i \in DOMAIN ttlQueues' /\ ttlQueues'[i] = ttlQueues[i]
      /\ expires => \E i \in DOMAIN ttlQueues' : ttlQueues'[i] = q
  <2>1. ttlQueues \in Seq(PositiveTTLs)
    BY <1>1 DEF TypeOK
  <2>2. CASE expires /\ \A i \in DOMAIN ttlQueues : ttlQueues[i] # q
    <3>1. ttlQueues' = Append(ttlQueues, q)
      BY <2>2, <1>4
    <3>2. q \in PositiveTTLs
      BY <2>2, <1>2
    <3>3. /\ ttlQueues' \in Seq(PositiveTTLs) /\ Len(ttlQueues) \in Nat
          /\ DOMAIN ttlQueues = 1..Len(ttlQueues)
          /\ DOMAIN ttlQueues' = 1..(Len(ttlQueues) + 1)
          /\ \A i \in 1..Len(ttlQueues) : ttlQueues'[i] = ttlQueues[i]
          /\ ttlQueues'[Len(ttlQueues) + 1] = q
      BY <2>1, <3>1, <3>2, AppendOne, SMTT(30)
    <3> QED
      BY <3>3
  <2>3. CASE ~(expires /\ \A i \in DOMAIN ttlQueues : ttlQueues[i] # q)
    BY <2>1, <2>3, <1>4, SMTT(30)
  <2> QED
    BY <2>2, <2>3
<1>8. bytes' \in Int
  <2>1. SizeOf(op.prev) \in Int /\ Size[op.val] \in Int
    BY <1>1, SizesAssumption, SMTT(30) DEF SizeOf, TypeOK, Entry
  <2> QED
    BY <2>1, <1>1, <1>4 DEF TypeOK
<1>9. data' \in [Keys -> Entry \cup {None}] /\ writes' \in Nat
  BY <1>1, <1>3, <1>4 DEF TypeOK
<1>10. e.deadline = deadline /\ it = [key |-> k, deadline |-> e.deadline]
  BY DEF e, it
<1>11. /\ deadline # 0 /\ -writes' <= deadline
       /\ \A d \in Int : -writes <= d => -writes' <= d
  BY <1>1, <1>2, <1>3, <1>4, SMTT(30)
<1>12. \A j \in Present' : data'[j].deadline # 0 /\ -writes' <= data'[j].deadline
  <2> SUFFICES ASSUME NEW j \in Present'
               PROVE  data'[j].deadline # 0 /\ -writes' <= data'[j].deadline
    OBVIOUS
  <2>1. CASE j = k
    BY <2>1, <1>6, <1>10, <1>11, SMTT(30)
  <2>2. CASE j # k
    <3>1. j \in Present /\ data'[j] = data[j] /\ data[j].deadline \in Int
      BY <2>2, <1>6, <1>1, <1>9, SMTT(30) DEF Present, TypeOK, Entry
    <3>2. data[j].deadline # 0 /\ -writes <= data[j].deadline
      BY <3>1 DEF IndInv, DeadlinesBounded
    <3> QED
      BY <3>1, <3>2, <1>11, SMTT(30)
  <2> QED
    BY <2>1, <2>2, SMTT(30)
<1>13. CASE queued
  <2>1. op' = Idle /\ queue' = queue /\ items' = items
    BY <1>13, <1>5, SMTT(30)
  <2>2. TypeOK'
    BY <2>1, <1>1, <1>4, <1>7, <1>8, <1>9, IdleType, SMTT(30) DEF TypeOK
  <2>3. k \in Present /\ data[k].deadline = deadline
    BY <1>13, <1>1 DEF Present, Queued
  <2>4. expires
    <3> SUFFICES ASSUME ~expires
                 PROVE  FALSE
      OBVIOUS
    <3>1. -writes <= deadline
      BY <2>3 DEF IndInv, DeadlinesBounded
    <3> QED
      BY <3>1, <1>1, <1>2
  <2>5. QueuesSorted'
    BY <2>1, SMTT(30) DEF IndInv, QueuesSorted
  <2>6. DeadlinesBounded'
    BY <2>1, <2>4, <1>4, <1>12, SMTT(30) DEF IndInv, DeadlinesBounded
  <2>7. \A j \in Present' : j \in Present /\ data'[j].deadline = data[j].deadline
    BY <2>3, <1>6, <1>10, SMTT(30) DEF Present
  <2>8. EntriesQueued'
    BY <2>1, <2>7, <1>7 DEF IndInv, EntriesQueued
  <2>9. OperationKnows'
    BY <2>1, IdleKnows
  <2> QED
    BY <2>2, <2>5, <2>6, <2>8, <2>9, SMTT(30) DEF IndInv
<1>14. CASE ~queued
  <2>1. /\ queue' = [queue EXCEPT ![q] = Append(@, it)]
        /\ items' = items + 1
        /\ op' = [op EXCEPT !.pc = "trim", !.ttl = q,
                     !.budget = IF expires THEN WriteExpireBudget ELSE 0]
    BY <1>14, <1>5
  <2>2. queue[q] \in Seq(Item) /\ queue'[q] = Append(queue[q], it)
    BY <2>1, <1>1, <1>3, SMTT(30) DEF TypeOK
  <2>3. /\ queue'[q] \in Seq(Item) /\ Len(queue[q]) \in Nat
        /\ DOMAIN queue[q] = 1..Len(queue[q])
        /\ DOMAIN queue'[q] = 1..(Len(queue[q]) + 1)
        /\ \A i \in 1..Len(queue[q]) : queue'[q][i] = queue[q][i]
        /\ queue'[q][Len(queue[q]) + 1] = it
    BY <2>2, <1>3, AppendOne
  <2>4. \A p \in QueueIds : p # q => queue'[p] = queue[p]
    BY <2>1, <1>1 DEF TypeOK
  <2>5. queue' \in [QueueIds -> Seq(Item)] /\ items' \in Int
    BY <2>1, <2>2, <2>3, <1>1, SMTT(30) DEF TypeOK
  <2>6. op' \in OpType
    <3>1. q \in TTLs \cup {0}
      BY <1>3 DEF QueueIds, PositiveTTLs
    <3>2. (IF expires THEN WriteExpireBudget ELSE 0) \in Nat
      BY LimitsAssumption
    <3> QED
      BY <2>1, <3>1, <3>2, <1>1, ZenonT(40) DEF TypeOK, OpType, PCs
  <2>7. TypeOK'
    BY <2>5, <2>6, <1>1, <1>4, <1>7, <1>8, <1>9, SMTT(30) DEF TypeOK
  <2>8. OperationKnows'
    BY <2>1, <1>1, <1>3, <1>4, SMTT(30) DEF OperationKnows, Putting, TypeOK, OpType
  <2>9. it.deadline = deadline
    BY DEF it
  <2>10. \A i \in DOMAIN queue[q] :
           IF expires THEN queue[q][i].deadline <= deadline /\ 0 < deadline
           ELSE queue[q][i].deadline > deadline
    <3>1. \A i \in DOMAIN queue[q] : queue[q][i].deadline \in Int
      BY <1>1, <1>3, ItemDeadline, SMTT(30)
    <3> QED
      BY <3>1, <1>1, <1>2, <1>3, SMTT(30) DEF IndInv, DeadlinesBounded
  <2>11. QueuesSorted'
    <3>1. \A i, j \in DOMAIN queue'[q] : i < j =>
             IF expires THEN queue'[q][i].deadline <= queue'[q][j].deadline
             ELSE queue'[q][i].deadline > queue'[q][j].deadline
      <4> SUFFICES ASSUME NEW i \in DOMAIN queue'[q], NEW j \in DOMAIN queue'[q], i < j
                   PROVE  IF expires THEN queue'[q][i].deadline <= queue'[q][j].deadline
                          ELSE queue'[q][i].deadline > queue'[q][j].deadline
        OBVIOUS
      <4>1. i \in DOMAIN queue[q] /\ queue'[q][i] = queue[q][i]
        BY <2>3, SMTT(30)
      <4>2. CASE j = Len(queue[q]) + 1
        BY <4>1, <4>2, <2>3, <2>9, <2>10, SMTT(30)
      <4>3. CASE j # Len(queue[q]) + 1
        <5>1. j \in DOMAIN queue[q] /\ queue'[q][j] = queue[q][j]
          BY <4>3, <2>3, SMTT(30)
        <5> QED
          BY <4>1, <5>1, <1>2, SMTT(30) DEF IndInv, QueuesSorted
      <4> QED
        BY <4>2, <4>3
    <3> QED
      BY <3>1, <2>4, <1>2, SMTT(30) DEF IndInv, QueuesSorted, QueueIds, PositiveTTLs
  <2>12. DeadlinesBounded'
    <3>1. ASSUME NEW p \in PositiveTTLs, NEW j \in DOMAIN queue'[p]
          PROVE  0 < queue'[p][j].deadline /\ queue'[p][j].deadline <= clock' + p
      <4>1. CASE j \in DOMAIN queue[p] /\ queue'[p][j] = queue[p][j]
        <5>1. 0 < queue[p][j].deadline /\ queue[p][j].deadline <= clock + p
          <6>1. DeadlinesBounded
            BY DEF IndInv
          <6> QED
            BY <4>1, <6>1 DEF DeadlinesBounded
        <5> QED
          BY <4>1, <5>1, <1>4
      <4>2. CASE p = q /\ j = Len(queue[q]) + 1
        BY <4>2, <2>3, <2>9, <1>1, <1>2, <1>4, SMTT(30) DEF PositiveTTLs
      <4>3. CASE p # q
        <5>1. queue'[p] = queue[p]
          BY <4>3, <2>4 DEF QueueIds
        <5> QED
          BY <3>1, <5>1, <4>1
      <4>4. CASE p = q
        <5>1. j = Len(queue[q]) + 1 \/ j \in 1..Len(queue[q])
          BY <3>1, <4>4, <2>3
        <5> QED
          BY <5>1, <4>4, <4>1, <4>2, <2>3, SMTT(30)
      <4> QED
        BY <4>3, <4>4
    <3>2. ASSUME NEW j \in DOMAIN queue'[0]
          PROVE  -writes' <= queue'[0][j].deadline /\ queue'[0][j].deadline < 0
      <4>1. CASE j \in DOMAIN queue[0] /\ queue'[0][j] = queue[0][j]
        <5>1. queue[0][j].deadline \in Int
          BY <4>1, <1>1, ItemDeadline, SMTT(30) DEF QueueIds
        <5> QED
          BY <4>1, <5>1, <1>11, SMTT(30) DEF IndInv, DeadlinesBounded
      <4>2. CASE 0 = q /\ j = Len(queue[q]) + 1
        <5>1. ~expires
          BY <4>2, <1>2 DEF PositiveTTLs
        <5> QED
          BY <4>2, <5>1, <2>3, <2>9, <1>1, <1>2, <1>11, SMTT(30)
      <4>3. CASE 0 # q
        <5>1. queue'[0] = queue[0]
          BY <4>3, <2>4 DEF QueueIds
        <5> QED
          BY <3>2, <5>1, <4>1
      <4>4. CASE 0 = q
        <5>1. j = Len(queue[q]) + 1 \/ j \in 1..Len(queue[q])
          BY <3>2, <4>4, <2>3
        <5> QED
          BY <5>1, <4>4, <4>1, <4>2, <2>3, SMTT(30)
      <4> QED
        BY <4>3, <4>4
    <3> QED
      BY <3>1, <3>2, <1>12, SMTT(30) DEF DeadlinesBounded
  <2>13. \A p \in QueueIds : \A j \in DOMAIN queue[p] :
            j \in DOMAIN queue'[p] /\ queue'[p][j] = queue[p][j]
    BY <2>3, <2>4
  <2>14. \A i \in DOMAIN ttlQueues : ttlQueues[i] \in QueueIds
    BY <1>1, SMTT(30) DEF TypeOK, QueueIds
  <2>15. EntriesQueued'
    <3> SUFFICES ASSUME NEW j \in Present'
                 PROVE  LET it1 == [key |-> j, deadline |-> data'[j].deadline]
                            In(p) == \E i \in DOMAIN queue'[p] : queue'[p][i] = it1
                        IN  IF it1.deadline <= 0 THEN In(0)
                            ELSE \E i \in DOMAIN ttlQueues' : In(ttlQueues'[i])
      BY SMTT(30) DEF EntriesQueued
    <3>1. CASE j = k
      <4>1. \E i \in DOMAIN queue'[q] :
               queue'[q][i] = [key |-> j, deadline |-> data'[j].deadline]
        BY <3>1, <2>3, <1>6, <1>10, SMTT(30)
      <4>2. data'[j].deadline = deadline
        BY <3>1, <1>6, <1>10, SMTT(30)
      <4>3. CASE expires
        <5>1. PICK i \in DOMAIN ttlQueues' : ttlQueues'[i] = q
          BY <4>3, <1>7, SMTT(30)
        <5>2. ~(deadline <= 0)
          BY <4>3, <1>2, SMTT(30)
        <5> QED
          BY <4>1, <4>2, <5>1, <5>2, SMTT(30)
      <4>4. CASE ~expires
        <5>1. deadline <= 0 /\ q = 0
          BY <4>4, <1>1, <1>2, SMTT(30)
        <5> QED
          BY <4>1, <4>2, <5>1, SMTT(30)
      <4> QED
        BY <4>3, <4>4, SMTT(30)
    <3>2. CASE j # k
      <4>1. j \in Present /\ data'[j] = data[j]
        BY <3>2, <1>6 DEF Present
      <4>2. 0 \in QueueIds
        BY SMTT(30) DEF QueueIds
      <4> QED
        BY <4>1, <4>2, <2>13, <2>14, <1>7, SMTT(30) DEF IndInv, EntriesQueued
    <3> QED
      BY <3>1, <3>2, SMTT(30)
  <2> QED
    BY <2>7, <2>8, <2>11, <2>12, <2>15, SMTT(30) DEF IndInv
<1> QED
  BY <1>13, <1>14

(* Del keeps the invariant.                                                *)
LEMMA DelInv ==
  ASSUME IndInv, NEW k \in Keys, Del(k)
  PROVE  IndInv'
<1>1. \A j \in Present' : j \in Present /\ data'[j] = data[j]
  BY SMTT(30) DEF Del, Present, IndInv, TypeOK
<1>2. TypeOK'
  <2>1. SizeOf(data[k]) \in Int
    BY SizesAssumption, SMTT(30) DEF SizeOf, IndInv, TypeOK, Entry
  <2>2. bytes' \in Int /\ data' \in [Keys -> Entry \cup {None}]
    BY <2>1, SMTT(30) DEF Del, IndInv, TypeOK
  <2> QED
    BY <2>2, SMTT(30) DEF Del, IndInv, TypeOK
<1>3. QueuesSorted' /\ DeadlinesBounded'
  BY <1>1, SMTT(30) DEF Del, IndInv, QueuesSorted, DeadlinesBounded
<1>4. EntriesQueued'
  <2>1. queue' = queue /\ ttlQueues' = ttlQueues
    BY DEF Del
  <2>2. EntriesQueued
    BY DEF IndInv
  <2> QED
    BY <1>1, <2>1, <2>2, SMTT(30) DEF EntriesQueued
<1>5. OperationKnows'
  BY DEF Del, IndInv, OperationKnows, Putting
<1> QED
  BY <1>2, <1>3, <1>4, <1>5, SMTT(30) DEF IndInv

(* The two steps of Get keep the invariant.                                *)
LEMMA GetInv ==
  ASSUME IndInv, NEW r \in Readers, GetReturn(r) \/ \E k \in Keys : GetRead(r, k)
  PROVE  IndInv'
<1>1. QueueInv'
  BY UnchangedQueues, SMTT(30) DEF IndInv, QueueInv, GetReturn, GetRead
<1>2. TypeOK'
  <2> DEFINE Read == [key : Keys, entry : Entry \cup {None}]
  <2>1. UNCHANGED <<clock, data, queue, ttlQueues, writes, items, bytes, op, expirer, stop>>
    BY Zenon DEF GetReturn, GetRead, shardVars
  <2>2. reads \in [Readers -> Read \cup {None}]
    BY DEF IndInv, TypeOK
  <2>3. CASE GetReturn(r)
    <3>1. reads' = [reads EXCEPT ![r] = None]
      BY <2>3 DEF GetReturn
    <3> QED
      BY <2>1, <2>2, <3>1 DEF IndInv, TypeOK
  <2>4. ASSUME NEW k \in Keys, GetRead(r, k) PROVE TypeOK'
    <3>1. reads' = [reads EXCEPT ![r] = [key |-> k, entry |-> data[k]]]
      BY <2>4 DEF GetRead
    <3>2. data[k] \in Entry \cup {None}
      BY DEF IndInv, TypeOK
    <3>3. [key |-> k, entry |-> data[k]] \in Read
      BY <3>2
    <3>4. reads' \in [Readers -> Read \cup {None}]
      <4> HIDE DEF Read
      <4> QED
        BY <2>2, <3>1, <3>3
    <3> QED
      BY <2>1, <3>4 DEF IndInv, TypeOK
  <2> QED
    BY <2>3, <2>4
<1>3. OperationKnows'
  BY Zenon DEF GetReturn, GetRead, IndInv, OperationKnows, Putting, shardVars
<1> QED
  BY <1>1, <1>2, <1>3, SMTT(30) DEF IndInv, QueueInv

(* The expirer's own steps and Close keep the invariant.                   *)
LEMMA ExpirerInv ==
  IndInv /\ (ExpirerTick \/ ExpirerLock \/ ExpirerExit \/ Close) => IndInv'
<1> SUFFICES ASSUME IndInv, ExpirerTick \/ ExpirerLock \/ ExpirerExit \/ Close
             PROVE  IndInv'
  OBVIOUS
<1>1. QueueInv'
  BY UnchangedQueues DEF IndInv, QueueInv, ExpirerTick, ExpirerLock, ExpirerExit, Close
<1>2. op' \in OpType
  <2>1. [Idle EXCEPT !.pc = "expire", !.why = "pass", !.at = 1,
                     !.budget = ExpireBatch, !.now = clock] \in OpType
    BY LimitsAssumption, ZenonT(40) DEF Idle, OpType, PCs, IndInv, TypeOK
  <2> QED
    BY <2>1 DEF ExpirerTick, ExpirerLock, ExpirerExit, Close, IndInv, TypeOK
<1>3. stop' \in BOOLEAN
  BY Zenon DEF ExpirerTick, ExpirerLock, ExpirerExit, Close, IndInv, TypeOK
<1>4. TypeOK'
  BY <1>2, <1>3 DEF ExpirerTick, ExpirerLock, ExpirerExit, Close, IndInv, TypeOK, shardVars
<1>5. OperationKnows'
  <2>1. CASE ExpirerLock
    <3>1. /\ op'.pc = "expire" /\ op'.why = "pass" /\ op'.at = 1 /\ op'.now = clock
          /\ clock' = clock
      BY <2>1, SMTT(30) DEF ExpirerLock, Idle
    <3> QED
      BY <3>1 DEF OperationKnows, Putting
  <2>2. CASE ExpirerTick \/ ExpirerExit \/ Close
    BY <2>2 DEF ExpirerTick, ExpirerExit, Close, IndInv, OperationKnows, Putting, shardVars
  <2> QED
    BY <2>1, <2>2
<1> QED
  BY <1>1, <1>4, <1>5 DEF IndInv, QueueInv

(* The passing of time keeps the invariant.                                *)
LEMMA TickInv == IndInv /\ Tick => IndInv'
<1> SUFFICES ASSUME IndInv, Tick
             PROVE  IndInv'
  OBVIOUS
<1>1. clock \in Nat /\ clock' = clock + 1
  BY SMTT(30) DEF Tick, IndInv, TypeOK
<1>2. TypeOK'
  BY <1>1, SMTT(30) DEF Tick, IndInv, TypeOK, shardVars
<1>6. /\ data' = data /\ queue' = queue /\ ttlQueues' = ttlQueues
      /\ writes' = writes /\ Present' = Present
  BY Zenon DEF Tick, Present, shardVars
<1>3. QueuesSorted' /\ EntriesQueued'
  <2>1. QueuesSorted'
    BY <1>6, Zenon DEF IndInv, QueuesSorted
  <2>2. EntriesQueued'
    BY <1>6, Zenon DEF IndInv, EntriesQueued
  <2> QED
    BY <2>1, <2>2
<1>4. DeadlinesBounded'
  <2>1. ASSUME NEW q \in PositiveTTLs, NEW j \in DOMAIN queue[q]
        PROVE  0 < queue[q][j].deadline /\ queue[q][j].deadline <= clock' + q
    <3>1. queue[q][j].deadline \in Int /\ q \in Int
      BY ItemDeadline, TTLsAssumption, Zenon DEF IndInv, PositiveTTLs, QueueIds
    <3> QED
      BY <3>1, <1>1, SMTT(30) DEF IndInv, DeadlinesBounded
  <2> QED
    BY <1>6, <2>1, Zenon DEF IndInv, DeadlinesBounded
<1>5. OperationKnows'
  BY DEF Tick, IndInv, OperationKnows, Putting, shardVars
<1> QED
  BY <1>2, <1>3, <1>4, <1>5, SMTT(30) DEF IndInv

(***************************************************************************)
(* Every step keeps the inductive invariant.                               *)
(***************************************************************************)
LEMMA NextIndInv == IndInv /\ [Next]_vars => IndInv'
<1> SUFFICES ASSUME IndInv, [Next]_vars
             PROVE  IndInv'
  OBVIOUS
<1>1. ASSUME NEW k \in Keys, NEW v \in Values, NEW ttl \in TTLs,
             Set(k, v, ttl) \/ SetNX(k, v, ttl)
      PROVE  IndInv'
  BY <1>1, BeginPutInv, Zenon DEF Set, SetNX
<1>2. CASE HolderStep
  BY <1>2, CheckBytesInv, ExpirePopInv, ExpireNextQueueInv, ExpireDoneInv, EvictPopInv,
     EvictDoneInv, StoreInv, TrimPopInv, TrimDoneInv, CompactInv DEF HolderStep
<1>3. ASSUME NEW k \in Keys, Del(k)
      PROVE  IndInv'
  BY <1>3, DelInv
<1>4. ASSUME NEW r \in Readers, GetReturn(r) \/ \E k \in Keys : GetRead(r, k)
      PROVE  IndInv'
  BY <1>4, GetInv
<1>5. CASE ExpirerTick \/ ExpirerLock \/ ExpirerExit \/ Close
  BY <1>5, ExpirerInv
<1>6. CASE Tick
  BY <1>6, TickInv
<1>7. CASE UNCHANGED vars
  <2>1. QueueInv'
    BY <1>7, UnchangedQueues, SMTT(30) DEF IndInv, QueueInv, vars
  <2>2. TypeOK' /\ OperationKnows'
    BY <1>7 DEF IndInv, TypeOK, OperationKnows, Putting, vars, shardVars
  <2> QED
    BY <2>1, <2>2 DEF IndInv, QueueInv
<1> QED
  BY <1>1, <1>2, <1>3, <1>4, <1>5, <1>6, <1>7 DEF Next

(* The inductive invariant holds in every state of the shard of memory.go. *)
THEOREM Invariance == Spec => []IndInv
BY InitIndInv, NextIndInv, PTL DEF Spec

(* Type correctness of the shard's state under every operation.            *)
THEOREM TypeCorrect == Spec => []TypeOK
BY Invariance, PTL DEF IndInv

(* No operation of memory.go loses track of an entry: every entry keeps a  *)
(* current item in a queue that expiry and eviction visit.                 *)
THEOREM EveryEntryQueued == Spec => []EntriesQueued
BY Invariance, PTL DEF IndInv

(* The queues stay in deadline order, so popping expired heads pops every  *)
(* expired item.                                                           *)
THEOREM EveryQueueSorted == Spec => []QueuesSorted
BY Invariance, PTL DEF IndInv
=============================================================================
