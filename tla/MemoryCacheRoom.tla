--------------------------- MODULE MemoryCacheRoom --------------------------
(***************************************************************************)
(* What makeRoom achieves, proved for every value of the constants: a      *)
(* write evicts nothing while an expired entry is left, and the shard      *)
(* never holds more entries than its cap.                                  *)
(***************************************************************************)
EXTENDS MemoryCacheProofs

(* The queues expire has been through hold no expired item, and when a     *)
(* write goes on to evict it has been through all of them.                 *)
PassedQueuesClean ==
  \A i \in DOMAIN ttlQueues :
    (op.pc = "expire" /\ i < op.at) \/ op.pc = "evict"
      => \A j \in DOMAIN queue[ttlQueues[i]] :
           queue[ttlQueues[i]][j].deadline > op.now

(***************************************************************************)
(* A pop leaves only items that were there before.                         *)
(***************************************************************************)
LEMMA PopLeaves ==
  ASSUME TypeOK, NEW q \in QueueIds, queue[q] # <<>>, Pop(q),
         NEW p \in QueueIds, NEW j \in DOMAIN queue'[p]
  PROVE  \E i \in DOMAIN queue[p] : queue'[p][j] = queue[p][i]
<1>1. CASE p # q
  BY <1>1 DEF Pop, TypeOK
<1>2. CASE p = q
  <2>1. queue[q] \in Seq(Item) /\ queue'[q] = Tail(queue[q])
    BY DEF Pop, TypeOK
  <2>2. /\ Len(queue[q]) \in Nat \ {0} /\ DOMAIN queue[q] = 1..Len(queue[q])
        /\ DOMAIN queue'[q] = 1..(Len(queue[q]) - 1)
        /\ \A i \in 1..(Len(queue[q]) - 1) : queue'[q][i] = queue[q][i+1]
    BY <2>1, HeadTail
  <2>3. j + 1 \in DOMAIN queue[q] /\ queue'[q][j] = queue[q][j+1]
    BY <1>2, <2>2
  <2> QED
    BY <1>2, <2>3
<1> QED
  BY <1>1, <1>2

(* The value of op between operations says that the mutex is free.         *)
LEMMA IdleFree == Idle.pc = "free"
BY DEF Idle

(* The queues that expire has gone past stay free of expired items.        *)
LEMMA PassedStep == IndInv /\ PassedQueuesClean /\ [Next]_vars => PassedQueuesClean'
<1> SUFFICES ASSUME IndInv, PassedQueuesClean, [Next]_vars
             PROVE  PassedQueuesClean'
  OBVIOUS
<1>1. TypeOK /\ \A i \in DOMAIN ttlQueues : ttlQueues[i] \in QueueIds
  BY DEF IndInv, TypeOK, QueueIds
<1>2. ASSUME NEW q \in QueueIds, queue[q] # <<>>, Pop(q), op'.now = op.now,
             op'.pc = op.pc, op'.at = op.at
      PROVE  PassedQueuesClean'
  <2>1. ttlQueues' = ttlQueues
    BY <1>2 DEF Pop
  <2>2. \A i \in DOMAIN ttlQueues : \A j \in DOMAIN queue'[ttlQueues[i]] :
          \E m \in DOMAIN queue[ttlQueues[i]] :
            queue'[ttlQueues[i]][j] = queue[ttlQueues[i]][m]
    BY <1>1, <1>2, PopLeaves
  <2> QED
    BY <1>2, <2>1, <2>2, SMTT(30) DEF PassedQueuesClean
<1>3. ASSUME op'.pc \notin {"expire", "evict"}
      PROVE  PassedQueuesClean'
  BY <1>3 DEF PassedQueuesClean
<1>4. ASSUME op'.at = 1, op'.pc = "expire", ttlQueues' \in Seq(PositiveTTLs)
      PROVE  PassedQueuesClean'
  BY <1>4 DEF PassedQueuesClean
<1>5. ASSUME NEW k \in Keys, NEW v \in Values, NEW ttl \in TTLs,
             Set(k, v, ttl) \/ SetNX(k, v, ttl)
      PROVE  PassedQueuesClean'
  BY <1>1, <1>3, <1>4, <1>5 DEF Set, SetNX, BeginPut, shardVars, TypeOK
<1>6. CASE CheckBytes
  BY <1>1, <1>3, <1>4, <1>6 DEF CheckBytes, shardVars, TypeOK, OpType
<1>7. CASE ExpirePop
  <2>1. op.at \in 1..Len(ttlQueues)
    BY <1>7, OpFields DEF ExpirePop, Expiring, IndInv, OperationKnows
  <2>2. op'.now = op.now /\ op'.pc = op.pc /\ op'.at = op.at
    BY <1>7, <1>1 DEF ExpirePop, TypeOK, OpType
  <2> QED
    BY <1>1, <1>2, <1>7, <2>1, <2>2, SMTT(30) DEF ExpirePop, HeadExpired, TypeOK
<1>8. CASE ExpireNextQueue
  <2> DEFINE q == ttlQueues[op.at]
  <2>1. op.at \in 1..Len(ttlQueues) /\ op.pc = "expire" /\ op.at \in Nat
    BY <1>8, OpFields DEF ExpireNextQueue, Expiring, IndInv, OperationKnows
  <2>2. q \in PositiveTTLs /\ q \in QueueIds
    BY <1>1, <2>1 DEF TypeOK, QueueIds
  <2>3. op'.now = op.now /\ op'.pc = op.pc /\ op'.at = op.at + 1 /\ op.now \in Nat
    BY <1>8, <1>1, OpFields DEF ExpireNextQueue, TypeOK, OpType
  <2>4. ASSUME NEW j \in DOMAIN queue[q]
        PROVE  queue[q][j].deadline > op.now
    <3>1. queue[q] \in Seq(Item)
      BY <1>1, <2>2 DEF TypeOK
    <3>2. queue[q] # <<>> /\ 1 \in DOMAIN queue[q] /\ Head(queue[q]) = queue[q][1]
      BY <3>1, <2>4
    <3>3. ~(queue[q][1].deadline <= op.now)
      BY <1>8, <3>2, SMTT(30) DEF ExpireNextQueue, HeadExpired
    <3>4. queue[q][1].deadline \in Int /\ queue[q][j].deadline \in Int
      BY <1>1, <2>2, <2>4, <3>2, ItemDeadline, SMTT(30)
    <3>5. j = 1 \/ queue[q][1].deadline <= queue[q][j].deadline
      BY <3>1, <3>2, <2>2, <2>4, SMTT(30) DEF IndInv, QueuesSorted
    <3> QED
      BY <3>3, <3>4, <3>5, <2>3
  <2>5. queue' = queue /\ ttlQueues' = ttlQueues
    BY <1>8 DEF ExpireNextQueue, shardVars
  <2>6. \A i \in DOMAIN ttlQueues : i < op.at + 1 => i < op.at \/ i = op.at
    BY <1>1, <2>1 DEF TypeOK
  <2> QED
    BY <2>1, <2>3, <2>4, <2>5, <2>6, ZenonT(40) DEF PassedQueuesClean
<1>9. CASE ExpireDone
  <2>1. CASE op.why # "pass"
    <3>1. ~(op.at <= Len(ttlQueues)) /\ op.pc = "expire"
      BY <1>9, <2>1 DEF ExpireDone, Expiring
    <3>2. op'.pc = "evict" /\ op'.now = op.now
      BY <1>9, <2>1, <1>1, SMTT(30) DEF ExpireDone, TypeOK, OpType
    <3>3. \A i \in DOMAIN ttlQueues : i < op.at
      BY <3>1, <1>1, OpFields DEF TypeOK
    <3>4. queue' = queue /\ ttlQueues' = ttlQueues
      BY <1>9, <2>1 DEF ExpireDone
    <3> QED
      BY <3>1, <3>2, <3>3, <3>4 DEF PassedQueuesClean
  <2>2. CASE op.why = "pass"
    BY <1>9, <2>2, <1>3, SMTT(30) DEF ExpireDone, Release, Idle
  <2> QED
    BY <2>1, <2>2
<1>10. CASE EvictPop
  BY <1>10, <1>2 DEF EvictPop
<1>11. CASE EvictDone
  BY <1>11, <1>1, <1>3, SMTT(30) DEF EvictDone, TypeOK, OpType
<1>12. CASE Store
  <2>1. op'.pc \in {"free", "trim"}
    BY <1>12, <1>1, IdleFree, Zenon DEF Store, Release, TypeOK, OpType
  <2> QED
    BY <2>1, <1>3
<1>13. CASE TrimPop
  BY <1>13, <1>1, <1>3 DEF TrimPop, TypeOK, OpType
<1>14. CASE TrimDone
  <2>1. op'.pc \in {"free", "compact"}
    BY <1>14, <1>1, IdleFree, ZenonT(40) DEF TrimDone, Release, TypeOK, OpType
  <2> QED
    BY <2>1, <1>3
<1>15. CASE Compact
  <2>1. op'.pc \in {"free", "compact"}
    BY <1>15, <1>1, IdleFree DEF Compact, Release, TypeOK, OpType
  <2> QED
    BY <2>1, <1>3
<1>16. ASSUME NEW k \in Keys, Del(k)
       PROVE  PassedQueuesClean'
  BY <1>16, <1>3 DEF Del
<1>17. ASSUME UNCHANGED <<queue, ttlQueues, op>>
       PROVE  PassedQueuesClean'
  BY <1>17 DEF PassedQueuesClean
<1>18. ASSUME NEW r \in Readers, GetReturn(r) \/ \E k \in Keys : GetRead(r, k)
       PROVE  PassedQueuesClean'
  BY <1>17, <1>18 DEF GetReturn, GetRead, shardVars
<1>19. CASE ExpirerLock
  BY <1>19, <1>1, <1>4, SMTT(30) DEF ExpirerLock, Idle, shardVars, TypeOK
<1>20. CASE ExpirerTick \/ ExpirerExit \/ Close \/ Tick \/ UNCHANGED vars
  BY <1>17, <1>20 DEF ExpirerTick, ExpirerExit, Close, Tick, vars, shardVars
<1> QED
  BY SMTT(30), <1>5, <1>6, <1>7, <1>8, <1>9, <1>10, <1>11, <1>12, <1>13, <1>14, <1>15, <1>16,
     <1>18, <1>19, <1>20 DEF Next, HolderStep

(* Once expire has gone past every queue, no expired entry is left.        *)
LEMMA CleanMeansLive == IndInv /\ PassedQueuesClean => ExpiredBeforeEvicted
<1> SUFFICES ASSUME IndInv, PassedQueuesClean, op.pc = "evict", NEW k \in Present
             PROVE  Live(data[k], op.now)
  BY DEF ExpiredBeforeEvicted
<1>1. CASE data[k].deadline <= 0
  BY <1>1 DEF Live
<1>2. CASE ~(data[k].deadline <= 0)
  <2>1. PICK i \in DOMAIN ttlQueues : \E j \in DOMAIN queue[ttlQueues[i]] :
           queue[ttlQueues[i]][j] = [key |-> k, deadline |-> data[k].deadline]
    BY <1>2 DEF IndInv, EntriesQueued
  <2>2. data[k].deadline > op.now
    BY <2>1 DEF PassedQueuesClean
  <2>3. data[k].deadline \in Int /\ op.now \in Nat
    BY OpFields DEF IndInv, TypeOK, Present, Entry
  <2> QED
    BY <2>2, <2>3 DEF Live
<1> QED
  BY <1>1, <1>2

(* A write that makes room evicts only once no expired entry is left in    *)
(* the shard (makeRoom and makeRoomBytes expire before they evict).        *)
THEOREM ExpiryBeforeEviction == Spec => []ExpiredBeforeEvicted
<1>1. Init => PassedQueuesClean
  BY DEF Init, PassedQueuesClean, Idle
<1>2. Spec => []PassedQueuesClean
  BY <1>1, PassedStep, Invariance, PTL DEF Spec
<1> QED
  BY <1>2, Invariance, CleanMeansLive, PTL

(***************************************************************************)
(* The key cap.  A write past its test of the cap knows that its key is    *)
(* there already or that there is room for it; evicting keeps that true.   *)
(***************************************************************************)
PastKeyRoom ==
  \/ op.pc \in {"room", "store"}
  \/ op.pc \in {"expire", "evict"} /\ op.why = "bytes"

RoomForKey ==
  /\ IsFiniteSet(Present)
  /\ KeyCap
  /\ PerShard > 0 /\ PastKeyRoom => op.key \in Present \/ Cardinality(Present) < PerShard

(* Removing entries keeps both, and who loses its own key gains its room.  *)
LEMMA FewerEntries ==
  ASSUME RoomForKey, NEW x, Present' = Present \ {x}, op'.key = op.key,
         PastKeyRoom' => PastKeyRoom
  PROVE  RoomForKey'
<1>1. /\ IsFiniteSet(Present')
      /\ Cardinality(Present') =
           IF x \in Present THEN Cardinality(Present) - 1 ELSE Cardinality(Present)
      /\ Cardinality(Present) \in Nat
  BY FS_RemoveElement, FS_CardinalityType DEF RoomForKey
<1>2. PerShard \in Nat
  BY LimitsAssumption
<1>3. KeyCap'
  BY <1>1, <1>2 DEF RoomForKey, KeyCap
<1>4. ASSUME PerShard > 0, PastKeyRoom'
      PROVE  op'.key \in Present' \/ Cardinality(Present') < PerShard
  <2>1. op.key \in Present \/ Cardinality(Present) < PerShard
    BY <1>4 DEF RoomForKey
  <2>2. CASE Cardinality(Present) < PerShard
    BY <2>2, <1>1, <1>2, SMTT(30)
  <2>3. CASE op.key \in Present /\ op.key # x
    BY <2>3
  <2>4. CASE op.key \in Present /\ op.key = x
    BY <2>4, <1>1, <1>2, <1>4 DEF RoomForKey, KeyCap
  <2> QED
    BY <2>1, <2>2, <2>3, <2>4, SMTT(30)
<1> QED
  BY <1>1, <1>3, <1>4 DEF RoomForKey

(* A step that leaves the map alone keeps the room made for a key.         *)
LEMMA SameEntries ==
  ASSUME RoomForKey, UNCHANGED data, PastKeyRoom' => PastKeyRoom /\ op'.key = op.key
  PROVE  RoomForKey'
<1>1. Present' = Present
  BY DEF Present
<1> QED
  BY <1>1 DEF RoomForKey, KeyCap

(* A pop removes at most one entry.                                        *)
LEMMA PopRemovesOne ==
  ASSUME TypeOK, NEW q \in QueueIds, queue[q] # <<>>, Pop(q)
  PROVE  data' = data \/ \E x : Present' = Present \ {x}
<1> DEFINE it == Head(queue[q])
<1>1. CASE it \in CurrentItems
  <2>1. data' = [data EXCEPT ![it.key] = None]
    BY <1>1 DEF Pop
  <2>2. Present' = Present \ {it.key}
    BY <2>1 DEF Present, TypeOK
  <2> QED
    BY <2>2, Zenon
<1>2. CASE it \notin CurrentItems
  BY <1>2 DEF Pop
<1> QED
  BY <1>1, <1>2, Zenon

(* What put stores is an entry.                                            *)
LEMMA StoredEntry ==
  ASSUME IndInv, Store
  PROVE  \E e \in Entry : data' = [data EXCEPT ![op.key] = e] /\ e # None
<1> DEFINE d == IF Expires(op.ttl, op.now) THEN Int64(op.now + op.ttl) ELSE -(writes + 1)
           e == [value |-> op.val, deadline |-> d]
<1>1. op.val \in Values /\ op.now \in Nat /\ writes \in Nat
  BY OpFields DEF Store, IndInv, OperationKnows, Putting, TypeOK
<1>2. op.ttl \in Int
  <2>1. \A t \in TTLs : t \in Int
    BY TTLsAssumption
  <2>2. op.ttl \in TTLs \/ op.ttl = 0
    BY OpFields DEF IndInv
  <2> QED
    BY <2>1, <2>2
<1>3. d \in Int
  BY <1>1, <1>2, NoOverflow
<1>4. data' = [data EXCEPT ![op.key] = e]
  BY DEF Store
<1>5. e \in Entry /\ e # None
  BY <1>1, <1>3, NoneAssumption, SMTT(30) DEF Entry
<1> QED
  BY <1>4, <1>5, Zenon

(* A write that goes on to store its entry has room for its key.           *)
LEMMA RoomStep == IndInv /\ RoomForKey /\ [Next]_vars => RoomForKey'
<1> SUFFICES ASSUME IndInv, RoomForKey, [Next]_vars
             PROVE  RoomForKey'
  OBVIOUS
<1>1. TypeOK /\ PerShard \in Nat /\ Cardinality(Present) \in Nat
  BY LimitsAssumption, FS_CardinalityType DEF IndInv, RoomForKey
<1>2. ASSUME NEW q \in QueueIds, queue[q] # <<>>, Pop(q), op'.key = op.key,
             PastKeyRoom' => PastKeyRoom
      PROVE  RoomForKey'
  BY <1>1, <1>2, PopRemovesOne, FewerEntries, SameEntries, Zenon
<1>3. ASSUME NEW k \in Keys, NEW v \in Values, NEW ttl \in TTLs,
             Set(k, v, ttl) \/ SetNX(k, v, ttl)
      PROVE  RoomForKey'
  <2>1. Present' = Present
    BY <1>3 DEF Set, SetNX, BeginPut, shardVars, Present
  <2>2. /\ op'.key = k /\ op'.why = "keys"
        /\ op'.pc = IF data[k] = None /\ PerShard > 0 /\ Cardinality(Present) >= PerShard
                    THEN "expire" ELSE "room"
    BY <1>3 DEF Set, SetNX, BeginPut
  <2>3. ASSUME PerShard > 0, PastKeyRoom'
        PROVE  op'.key \in Present' \/ Cardinality(Present') < PerShard
    <3>1. op'.pc = "room"
      BY <2>2, <2>3 DEF PastKeyRoom
    <3>2. k \in Present \/ ~(Cardinality(Present) >= PerShard)
      BY <2>2, <2>3, <3>1, SMTT(30) DEF Present
    <3> QED
      BY <2>1, <2>2, <3>2, <1>1
  <2> QED
    BY <2>1, <2>3 DEF RoomForKey, KeyCap
<1>4. CASE CheckBytes
  <2>1. op.pc = "room" /\ op'.key = op.key /\ data' = data
    BY <1>4, <1>1 DEF CheckBytes, TypeOK, OpType, shardVars
  <2> QED
    BY <2>1, SameEntries DEF PastKeyRoom
<1>5. CASE ExpirePop
  <2>1. op.at \in 1..Len(ttlQueues)
    BY <1>5, OpFields DEF ExpirePop, Expiring, IndInv, OperationKnows
  <2>2. op'.key = op.key /\ op'.pc = op.pc /\ op'.why = op.why
    BY <1>5, <1>1 DEF ExpirePop, TypeOK, OpType
  <2>3. ttlQueues[op.at] \in QueueIds
    BY <1>1, <2>1 DEF TypeOK, QueueIds
  <2> QED
    BY <1>2, <1>5, <2>2, <2>3, SMTT(30) DEF ExpirePop, HeadExpired, PastKeyRoom
<1>6. CASE ExpireNextQueue
  <2>1. op'.key = op.key /\ op'.pc = op.pc /\ op'.why = op.why /\ data' = data
    BY <1>6, <1>1 DEF ExpireNextQueue, TypeOK, OpType, shardVars
  <2> QED
    BY <2>1, SameEntries DEF PastKeyRoom
<1>7. CASE ExpireDone
  <2>1. CASE op' = Idle
    BY <1>7, <2>1, IdleFree, SameEntries DEF ExpireDone, PastKeyRoom
  <2>2. CASE op' = [op EXCEPT !.pc = "evict"]
    <3>1. op'.key = op.key /\ op'.pc = "evict" /\ op'.why = op.why /\ op.pc = "expire"
      BY <1>7, <2>2, <1>1 DEF ExpireDone, TypeOK, OpType
    <3> QED
      BY <1>7, <3>1, SameEntries DEF ExpireDone, PastKeyRoom
  <2> QED
    BY <1>7, <2>1, <2>2 DEF ExpireDone, Release
<1>8. CASE EvictPop
  BY <1>8, <1>2 DEF EvictPop, PastKeyRoom
<1>9. CASE EvictDone
  <2>1. Present' = Present
    BY <1>9 DEF EvictDone, shardVars, Present
  <2>2. op'.key = op.key /\ op.pc = "evict" /\ op.why \in {"keys", "bytes"}
    BY <1>9, <1>1 DEF EvictDone, TypeOK, OpType, IndInv, OperationKnows, Putting
  <2>3. CASE op.why = "bytes"
    BY <2>1, <2>2, <2>3 DEF RoomForKey, KeyCap, PastKeyRoom
  <2>4. CASE op.why = "keys"
    <3>1. CASE OverLimit
      <4>1. NonEmpty = {} /\ queue[0] = <<>>
        BY <1>9, <3>1 DEF EvictDone
      <4>2. Present = {}
        <5> SUFFICES ASSUME NEW k \in Present
                     PROVE  FALSE
          OBVIOUS
        <5>1. CASE data[k].deadline <= 0
          <6>1. DOMAIN queue[0] = {}
            BY <4>1
          <6> QED
            BY <6>1, <5>1, Zenon DEF IndInv, EntriesQueued
        <5>2. CASE ~(data[k].deadline <= 0)
          <6>1. PICK i \in DOMAIN ttlQueues : \E j \in DOMAIN queue[ttlQueues[i]] :
                   queue[ttlQueues[i]][j] = [key |-> k, deadline |-> data[k].deadline]
            BY <5>2 DEF IndInv, EntriesQueued
          <6>2. queue[ttlQueues[i]] # <<>>
            BY <6>1
          <6> QED
            BY <6>2, <4>1 DEF NonEmpty
        <5> QED
          BY <5>1, <5>2
      <4>3. Cardinality(Present) = 0
        BY <4>2, FS_EmptySet
      <4> QED
        BY <2>1, <4>3, <1>1 DEF RoomForKey, KeyCap
    <3>2. CASE ~OverLimit
      BY <2>1, <2>4, <3>2, <1>1, SMTT(30) DEF OverLimit, RoomForKey, KeyCap
    <3> QED
      BY <3>1, <3>2
  <2> QED
    BY <2>2, <2>3, <2>4
<1>10. CASE Store
  <2>1. /\ op.pc = "store" /\ op.key \in Keys
        /\ op'.pc \in {"free", "trim"}
    BY <1>10, <1>1, IdleFree, Zenon
       DEF Store, Release, TypeOK, OpType, IndInv, OperationKnows, Putting
  <2>2. PICK e \in Entry : data' = [data EXCEPT ![op.key] = e] /\ e # None
    BY <1>10, StoredEntry
  <2>3. Present' = Present \cup {op.key}
    BY <2>1, <2>2, <1>1 DEF Present, TypeOK
  <2>4. /\ IsFiniteSet(Present')
        /\ Cardinality(Present') =
             IF op.key \in Present THEN Cardinality(Present) ELSE Cardinality(Present) + 1
    BY <2>3, FS_AddElement, SMTT(30) DEF RoomForKey
  <2>5. KeyCap'
    BY <2>1, <2>4, <1>1 DEF RoomForKey, KeyCap, PastKeyRoom
  <2> QED
    BY <2>1, <2>4, <2>5, SMTT(30) DEF RoomForKey, PastKeyRoom
<1>11. CASE TrimPop
  <2>1. op'.key = op.key /\ op'.pc = "trim" /\ op.ttl \in QueueIds
    BY <1>11, <1>1 DEF TrimPop, TypeOK, OpType, IndInv, OperationKnows
  <2> QED
    BY <1>2, <1>11, <2>1 DEF TrimPop, HeadExpired, PastKeyRoom
<1>12. CASE TrimDone
  <2>1. op'.pc \in {"free", "compact"} /\ data' = data
    BY <1>12, <1>1, IdleFree, ZenonT(40) DEF TrimDone, Release, TypeOK, OpType, shardVars
  <2> QED
    BY <2>1, SameEntries DEF PastKeyRoom
<1>13. CASE Compact
  <2>1. op'.pc \in {"free", "compact"} /\ data' = data
    BY <1>13, <1>1, IdleFree DEF Compact, Release, TypeOK, OpType
  <2> QED
    BY <2>1, SameEntries DEF PastKeyRoom
<1>14. ASSUME NEW k \in Keys, Del(k)
       PROVE  RoomForKey'
  <2>1. Present' = Present \ {k} /\ op' = op
    BY <1>14, <1>1 DEF Del, Present, TypeOK
  <2> QED
    BY <2>1, FewerEntries DEF PastKeyRoom
<1>15. ASSUME UNCHANGED <<data, op>>
       PROVE  RoomForKey'
  BY <1>15, SameEntries DEF PastKeyRoom
<1>16. ASSUME NEW r \in Readers, GetReturn(r) \/ \E k \in Keys : GetRead(r, k)
       PROVE  RoomForKey'
  BY <1>15, <1>16 DEF GetReturn, GetRead, shardVars
<1>17. CASE ExpirerLock
  <2>1. op'.pc = "expire" /\ op'.why = "pass" /\ data' = data
    BY <1>17 DEF ExpirerLock, Idle, shardVars
  <2> QED
    BY <2>1, SameEntries DEF PastKeyRoom
<1>18. CASE ExpirerTick \/ ExpirerExit \/ Close \/ Tick \/ UNCHANGED vars
  BY <1>15, <1>18 DEF ExpirerTick, ExpirerExit, Close, Tick, vars, shardVars
<1> QED
  BY <1>3, <1>4, <1>5, <1>6, <1>7, <1>8, <1>9, <1>10, <1>11, <1>12, <1>13, <1>14,
     <1>16, <1>17, <1>18 DEF Next, HolderStep

(* The shard never holds more entries than its share of the key cap, at    *)
(* any moment of a put, whatever the byte cap makes it evict meanwhile.    *)
THEOREM KeyCapHolds == Spec => []KeyCap
<1>1. Init => RoomForKey
  <2> SUFFICES ASSUME Init
               PROVE  RoomForKey
    OBVIOUS
  <2>1. Present = {}
    BY DEF Init, Present
  <2>2. ~PastKeyRoom
    BY DEF Init, Idle, PastKeyRoom
  <2> QED
    BY <2>1, <2>2, FS_EmptySet, LimitsAssumption DEF RoomForKey, KeyCap
<1>2. Spec => []RoomForKey
  BY <1>1, RoomStep, Invariance, PTL DEF Spec
<1> QED
  BY <1>2, PTL DEF RoomForKey
=============================================================================
