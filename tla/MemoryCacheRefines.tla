------------------------- MODULE MemoryCacheRefines -------------------------
(***************************************************************************)
(* The in-memory shard implements the contract of cache.Backend, for every *)
(* value of the constants: each step of memory.go is a step of the         *)
(* CacheBackend specification or leaves its state alone.                   *)
(***************************************************************************)
EXTENDS MemoryCacheRoom

(* What a write in progress still satisfies of the conditions it was       *)
(* called under: the bounds of the model, and for SetNX that no live entry *)
(* holds the key.  Only a capped shard makes room, and a write trims no    *)
(* entry that never expires.                                               *)
WriteKnows ==
  /\ Putting => Expires(op.ttl, op.now) \/ writes < MaxWrites
  /\ Putting /\ op.nx /\ op.key \in Present => ~Live(data[op.key], op.now)
  /\ op.pc \in {"expire", "evict"} /\ op.why # "pass" => PerShard > 0 \/ PerShardBytes > 0
  /\ op.pc = "trim" /\ op.budget > 0 => op.ttl # 0

(* Whether the holder of the mutex sweeps is TRUE or FALSE, also next.     *)
LEMMA SweepingBoolean == Sweeping \in BOOLEAN /\ Sweeping' \in BOOLEAN
BY DEF Sweeping

(* An operation past the storing of its entry is no write in progress.     *)
LEMMA NotPutting ==
  ASSUME op'.pc \in {"free", "trim", "compact"}
  PROVE  ~Putting'
BY DEF Putting

(* What pop does to the entries.                                           *)
LEMMA PopCases ==
  ASSUME TypeOK, NEW q \in QueueIds, queue[q] # <<>>, Pop(q)
  PROVE  \/ Head(queue[q]) \notin CurrentItems /\ data' = data
         \/ \E k \in Present : /\ Head(queue[q]) = [key |-> k, deadline |-> data[k].deadline]
                               /\ data' = [data EXCEPT ![k] = None]
<1> DEFINE it == Head(queue[q])
<1>1. CASE it \notin CurrentItems
  BY <1>1 DEF Pop
<1>2. CASE it \in CurrentItems
  <2>1. PICK k \in Present : it = [key |-> k, deadline |-> data[k].deadline]
    BY <1>2 DEF CurrentItems
  <2>2. data' = [data EXCEPT ![k] = None]
    BY <1>2, <2>1 DEF Pop
  <2> QED
    BY <2>1, <2>2, Zenon
<1> QED
  BY <1>1, <1>2

(* An entry that is left after a pop was there before, the same.           *)
LEMMA PopForgets ==
  ASSUME TypeOK, NEW q \in QueueIds, queue[q] # <<>>, Pop(q),
         NEW k \in Keys, k \in Present'
  PROVE  k \in Present /\ data'[k] = data[k] /\ writes' = writes
BY PopCases DEF Pop, Present, TypeOK

-----------------------------------------------------------------------------
(* What a write knows stays true to its end.                               *)
LEMMA WriteStep == IndInv /\ WriteKnows /\ [Next]_vars => WriteKnows'
<1> SUFFICES ASSUME IndInv, WriteKnows, [Next]_vars
             PROVE  WriteKnows'
  OBVIOUS
<1>1. TypeOK /\ op.pc \in PCs
  BY OpFields DEF IndInv
<1>2. ASSUME op'.pc \in {"free", "compact"}
      PROVE  WriteKnows'
  BY <1>2 DEF WriteKnows, Putting
<1>3. ASSUME NEW q \in QueueIds, queue[q] # <<>>, Pop(q), op'.pc = op.pc,
             op'.why = op.why, op'.key = op.key, op'.nx = op.nx, op'.ttl = op.ttl,
             op'.now = op.now, op'.pc = "trim" => op.budget > 0
      PROVE  WriteKnows'
  <2>1. writes' = writes
    BY <1>3 DEF Pop
  <2>2. Putting' = Putting
    BY <1>3 DEF Putting
  <2>3. Putting => op.key \in Keys
    BY DEF IndInv, OperationKnows
  <2>4. Putting /\ op.key \in Present' => op.key \in Present /\ data'[op.key] = data[op.key]
    BY <1>1, <1>3, <2>3, PopForgets, SMTT(30)
  <2> QED
    BY <1>3, <2>1, <2>2, <2>4 DEF WriteKnows
<1>4. ASSUME UNCHANGED <<data, writes>>, op'.key = op.key, op'.nx = op.nx,
             op'.ttl = op.ttl, op'.now = op.now, Putting, op'.pc # "trim",
             op'.pc \in {"expire", "evict"} /\ op'.why # "pass"
                => PerShard > 0 \/ PerShardBytes > 0
      PROVE  WriteKnows'
  BY <1>4 DEF WriteKnows, Present
<1>5. ASSUME NEW k \in Keys, NEW v \in Values, NEW ttl \in TTLs, NEW nx \in BOOLEAN,
             BeginPut(k, v, ttl, nx), nx /\ k \in Present => ~Live(data[k], clock)
      PROVE  WriteKnows'
  <2>1. /\ op'.key = k /\ op'.nx = nx /\ op'.ttl = ttl /\ op'.now = clock
        /\ op'.pc = IF data[k] = None /\ PerShard > 0 /\ Cardinality(Present) >= PerShard
                    THEN "expire" ELSE "room"
        /\ Expires(ttl, clock) \/ writes < MaxWrites
        /\ UNCHANGED <<data, writes>>
    BY <1>5 DEF BeginPut, shardVars
  <2>2. /\ op'.pc # "trim"
        /\ op'.pc \in {"expire", "evict"} => PerShard > 0
    BY <2>1
  <2>3. Present' = Present /\ writes' = writes /\ data' = data
    BY <2>1 DEF Present
  <2> QED
    BY <1>5, <2>1, <2>2, <2>3 DEF WriteKnows
<1>6. ASSUME NEW k \in Keys, NEW v \in Values, NEW ttl \in TTLs,
             Set(k, v, ttl) \/ SetNX(k, v, ttl)
      PROVE  WriteKnows'
  BY <1>5, <1>6, Zenon DEF Set, SetNX
<1>7. CASE CheckBytes
  <2>1. /\ op.pc = "room" /\ op'.key = op.key /\ op'.nx = op.nx /\ op'.ttl = op.ttl
        /\ op'.now = op.now /\ UNCHANGED <<data, writes>>
        /\ op'.pc = "store" \/ (op'.pc = "expire" /\ PerShardBytes > 0)
    <3>1. \/ /\ op' = [op EXCEPT !.pc = "expire", !.why = "bytes", !.at = 1]
             /\ PerShardBytes > 0
          \/ op' = [op EXCEPT !.pc = "store"]
      BY <1>7 DEF CheckBytes
    <3>2. op.pc = "room" /\ UNCHANGED <<data, writes>>
      BY <1>7 DEF CheckBytes, shardVars
    <3>3. CASE op' = [op EXCEPT !.pc = "store"]
      BY <3>2, <3>3, <1>1 DEF TypeOK, OpType
    <3>4. CASE op' = [op EXCEPT !.pc = "expire", !.why = "bytes", !.at = 1] /\ PerShardBytes > 0
      BY <3>2, <3>4, <1>1, SMTT(30) DEF TypeOK, OpType
    <3> QED
      BY <3>1, <3>3, <3>4
  <2> QED
    BY <1>4, <2>1 DEF Putting
<1>8. CASE ExpirePop
  <2>1. op.at \in 1..Len(ttlQueues) /\ op.pc = "expire"
    BY <1>8, OpFields DEF ExpirePop, Expiring, IndInv, OperationKnows
  <2>2. ttlQueues[op.at] \in QueueIds
    BY <1>1, <2>1 DEF TypeOK, QueueIds
  <2>3. /\ op'.pc = op.pc /\ op'.why = op.why /\ op'.key = op.key /\ op'.nx = op.nx
        /\ op'.ttl = op.ttl /\ op'.now = op.now
    BY <1>8, <1>1, SMTT(30) DEF ExpirePop, TypeOK, OpType
  <2> QED
    BY <1>3, <1>8, <2>1, <2>2, <2>3, SMTT(30) DEF ExpirePop, HeadExpired
<1>9. CASE ExpireNextQueue
  <2>1. /\ op.pc = "expire" /\ op'.pc = op.pc /\ op'.why = op.why /\ op'.key = op.key
        /\ op'.nx = op.nx /\ op'.ttl = op.ttl /\ op'.now = op.now /\ UNCHANGED <<data, writes>>
    BY <1>9, <1>1 DEF ExpireNextQueue, Expiring, TypeOK, OpType, shardVars
  <2> QED
    BY <2>1 DEF WriteKnows, Putting, Present
<1>10. CASE ExpireDone
  <2>1. CASE op' = Idle
    BY <1>2, <2>1, IdleFree
  <2>2. CASE op' = [op EXCEPT !.pc = "evict"] /\ op.why # "pass"
    <3>1. /\ op.pc = "expire" /\ op'.pc = "evict" /\ op'.why = op.why /\ op'.key = op.key
          /\ op'.nx = op.nx /\ op'.ttl = op.ttl /\ op'.now = op.now
          /\ UNCHANGED <<data, writes>>
      BY <1>10, <2>2, <1>1, SMTT(30) DEF ExpireDone, TypeOK, OpType
    <3> QED
      BY <3>1, <2>2 DEF WriteKnows, Putting, Present
  <2> QED
    BY <1>10, <2>1, <2>2 DEF ExpireDone, Release
<1>11. CASE EvictPop
  BY <1>3, <1>11 DEF EvictPop
<1>12. CASE EvictDone
  <2>1. /\ op.pc = "evict" /\ op'.key = op.key /\ op'.nx = op.nx /\ op'.ttl = op.ttl
        /\ op'.now = op.now /\ UNCHANGED <<data, writes>>
        /\ op'.pc \in {"room", "store"}
    BY <1>12, <1>1, SMTT(30) DEF EvictDone, TypeOK, OpType, shardVars
  <2>2. Putting
    BY <2>1 DEF Putting, IndInv, OperationKnows
  <2> QED
    BY <1>4, <2>1, <2>2, SMTT(30)
<1>13. CASE Store
  <2>1. CASE op' = Idle
    BY <1>2, <2>1, IdleFree
  <2>2. CASE op' # Idle
    <3> DEFINE expires == Expires(op.ttl, op.now)
               q == IF expires THEN op.ttl ELSE 0
    <3>1. op' = [op EXCEPT !.pc = "trim", !.ttl = q,
                   !.budget = IF expires THEN WriteExpireBudget ELSE 0]
      BY <1>13, <2>2 DEF Store, Release
    <3>2. op'.pc = "trim" /\ op'.ttl = q /\ op'.budget = IF expires THEN WriteExpireBudget ELSE 0
      BY <3>1, <1>1 DEF TypeOK, OpType
    <3>3. expires => q # 0
      BY DEF Expires
    <3> QED
      BY <3>2, <3>3, SMTT(30) DEF WriteKnows, Putting
  <2> QED
    BY <2>1, <2>2, SMTT(30)
<1>14. CASE TrimPop
  <2>1. /\ op.ttl \in QueueIds /\ op'.pc = op.pc /\ op'.why = op.why /\ op'.key = op.key
        /\ op'.nx = op.nx /\ op'.ttl = op.ttl /\ op'.now = op.now /\ op.budget > 0
    BY <1>14, <1>1 DEF TrimPop, TypeOK, OpType, IndInv, OperationKnows
  <2> QED
    BY <1>3, <1>14, <2>1, SMTT(30) DEF TrimPop, HeadExpired
<1>15. CASE TrimDone \/ Compact
  <2>1. op'.pc \in {"free", "compact"}
    BY <1>15, <1>1, IdleFree, Zenon DEF TrimDone, Compact, Release, TypeOK, OpType
  <2> QED
    BY <1>2, <2>1
<1>16. ASSUME NEW k \in Keys, Del(k)
       PROVE  WriteKnows'
  BY <1>2, <1>16 DEF Del
<1>17. ASSUME UNCHANGED <<data, writes, op>>
       PROVE  WriteKnows'
  BY <1>17 DEF WriteKnows, Putting, Present
<1>18. ASSUME NEW r \in Readers, GetReturn(r) \/ \E k \in Keys : GetRead(r, k)
       PROVE  WriteKnows'
  BY <1>17, <1>18 DEF GetReturn, GetRead, shardVars
<1>19. CASE ExpirerLock
  <2>1. op'.pc = "expire" /\ op'.why = "pass"
    BY <1>19 DEF ExpirerLock, Idle
  <2> QED
    BY <2>1 DEF WriteKnows, Putting
<1>20. CASE ExpirerTick \/ ExpirerExit \/ Close \/ Tick \/ UNCHANGED vars
  BY <1>17, <1>20 DEF ExpirerTick, ExpirerExit, Close, Tick, vars, shardVars
<1> QED
  BY SMTT(30), <1>6, <1>7, <1>8, <1>9, <1>10, <1>11, <1>12, <1>13, <1>14, <1>15, <1>16,
     <1>18, <1>19, <1>20 DEF Next, HolderStep

(* An empty shard is an empty backend.                                     *)
LEMMA InitRefines == Init => Backend!Init /\ WriteKnows
<1> SUFFICES ASSUME Init
             PROVE  Backend!Init /\ WriteKnows
  OBVIOUS
<1>1. op.pc = "free"
  BY DEF Init, Idle
<1>2. ~Putting
  BY <1>1 DEF Putting
<1>3. Sweeping = FALSE
  BY <1>1 DEF Sweeping
<1> QED
  BY <1>1, <1>2, <1>3 DEF Init, Backend!Init, WriteKnows

-----------------------------------------------------------------------------
(* Storing the entry is the effect of the write.                           *)
LEMMA StoreRefines ==
  ASSUME IndInv, WriteKnows, Store
  PROVE  Backend!Next
<1> DEFINE w == [key |-> op.key, nx |-> op.nx]
           d == IF Expires(op.ttl, op.now) THEN Int64(op.now + op.ttl) ELSE -(writes + 1)
           e == [value |-> op.val, deadline |-> d]
<1>1. /\ TypeOK /\ op.pc = "store" /\ Putting /\ op.key \in Keys /\ op.val \in Values
      /\ op.now = clock /\ clock \in Nat /\ writes \in Nat /\ op.nx \in BOOLEAN
      /\ MaxInt \in Nat /\ MaxWrites \in Nat
  BY OpFields, LimitsAssumption, Zenon
     DEF IndInv, OperationKnows, Store, Putting, TypeOK
<1>2. op.ttl \in Int
  <2>1. \A t \in TTLs : t \in Int
    BY TTLsAssumption
  <2>2. op.ttl \in TTLs \/ op.ttl = 0
    BY OpFields, <1>1
  <2> QED
    BY <2>1, <2>2
<1>3. w \in Backend!Write
  BY <1>1 DEF Backend!Write
<1>4. d \in -MaxWrites..MaxInt
  <2>1. CASE Expires(op.ttl, op.now)
    BY <1>1, <1>2, <2>1, NoOverflow DEF Expires
  <2>2. CASE ~Expires(op.ttl, op.now)
    BY <1>1, <2>2 DEF WriteKnows
  <2> QED
    BY <2>1, <2>2
<1>5. e \in Backend!Entry
  BY <1>1, <1>4, SMTT(30) DEF Backend!Entry
<1>6. data' = [data EXCEPT ![op.key] = e] /\ clock' = clock
  BY DEF Store
<1>7. ~Putting'
  <2>1. op'.pc \in {"free", "trim"}
    BY <1>1, IdleFree, Zenon DEF Store, Release, TypeOK, OpType
  <2> QED
    BY <2>1, NotPutting
<1>8. w.nx /\ w.key \in Present => ~Live(data[w.key], clock)
  BY <1>1 DEF WriteKnows
<1>9. d > clock \/ (d < 0 /\ \A j \in Present : d < data[j].deadline)
  <2>1. CASE Expires(op.ttl, op.now)
    <3>1. d = op.now + op.ttl /\ op.ttl > 0
      BY <1>1, <1>2, <2>1, NoOverflow, SMTT(30) DEF Expires
    <3>2. d > clock
      BY <1>1, <1>2, <3>1, SMTT(30)
    <3> QED
      BY <3>2
  <2>2. CASE ~Expires(op.ttl, op.now)
    <3>1. d = -(writes + 1)
      BY <2>2, SMTT(30)
    <3>2. \A j \in Present : -writes <= data[j].deadline /\ data[j].deadline \in Int
      BY <1>1, SMTT(30) DEF IndInv, DeadlinesBounded, TypeOK, Present, Entry
    <3> QED
      BY <1>1, <3>1, <3>2, SMTT(30)
  <2> QED
    BY <2>1, <2>2
<1>10. e.deadline = d
  BY SMTT(30)
<1> HIDE DEF d, e
<1>11. Backend!Effect(w, e)
  BY <1>1, <1>6, <1>7, <1>8, <1>9, <1>10, SweepingBoolean, SMTT(30)
     DEF Backend!Effect, Backend!Present, Backend!Live, Present, Live
<1> QED
  BY <1>3, <1>5, <1>11, SMTT(30) DEF Backend!Next

(* A pop of an expired head forgets an expired entry, or none.             *)
LEMMA ExpiringPopRefines ==
  ASSUME IndInv, NEW q \in PositiveTTLs, HeadExpired(q), Pop(q), clock' = clock,
         op.pc # "free", Putting' = Putting, Sweeping' = Sweeping,
         op'.key = op.key, op'.nx = op.nx
  PROVE  Backend!Next \/ UNCHANGED Backend!vars
<1>1. TypeOK /\ q \in QueueIds /\ queue[q] # <<>> /\ op.now = clock
  BY DEF IndInv, QueueIds, HeadExpired, OperationKnows
<1>2. CASE data' = data
  BY <1>2 DEF Backend!vars
<1>3. ASSUME NEW k \in Present,
             Head(queue[q]) = [key |-> k, deadline |-> data[k].deadline],
             data' = [data EXCEPT ![k] = None]
      PROVE  Backend!Next
  <2>1. data[k].deadline <= clock
    BY <1>1, <1>3, SMTT(30) DEF HeadExpired
  <2>2. 1 \in DOMAIN queue[q] /\ queue[q][1] = Head(queue[q])
    BY <1>1, SMTT(30) DEF TypeOK
  <2>3. 0 < data[k].deadline
    BY <1>3, <2>2, SMTT(30) DEF IndInv, DeadlinesBounded
  <2>4. data[k].deadline \in Int /\ clock \in Nat
    BY <1>1 DEF TypeOK, Present, Entry
  <2>5. ~Live(data[k], clock)
    BY <2>1, <2>3, <2>4, SMTT(30) DEF Live
  <2>6. (IF Putting THEN [key |-> op.key, nx |-> op.nx] ELSE None) # None \/ Sweeping
    <3>1. CASE Putting
      BY <3>1, NoneAssumption, OpFields DEF IndInv, OperationKnows
    <3>2. CASE ~Putting
      BY <3>2 DEF Sweeping
    <3> QED
      BY <3>1, <3>2
  <2>7. Backend!Expire(k)
    BY <1>3, <2>5, <2>6 DEF Backend!Expire, Backend!Present, Backend!Live, Present, Live
  <2> QED
    BY <2>7 DEF Backend!Next, Present
<1> QED
  BY <1>1, <1>2, <1>3, PopCases, Zenon

(* Forgetting the entry that goes before all others is an eviction.        *)
LEMMA EvictsFirst ==
  ASSUME IndInv, WriteKnows, NEW k \in Present, op.pc = "evict", op' = op,
         clock' = clock, data' = [data EXCEPT ![k] = None],
         \A j \in Present : ~Backend!GoesBefore(data[j], data[k])
  PROVE  Backend!Next
<1>1. Putting /\ Putting' /\ op.why # "pass"
  BY DEF Putting, IndInv, OperationKnows
<1>2. [key |-> op.key, nx |-> op.nx] # None
  BY <1>1, NoneAssumption, OpFields, SMTT(30) DEF IndInv, OperationKnows
<1>3. PerShard > 0 \/ PerShardBytes > 0
  BY <1>1 DEF WriteKnows
<1>4. Sweeping' = Sweeping
  BY <1>1, SMTT(30) DEF Sweeping
<1>5. Backend!Evict(k)
  BY <1>1, <1>2, <1>3, <1>4, SMTT(30) DEF Backend!Evict, Backend!Present, Present
<1> QED
  BY <1>5 DEF Backend!Next, Present

(* evict pops the entry that is to go first, or a stale item.              *)
LEMMA EvictPopRefines ==
  ASSUME IndInv, WriteKnows, EvictPop
  PROVE  Backend!Next \/ UNCHANGED Backend!vars
<1>1. PICK q \in QueueIds : PopsNext(q) /\ queue[q] # <<>> /\ Pop(q)
  BY SMTT(30) DEF EvictPop
<1>2. TypeOK /\ op' = op /\ clock' = clock /\ op.pc = "evict" /\ Putting
  BY DEF IndInv, EvictPop, OperationKnows, Putting
<1>3. Putting' = Putting /\ Sweeping' = Sweeping
  BY <1>2 DEF Putting, Sweeping
<1>4. CASE data' = data
  BY <1>2, <1>3, <1>4 DEF Backend!vars
<1>5. ASSUME NEW k \in Present,
             Head(queue[q]) = [key |-> k, deadline |-> data[k].deadline],
             data' = [data EXCEPT ![k] = None]
      PROVE  Backend!Next
  <2>1. Head(queue[q]) \in CurrentItems
    BY <1>5, SMTT(30) DEF CurrentItems
  <2>2. ASSUME NEW n \in DOMAIN ttlQueues, NEW m \in DOMAIN queue[ttlQueues[n]]
        PROVE  /\ n \in NonEmpty /\ 1 \in DOMAIN queue[ttlQueues[n]]
               /\ HeadOf(n) = queue[ttlQueues[n]][1]
               /\ HeadOf(n).deadline \in Int /\ HeadOf(n).deadline > 0
               /\ queue[ttlQueues[n]][m].deadline \in Int
               /\ HeadOf(n).deadline <= queue[ttlQueues[n]][m].deadline
    <3> DEFINE p == ttlQueues[n]
    <3>1. p \in PositiveTTLs /\ p \in QueueIds
      BY <1>2, SMTT(30) DEF TypeOK, QueueIds
    <3> HIDE DEF p
    <3>2. queue[p] \in Seq(Item)
      BY <1>2, <3>1, SMTT(30) DEF TypeOK
    <3>3. queue[p] # <<>> /\ 1 \in DOMAIN queue[p] /\ Head(queue[p]) = queue[p][1]
      BY <2>2, <3>2 DEF p
    <3>4. m \in DOMAIN queue[p]
      BY <2>2 DEF p
    <3>5. queue[p][1].deadline \in Int /\ queue[p][m].deadline \in Int
      BY <1>2, <3>1, <3>3, <3>4, ItemDeadline, SMTT(30)
    <3>6. m = 1 \/ 1 < m
      BY <3>2, <3>4
    <3>7. queue[p][1].deadline <= queue[p][m].deadline
      BY <3>1, <3>3, <3>4, <3>5, <3>6, SMTT(30) DEF IndInv, QueuesSorted
    <3>8. queue[p][1].deadline > 0
      BY <3>1, <3>3, <3>5, SMTT(30) DEF IndInv, DeadlinesBounded
    <3> QED
      BY <3>3, <3>5, <3>7, <3>8, SMTT(30) DEF HeadOf, NonEmpty, p
  <2>3. \A j \in Present : data[j].deadline \in Int
    BY <1>2 DEF TypeOK, Present, Entry
  <2>4. ASSUME NEW j \in Present, data[j].deadline > 0
        PROVE  \E n \in DOMAIN ttlQueues : \E m \in DOMAIN queue[ttlQueues[n]] :
                 queue[ttlQueues[n]][m].deadline = data[j].deadline
    <3>1. ~(data[j].deadline <= 0)
      BY <2>3, <2>4
    <3>2. PICK n \in DOMAIN ttlQueues : \E m \in DOMAIN queue[ttlQueues[n]] :
             queue[ttlQueues[n]][m] = [key |-> j, deadline |-> data[j].deadline]
      BY <3>1 DEF IndInv, EntriesQueued
    <3> QED
      BY <3>2
  <2>5. CASE NonEmpty = {} /\ q = 0
    <3>1. \A j \in Present : data[j].deadline <= 0
      <4>1. \A j \in Present : ~(data[j].deadline > 0)
        BY <2>2, <2>4, <2>5
      <4> QED
        BY <4>1, <2>3
    <3>2. queue[0] \in Seq(Item) /\ 0 \in QueueIds
      BY <1>2 DEF TypeOK, QueueIds
    <3>3. 1 \in DOMAIN queue[0] /\ queue[0][1] = Head(queue[0])
      BY <1>1, <2>5, <3>2, SMTT(30)
    <3>4. ASSUME NEW j \in Present
          PROVE  ~(data[j].deadline > data[k].deadline)
      <4>1. PICK m \in DOMAIN queue[0] :
               queue[0][m] = [key |-> j, deadline |-> data[j].deadline]
        BY <3>1, SMTT(30) DEF IndInv, EntriesQueued
      <4>2. m = 1 \/ 1 < m
        BY <3>2, <4>1, SMTT(30)
      <4>3. m = 1 \/ queue[0][1].deadline > queue[0][m].deadline
        BY <3>3, <4>2, SMTT(30) DEF IndInv, QueuesSorted
      <4>4. queue[0][1].deadline = data[k].deadline
        BY <1>5, <2>5, <3>3, SMTT(30)
      <4>5. queue[0][m].deadline = data[j].deadline
        BY <4>1
      <4> QED
        BY <4>3, <4>4, <4>5, <2>3, SMTT(30)
    <3>5. \A j \in Present : ~Backend!GoesBefore(data[j], data[k])
      BY <2>3, <3>1, <3>4, SMTT(30) DEF Backend!GoesBefore
    <3> QED
      BY <1>5, <3>5, EvictsFirst, <1>2, <1>3, ZenonT(40)
  <2>6. ASSUME NEW i \in NonEmpty, q = ttlQueues[i],
               IF StaleHeads = {} THEN Earliest(i)
               ELSE i \in StaleHeads /\ \A j \in StaleHeads : i <= j
        PROVE  Backend!Next
    <3>1. HeadOf(i) = Head(queue[q]) /\ i \in DOMAIN ttlQueues
      BY <2>6 DEF HeadOf, NonEmpty
    <3>2. StaleHeads = {} /\ Earliest(i)
      BY <2>1, <2>6, <3>1 DEF StaleHeads
    <3>3. 1 \in DOMAIN queue[q]
      BY <1>1, <1>2, SMTT(30) DEF TypeOK
    <3>4. HeadOf(i).deadline = data[k].deadline /\ data[k].deadline > 0
      BY <1>5, <2>2, <2>6, <3>1, <3>3, SMTT(30)
    <3>5. ASSUME NEW j \in Present, data[j].deadline > 0
          PROVE  ~(data[j].deadline < data[k].deadline)
      <4>1. PICK n \in DOMAIN ttlQueues : \E m \in DOMAIN queue[ttlQueues[n]] :
               queue[ttlQueues[n]][m].deadline = data[j].deadline
        BY <2>4, <3>5
      <4>2. PICK m \in DOMAIN queue[ttlQueues[n]] :
               queue[ttlQueues[n]][m].deadline = data[j].deadline
        BY <4>1
      <4>3. n \in NonEmpty /\ HeadOf(n).deadline \in Int
            /\ HeadOf(n).deadline <= data[j].deadline
        BY <2>2, <4>2, SMTT(30)
      <4>4. \/ HeadOf(i).deadline < HeadOf(n).deadline
            \/ HeadOf(i).deadline = HeadOf(n).deadline
        BY <3>2, <4>3, SMTT(30) DEF Earliest
      <4> QED
        BY <2>3, <3>4, <4>3, <4>4, SMTT(30)
    <3>6. \A j \in Present : ~Backend!GoesBefore(data[j], data[k])
      BY <2>3, <3>4, <3>5, SMTT(30) DEF Backend!GoesBefore
    <3> QED
      BY <1>5, <3>6, EvictsFirst, <1>2, <1>3, ZenonT(40)
  <2> QED
    BY <1>1, <2>5, <2>6, SMTT(30) DEF PopsNext
<1> QED
  BY <1>1, <1>2, <1>4, <1>5, PopCases, Zenon

(* Every step is a step of the contract, or leaves its state alone.        *)
LEMMA StepRefines == IndInv /\ WriteKnows /\ [Next]_vars => [Backend!Next]_(Backend!vars)
<1> SUFFICES ASSUME IndInv, WriteKnows, [Next]_vars
             PROVE  Backend!Next \/ UNCHANGED Backend!vars
  OBVIOUS
<1>1. TypeOK /\ op.nx \in BOOLEAN
  BY OpFields DEF IndInv
<1>2. ASSUME UNCHANGED <<data, clock>>, Putting' = Putting, Sweeping' = Sweeping,
             op'.key = op.key, op'.nx = op.nx
      PROVE  UNCHANGED Backend!vars
  BY <1>2 DEF Backend!vars
<1>3. ASSUME UNCHANGED <<data, clock>>, ~Putting, ~Putting'
      PROVE  Backend!Next \/ UNCHANGED Backend!vars
  <2>1. CASE Sweeping' = Sweeping
    BY <1>3, <2>1, SMTT(30) DEF Backend!vars
  <2>2. CASE Sweeping' # Sweeping
    <3>1. Sweeping' = ~Sweeping
      BY <2>2, SweepingBoolean
    <3> QED
      BY <1>3, <3>1 DEF Backend!Sweep, Backend!Next
  <2> QED
    BY <2>1, <2>2
<1>4. ASSUME NEW k \in Keys, NEW v \in Values, NEW ttl \in TTLs, NEW nx \in BOOLEAN,
             BeginPut(k, v, ttl, nx)
      PROVE  Backend!Next
  <2>1. ~Putting /\ Putting' /\ Sweeping = FALSE /\ Sweeping' = FALSE
    BY <1>4 DEF BeginPut, Putting, Sweeping
  <2>2. op'.key = k /\ op'.nx = nx /\ UNCHANGED <<data, clock>>
    BY <1>4 DEF BeginPut, shardVars
  <2>3. [key |-> k, nx |-> nx] \in Backend!Write
    BY DEF Backend!Write
  <2>4. Backend!Call([key |-> k, nx |-> nx])
    BY <2>1, <2>2, Zenon DEF Backend!Call
  <2> QED
    BY <2>3, <2>4 DEF Backend!Next
<1>5. ASSUME NEW k \in Keys, NEW v \in Values, NEW ttl \in TTLs,
             Set(k, v, ttl) \/ SetNX(k, v, ttl)
      PROVE  Backend!Next
  BY <1>4, <1>5, Zenon DEF Set, SetNX
<1>6. CASE CheckBytes
  <2>1. \/ op' = [op EXCEPT !.pc = "expire", !.why = "bytes", !.at = 1]
        \/ op' = [op EXCEPT !.pc = "store"]
    BY <1>6 DEF CheckBytes
  <2>2. op.pc = "room" /\ UNCHANGED <<data, clock>>
    BY <1>6 DEF CheckBytes, shardVars
  <2>3. /\ op'.key = op.key /\ op'.nx = op.nx
        /\ op'.pc = "store" \/ (op'.pc = "expire" /\ op'.why = "bytes")
    <3>1. CASE op' = [op EXCEPT !.pc = "store"]
      BY <3>1, <1>1 DEF TypeOK, OpType
    <3>2. CASE op' = [op EXCEPT !.pc = "expire", !.why = "bytes", !.at = 1]
      BY <3>2, <1>1 DEF TypeOK, OpType
    <3> QED
      BY <2>1, <3>1, <3>2
  <2>4. Putting /\ Putting' /\ Sweeping' = Sweeping
    BY <2>2, <2>3 DEF Putting, Sweeping
  <2> QED
    BY <1>2, <2>2, <2>3, <2>4
<1>7. CASE ExpirePop
  <2>1. op.at \in 1..Len(ttlQueues) /\ op.pc = "expire"
    BY <1>7, OpFields DEF ExpirePop, Expiring, IndInv, OperationKnows
  <2>2. ttlQueues[op.at] \in PositiveTTLs
    BY <1>1, <2>1 DEF TypeOK
  <2>3. /\ op'.pc = op.pc /\ op'.why = op.why /\ op'.key = op.key /\ op'.nx = op.nx
    BY <1>7, <1>1 DEF ExpirePop, TypeOK, OpType
  <2>4. Putting' = Putting /\ Sweeping' = Sweeping
    BY <2>3 DEF Putting, Sweeping
  <2> QED
    BY <1>7, <2>1, <2>2, <2>3, <2>4, ExpiringPopRefines, SMTT(30) DEF ExpirePop
<1>8. CASE ExpireNextQueue
  <2>1. /\ op'.pc = op.pc /\ op'.why = op.why /\ op'.key = op.key /\ op'.nx = op.nx
        /\ UNCHANGED <<data, clock>>
    BY <1>8, <1>1 DEF ExpireNextQueue, TypeOK, OpType, shardVars
  <2>2. Putting' = Putting /\ Sweeping' = Sweeping
    BY <2>1 DEF Putting, Sweeping
  <2> QED
    BY <1>2, <2>1, <2>2
<1>9. CASE ExpireDone
  <2>1. op.pc = "expire" /\ UNCHANGED <<data, clock>>
    BY <1>9 DEF ExpireDone
  <2>2. CASE op' = Idle /\ op.why = "pass"
    <3>1. ~Putting /\ ~Putting'
      BY <2>1, <2>2, IdleFree DEF Putting
    <3> QED
      BY <1>3, <2>1, <3>1
  <2>3. CASE op' = [op EXCEPT !.pc = "evict"] /\ op.why # "pass"
    <3>1. /\ op'.pc = "evict" /\ op'.why = op.why /\ op'.key = op.key /\ op'.nx = op.nx
      BY <2>3, <1>1 DEF TypeOK, OpType
    <3>2. Putting /\ Putting' /\ Sweeping' = Sweeping
      BY <2>1, <2>3, <3>1 DEF Putting, Sweeping
    <3> QED
      BY <1>2, <2>1, <3>1, <3>2
  <2> QED
    BY <1>9, <2>2, <2>3 DEF ExpireDone, Release
<1>10. CASE EvictPop
  BY <1>10, EvictPopRefines
<1>11. CASE EvictDone
  <2>1. /\ op.pc = "evict" /\ op'.key = op.key /\ op'.nx = op.nx
        /\ op'.pc \in {"room", "store"} /\ UNCHANGED <<data, clock>>
    BY <1>11, <1>1, SMTT(30) DEF EvictDone, TypeOK, OpType, shardVars
  <2>2. Putting /\ Putting' /\ Sweeping' = Sweeping
    BY <2>1 DEF Putting, Sweeping, IndInv, OperationKnows
  <2> QED
    BY <1>2, <2>1, <2>2
<1>12. CASE Store
  BY <1>12, StoreRefines, SMTT(30)
<1>13. CASE TrimPop
  <2>1. /\ op.ttl \in PositiveTTLs /\ op.pc = "trim" /\ HeadExpired(op.ttl) /\ Pop(op.ttl)
        /\ clock' = clock
    BY <1>13 DEF TrimPop, IndInv, OperationKnows, WriteKnows, QueueIds
  <2>2. op'.pc = op.pc /\ op'.why = op.why /\ op'.key = op.key /\ op'.nx = op.nx
    BY <1>13, <1>1 DEF TrimPop, TypeOK, OpType
  <2>3. Putting' = Putting /\ Sweeping' = Sweeping
    BY <2>2 DEF Putting, Sweeping
  <2> QED
    BY <2>1, <2>2, <2>3, ExpiringPopRefines, SMTT(30)
<1>14. CASE TrimDone \/ Compact
  <2>1. op'.pc \in {"free", "compact"}
    BY <1>14, <1>1, IdleFree, ZenonT(40) DEF TrimDone, Compact, Release, TypeOK, OpType
  <2>2. ~Putting /\ ~Putting'
    BY <1>14, <2>1 DEF TrimDone, Compact, Putting
  <2> QED
    BY <1>3, <1>14, <2>2, SMTT(30) DEF TrimDone, Compact, shardVars
<1>15. ASSUME NEW k \in Keys, Del(k)
       PROVE  Backend!Next
  <2>1. ~Putting /\ ~Putting' /\ Sweeping = FALSE /\ Sweeping' = FALSE
    BY <1>15 DEF Del, Putting, Sweeping
  <2>2. Backend!Del(k)
    BY <1>15, <2>1, ZenonT(40) DEF Del, Backend!Del
  <2> QED
    BY <2>2 DEF Backend!Next
<1>16. ASSUME UNCHANGED <<data, clock, op>>
       PROVE  UNCHANGED Backend!vars
  BY <1>2, <1>16 DEF Putting, Sweeping
<1>17. ASSUME NEW r \in Readers, GetReturn(r) \/ \E k \in Keys : GetRead(r, k)
       PROVE  UNCHANGED Backend!vars
  BY <1>16, <1>17 DEF GetReturn, GetRead, shardVars
<1>18. CASE ExpirerLock
  <2>1. op'.pc = "expire" /\ op'.why = "pass" /\ op.pc = "free" /\ UNCHANGED <<data, clock>>
    BY <1>18 DEF ExpirerLock, Idle, shardVars
  <2>2. ~Putting /\ ~Putting'
    BY <2>1 DEF Putting
  <2> QED
    BY <1>3, <2>1, <2>2
<1>19. CASE ExpirerTick \/ ExpirerExit \/ Close \/ UNCHANGED vars
  BY <1>16, <1>19 DEF ExpirerTick, ExpirerExit, Close, vars, shardVars
<1>20. CASE Tick
  <2>1. ~Putting /\ ~Putting' /\ Sweeping = FALSE /\ Sweeping' = FALSE
    BY <1>20 DEF Tick, Putting, Sweeping
  <2>2. Backend!Tick
    BY <1>20, <2>1, Zenon DEF Tick, Backend!Tick, shardVars
  <2> QED
    BY <2>2 DEF Backend!Next
<1> QED
  BY SMTT(30), <1>5, <1>6, <1>7, <1>8, <1>9, <1>10, <1>11, <1>12, <1>13, <1>14, <1>15,
     <1>17, <1>18, <1>19, <1>20 DEF Next, HolderStep

(* The shard implements cache.Backend: SetNX creates only where no live    *)
(* entry is, an entry goes only by Del, by expiring, by being rewritten or *)
(* by making room, and room is made in deadline order.  The expirer and    *)
(* the trimming of a queue remove nothing that has not expired.            *)
THEOREM Refinement == Spec => ImplementsBackend
<1>1. Spec => []WriteKnows
  BY InitRefines, WriteStep, Invariance, PTL DEF Spec
<1> QED
  BY <1>1, InitRefines, StepRefines, Invariance, PTL DEF Spec, ImplementsBackend, Backend!Spec
=============================================================================
