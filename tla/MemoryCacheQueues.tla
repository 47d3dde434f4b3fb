------------------------- MODULE MemoryCacheQueues --------------------------
(***************************************************************************)
(* The expiry queues of MemoryCache, for every value of its constants: the *)
(* inductive invariant, and the steps that take items off the queues: a    *)
(* write making room or trimming, and compaction.                          *)
(***************************************************************************)
EXTENDS MemoryCache, FiniteSetTheorems, WellFoundedInduction, TLAPS

(***************************************************************************)
(* Facts about the functions of Lists, for every sequence, and the         *)
(* induction they need.  Induction is stated of a set of numbers rather    *)
(* than of a predicate: the provers can then use it without instantiating  *)
(* an operator.                                                            *)
(***************************************************************************)
(* Every nonempty set of natural numbers has a least element.              *)
LEMMA LeastElement ==
  ASSUME NEW S \in SUBSET Nat, S # {}
  PROVE  \E n \in S : \A m \in S : n <= m
<1> DEFINE R == OpToRel(<, Nat)
           Pairs == {p \in Nat \X Nat : p[1] < p[2]}
<1>1. R = Pairs
  BY DEF OpToRel
<1>2. IsWellFoundedOn(R, Nat)
  BY NatLessThanWellFounded, Zenon
<1> HIDE DEF R
<1>3. PICK n \in S : \A m \in S : <<m, n>> \notin R
  BY <1>2, WFMin, Zenon
<1>4. ASSUME NEW m \in S
      PROVE  n <= m
  <2>1. <<m, n>> \notin Pairs
    BY <1>1, <1>3
  <2> QED
    BY <2>1
<1> QED
  BY <1>4

(* A set that holds 0, and n + 1 whenever it holds n, holds every natural  *)
(* number.                                                                 *)
THEOREM SetInduction ==
  ASSUME NEW S, 0 \in S, \A n \in Nat : n \in S => n + 1 \in S
  PROVE  \A n \in Nat : n \in S
<1> SUFFICES ASSUME Nat \ S # {}
             PROVE  FALSE
  OBVIOUS
<1>1. PICK n \in Nat \ S : \A m \in Nat \ S : n <= m
  BY LeastElement, Zenon
<1>2. n # 0
  OBVIOUS
<1>3. n - 1 \in Nat /\ n - 1 \in S
  BY <1>1, <1>2
<1> QED
  BY <1>3

(***************************************************************************)
(* What the filtering loop returns.                                        *)
(***************************************************************************)
FilterStep(f, s, S, i) ==
  IF i = 0 THEN <<>>
  ELSE IF s[i] \in S THEN Append(f[i-1], s[i])
  ELSE f[i-1]

(* f is the loop's recursive function over the first n members of s.       *)
FilterRun(f, n, s, S) == f = [i \in 0..n |-> FilterStep(f, s, S, i)]

(* The loop's recursive function exists.                                   *)
LEMMA FilterFunction ==
  ASSUME NEW s, NEW S
  PROVE  \A n \in Nat : \E f : FilterRun(f, n, s, S)
<1> DEFINE Good == {n \in Nat : \E f : FilterRun(f, n, s, S)}
<1>1. 0 \in Good
  <2> DEFINE f == [i \in 0..0 |-> <<>>]
  <2>1. FilterRun(f, 0, s, S)
    BY DEF FilterStep, FilterRun
  <2> QED
    BY <2>1
<1>2. ASSUME NEW n \in Nat, n \in Good
      PROVE  n + 1 \in Good
  <2>1. PICK f : f = [i \in 0..n |-> FilterStep(f, s, S, i)]
    BY <1>2 DEF FilterRun
  <2> DEFINE g == [i \in 0..n+1 |-> IF i <= n THEN f[i] ELSE FilterStep(f, s, S, i)]
  <2>2. ASSUME NEW i \in 0..n+1
        PROVE  g[i] = FilterStep(g, s, S, i)
    <3>1. CASE i = 0
      BY <2>1, <3>1 DEF FilterStep
    <3>2. CASE i # 0
      <4>1. i-1 \in 0..n /\ g[i-1] = f[i-1]
        BY <3>2
      <4>2. FilterStep(g, s, S, i) = FilterStep(f, s, S, i)
        BY <4>1, <3>2 DEF FilterStep
      <4>3. CASE i <= n
        <5>1. g[i] = f[i] /\ f[i] = FilterStep(f, s, S, i)
          BY <4>3, <2>1
        <5> QED
          BY <5>1, <4>2
      <4>4. CASE ~(i <= n)
        BY <4>4, <4>2
      <4> QED
        BY <4>3, <4>4
    <3> QED
      BY <3>1, <3>2
  <2>3. g = [i \in 0..n+1 |-> FilterStep(g, s, S, i)]
    BY <2>2
  <2> HIDE DEF g
  <2>4. FilterRun(g, n+1, s, S)
    BY <2>3 DEF FilterRun
  <2> QED
    BY <2>4
<1> HIDE DEF Good
<1>3. \A n \in Nat : n \in Good
  BY <1>1, <1>2, SetInduction
<1> QED
  BY <1>3 DEF Good

(* What f, the result after the first n members of s, has kept of them.    *)
KeptOf(f, n, s, S, A) ==
  /\ f \in Seq(A)
  /\ \A m \in 1..n : s[m] \in S => \E j \in DOMAIN f : f[j] = s[m]
  /\ \A i, j \in DOMAIN f : i < j =>
       \E m1, m2 \in 1..n : m1 < m2 /\ f[i] = s[m1] /\ f[j] = s[m2]
  /\ \A j \in DOMAIN f : \E m \in 1..n : f[j] = s[m] /\ s[m] \in S

(* Keeping one more member.                                                *)
LEMMA KeepNext ==
  ASSUME NEW A, NEW S, NEW s, NEW n \in Nat, NEW f,
         KeptOf(f, n, s, S, A), s[n+1] \in A, s[n+1] \in S
  PROVE  KeptOf(Append(f, s[n+1]), n+1, s, S, A)
<1> DEFINE x == s[n+1]
           g == Append(f, x)
<1>1. /\ g \in Seq(A) /\ Len(f) \in Nat
      /\ DOMAIN g = 1..(Len(f) + 1) /\ DOMAIN f = 1..Len(f)
      /\ \A j \in 1..Len(f) : g[j] = f[j]
      /\ g[Len(f) + 1] = x
  BY DEF KeptOf
<1> HIDE DEF g
<1>2. ASSUME NEW m \in 1..(n+1), s[m] \in S
      PROVE  \E j \in DOMAIN g : g[j] = s[m]
  <2>1. CASE m = n + 1
    BY <2>1, <1>1
  <2>2. CASE m # n + 1
    <3>1. PICK j \in DOMAIN f : f[j] = s[m]
      BY <2>2, <1>2 DEF KeptOf
    <3> QED
      BY <3>1, <1>1
  <2> QED
    BY <2>1, <2>2
<1>3. ASSUME NEW j \in DOMAIN g
      PROVE  \E m \in 1..(n+1) : g[j] = s[m] /\ s[m] \in S
  <2>1. CASE j = Len(f) + 1
    BY <2>1, <1>1
  <2>2. CASE j # Len(f) + 1
    <3>1. j \in DOMAIN f /\ g[j] = f[j]
      BY <2>2, <1>1
    <3> QED
      BY <3>1 DEF KeptOf
  <2> QED
    BY <2>1, <2>2
<1>4. ASSUME NEW i \in DOMAIN g, NEW j \in DOMAIN g, i < j
      PROVE  \E m1, m2 \in 1..(n+1) : m1 < m2 /\ g[i] = s[m1] /\ g[j] = s[m2]
  <2>1. i \in DOMAIN f /\ g[i] = f[i]
    BY <1>4, <1>1
  <2>2. CASE j = Len(f) + 1
    <3>1. PICK m \in 1..n : f[i] = s[m]
      BY <2>1 DEF KeptOf
    <3>2. m < n + 1 /\ m \in 1..(n+1) /\ n + 1 \in 1..(n+1) /\ g[j] = s[n+1]
      BY <2>2, <1>1
    <3> QED
      BY <3>1, <3>2, <2>1
  <2>3. CASE j # Len(f) + 1
    <3>1. j \in DOMAIN f /\ g[j] = f[j]
      BY <2>3, <1>1
    <3>2. \E m1, m2 \in 1..n : m1 < m2 /\ f[i] = s[m1] /\ f[j] = s[m2]
      BY <3>1, <2>1, <1>4 DEF KeptOf
    <3> QED
      BY <3>1, <3>2, <2>1
  <2> QED
    BY <2>2, <2>3
<1> QED
  BY <1>1, <1>2, <1>3, <1>4, Zenon DEF KeptOf, g

(* The loop keeps exactly the members of s that belong to S, and keeps     *)
(* them in order: keepCurrent loses no current item and reorders none.     *)
THEOREM FilterKeeps ==
  ASSUME NEW A, NEW s \in Seq(A), NEW S
  PROVE  KeptOf(Filter(s, S), Len(s), s, S, A)
<1> DEFINE N == Len(s)
           kept == CHOOSE f : FilterRun(f, N, s, S)
           Good == {n \in Nat : n <= N => KeptOf(kept[n], n, s, S, A)}
<1>1. N \in Nat /\ DOMAIN s = 1..N
  OBVIOUS
<1>2. Filter(s, S) = kept[N]
  BY DEF Filter, FilterStep, FilterRun
<1>3. \E f : FilterRun(f, N, s, S)
  BY <1>1, FilterFunction, Zenon
<1>4. FilterRun(kept, N, s, S)
  BY <1>3
<1> HIDE DEF kept, N
<1>5. \A n \in 0..N : kept[n] = FilterStep(kept, s, S, n)
  BY <1>4, Zenon DEF FilterRun
<1>6. 0 \in Good
  <2>1. kept[0] = <<>>
    BY <1>1, <1>5 DEF FilterStep
  <2>2. KeptOf(<<>>, 0, s, S, A)
    BY DEF KeptOf
  <2> QED
    BY <2>1, <2>2
<1>7. ASSUME NEW n \in Nat, n \in Good
      PROVE  n + 1 \in Good
  <2> SUFFICES ASSUME n + 1 <= N
               PROVE  KeptOf(kept[n+1], n+1, s, S, A)
    OBVIOUS
  <2>1. KeptOf(kept[n], n, s, S, A) /\ s[n+1] \in A
    BY <1>1, <1>7 DEF N
  <2>2. kept[n+1] = IF s[n+1] \in S THEN Append(kept[n], s[n+1]) ELSE kept[n]
    <3>1. n + 1 \in 0..N /\ n + 1 # 0 /\ (n + 1) - 1 = n
      BY <1>1
    <3>2. kept[n+1] = FilterStep(kept, s, S, n+1)
      BY <1>5, <3>1
    <3> QED
      BY <3>1, <3>2 DEF FilterStep
  <2>3. CASE s[n+1] \in S
    BY <2>1, <2>2, <2>3, KeepNext, Zenon
  <2>4. CASE s[n+1] \notin S
    <3>1. /\ \A m \in 1..n : m \in 1..(n+1)
          /\ \A m \in 1..(n+1) : m = n+1 \/ m \in 1..n
      OBVIOUS
    <3>2. KeptOf(kept[n], n+1, s, S, A)
      BY <2>1, <2>4, <3>1 DEF KeptOf
    <3> QED
      BY <2>2, <2>4, <3>2
  <2> QED
    BY <2>3, <2>4
<1>8. \A n \in Nat : n \in Good
  <2> HIDE DEF Good
  <2> QED
    BY <1>6, <1>7, SetInduction
<1>9. KeptOf(kept[N], N, s, S, A)
  BY <1>8, <1>1
<1> QED
  BY <1>9, <1>2 DEF N

(***************************************************************************)
(* The inductive invariant.  The properties proved of the queues need the  *)
(* range of the deadlines in them, which is what keeps a queue sorted when *)
(* an item is appended, and what an operation knows while it holds the     *)
(* mutex.                                                                  *)
(***************************************************************************)
DeadlinesBounded ==
  /\ \A q \in PositiveTTLs : \A j \in DOMAIN queue[q] :
       0 < queue[q][j].deadline /\ queue[q][j].deadline <= clock + q
  /\ \A j \in DOMAIN queue[0] :
       -writes <= queue[0][j].deadline /\ queue[0][j].deadline < 0
  /\ \A k \in Present : data[k].deadline # 0 /\ -writes <= data[k].deadline

(* A write between its call and its last step knows its parameters; the    *)
(* entry it read is still the key's entry when it stores the new one.      *)
OperationKnows ==
  /\ op.pc # "free" => op.now = clock
  /\ Putting \/ op.pc = "trim"
       => op.key \in Keys /\ op.val \in Values /\ op.why \in {"keys", "bytes"}
  /\ op.pc \in {"room", "store"} => op.prev = data[op.key]
  /\ op.pc \in {"expire", "evict"} /\ op.why = "keys"
       => op.prev = None /\ data[op.key] = None
  /\ op.pc = "expire" => op.at >= 1
  /\ op.pc = "evict" => op.why # "pass"
  /\ op.pc = "trim" => op.ttl \in QueueIds
  /\ op.pc = "compact" => op.at <= Len(ttlQueues)

IndInv ==
  TypeOK /\ QueuesSorted /\ EntriesQueued /\ DeadlinesBounded /\ OperationKnows

(* The part of the invariant that is about the queues alone.               *)
QueueInv == QueuesSorted /\ EntriesQueued /\ DeadlinesBounded

(***************************************************************************)
(* Initially every queue is empty.                                         *)
(***************************************************************************)
LEMMA InitIndInv == Init => IndInv
<1> SUFFICES ASSUME Init
             PROVE  IndInv
  OBVIOUS
<1>1. Present = {}
  BY DEF Init, Present
<1>2. TypeOK
  <2>1. Idle \in OpType
    BY DEF Idle, OpType, PCs
  <2>2. <<>> \in Seq(Item) /\ <<>> \in Seq(PositiveTTLs)
    OBVIOUS
  <2>3. queue \in [QueueIds -> Seq(Item)]
    BY <2>2 DEF Init
  <2>4. data \in [Keys -> Entry \cup {None}]
    BY DEF Init
  <2>5. reads \in [Readers -> [key : Keys, entry : Entry \cup {None}] \cup {None}]
    BY DEF Init
  <2>6. stop \in BOOLEAN
    BY Zenon DEF Init
  <2> QED
    BY <2>1, <2>2, <2>3, <2>4, <2>5, <2>6 DEF Init, TypeOK
<1>3. QueuesSorted /\ DeadlinesBounded
  BY <1>1 DEF Init, QueuesSorted, DeadlinesBounded, QueueIds
<1>4. EntriesQueued
  BY <1>1 DEF EntriesQueued
<1>5. OperationKnows
  BY DEF Init, OperationKnows, Idle, Putting
<1> QED
  BY <1>2, <1>3, <1>4, <1>5 DEF IndInv

(***************************************************************************)
(* Steps that leave the shard alone keep what is known of the queues.      *)
(***************************************************************************)
LEMMA UnchangedQueues ==
  ASSUME QueueInv, UNCHANGED <<clock, shardVars>>
  PROVE  QueueInv'
BY DEF QueueInv, QueuesSorted, EntriesQueued, DeadlinesBounded, shardVars, Present

(***************************************************************************)
(* pop.  Removing the head of a queue takes the only item of an entry away *)
(* only if it removes the entry too.                                       *)
(***************************************************************************)
LEMMA HeadTail ==
  ASSUME NEW A, NEW s \in Seq(A), s # <<>>
  PROVE  /\ Len(s) \in Nat \ {0} /\ DOMAIN s = 1..Len(s)
         /\ Head(s) = s[1] /\ Head(s) \in A
         /\ Tail(s) \in Seq(A) /\ DOMAIN Tail(s) = 1..(Len(s) - 1)
         /\ \A i \in 1..(Len(s) - 1) : Tail(s)[i] = s[i+1]
OBVIOUS

(* A pop keeps the types of the shard's fields.                            *)
LEMMA PopTypes ==
  ASSUME TypeOK, NEW q \in QueueIds, queue[q] # <<>>, Pop(q)
  PROVE  /\ queue' \in [QueueIds -> Seq(Item)]
         /\ data' \in [Keys -> Entry \cup {None}]
         /\ items' \in Int /\ bytes' \in Int
         /\ ttlQueues' = ttlQueues /\ writes' = writes
<1> DEFINE it == Head(queue[q])
<1>1. queue[q] \in Seq(Item)
  BY DEF TypeOK
<1>2. it \in Item /\ Tail(queue[q]) \in Seq(Item)
  BY <1>1, HeadTail
<1>3. queue' \in [QueueIds -> Seq(Item)]
  BY <1>2 DEF Pop, TypeOK
<1>4. data' \in [Keys -> Entry \cup {None}]
  BY Zenon DEF Pop, TypeOK
<1>5. items' \in Int /\ ttlQueues' = ttlQueues /\ writes' = writes
  BY DEF Pop, TypeOK
<1>6. SizeOf(data[it.key]) \in Int
  BY <1>2, SizesAssumption DEF SizeOf, TypeOK, Entry, Item
<1>7. bytes' \in Int
  BY <1>6 DEF Pop, TypeOK
<1> QED
  BY <1>3, <1>4, <1>5, <1>7

(* A pop keeps every queue in order and every entry left in one.           *)
LEMMA PopKeepsQueues ==
  ASSUME TypeOK, QueueInv, NEW q \in QueueIds, queue[q] # <<>>, Pop(q), clock' = clock
  PROVE  QueueInv'
<1> DEFINE it == Head(queue[q])
<1>1. queue[q] \in Seq(Item)
  BY DEF TypeOK
<1>2. /\ Len(queue[q]) \in Nat \ {0} /\ DOMAIN queue[q] = 1..Len(queue[q])
      /\ it = queue[q][1] /\ it \in Item
      /\ DOMAIN queue'[q] = 1..(Len(queue[q]) - 1)
      /\ \A i \in 1..(Len(queue[q]) - 1) : queue'[q][i] = queue[q][i+1]
  <2>1. queue'[q] = Tail(queue[q])
    BY DEF Pop, TypeOK
  <2> QED
    BY <1>1, <2>1, HeadTail
<1>3. \A p \in QueueIds : p # q => queue'[p] = queue[p]
  BY DEF Pop, TypeOK
<1>4. ttlQueues' = ttlQueues /\ writes' = writes
  BY DEF Pop
<1>5. \A k \in Present' : k \in Present /\ data'[k] = data[k]
  BY <1>2 DEF Pop, Present, TypeOK, Item
<1>6. \A k \in Present' : it # [key |-> k, deadline |-> data[k].deadline]
  <2> SUFFICES ASSUME NEW k \in Present',
                      it = [key |-> k, deadline |-> data[k].deadline]
               PROVE  FALSE
    OBVIOUS
  <2>1. it \in CurrentItems /\ it.key = k
    BY <1>5 DEF CurrentItems
  <2>2. data'[k] = None
    BY <2>1, <1>2 DEF Pop, TypeOK, Item
  <2> QED
    BY <2>2 DEF Present
<1>7. \A p \in QueueIds : \A j \in DOMAIN queue'[p] :
        \E i \in DOMAIN queue[p] : queue'[p][j] = queue[p][i]
  <2> SUFFICES ASSUME NEW p \in QueueIds, NEW j \in DOMAIN queue'[p]
               PROVE  \E i \in DOMAIN queue[p] : queue'[p][j] = queue[p][i]
    OBVIOUS
  <2>1. CASE p # q
    BY <2>1, <1>3
  <2>2. CASE p = q
    <3>1. j \in 1..(Len(queue[q]) - 1)
      BY <2>2, <1>2
    <3>2. j + 1 \in DOMAIN queue[q] /\ queue'[q][j] = queue[q][j+1]
      BY <3>1, <1>2
    <3> QED
      BY <3>2, <2>2
  <2> QED
    BY <2>1, <2>2
<1>8. QueuesSorted'
  <2>1. ASSUME NEW p \in QueueIds, NEW i \in DOMAIN queue'[p],
               NEW j \in DOMAIN queue'[p], i < j
        PROVE  \E m, n \in DOMAIN queue[p] :
                  m < n /\ queue'[p][i] = queue[p][m] /\ queue'[p][j] = queue[p][n]
    <3>1. CASE p # q
      BY <2>1, <3>1, <1>3
    <3>2. CASE p = q
      <4>1. /\ i + 1 \in DOMAIN queue[q] /\ j + 1 \in DOMAIN queue[q] /\ i + 1 < j + 1
            /\ queue'[q][i] = queue[q][i+1] /\ queue'[q][j] = queue[q][j+1]
        <5>1. i \in 1..(Len(queue[q]) - 1) /\ j \in 1..(Len(queue[q]) - 1)
          BY <2>1, <3>2, <1>2
        <5>2. queue'[q][i] = queue[q][i+1]
          BY <5>1, <1>2
        <5>3. queue'[q][j] = queue[q][j+1]
          BY <5>1, <1>2
        <5>4. i + 1 \in DOMAIN queue[q] /\ j + 1 \in DOMAIN queue[q] /\ i + 1 < j + 1
          BY <5>1, <2>1, <1>2, SMTT(30)
        <5> QED
          BY <5>2, <5>3, <5>4
      <4> QED
        BY <4>1, <3>2
    <3> QED
      BY <3>1, <3>2
  <2> QED
    BY <2>1 DEF QueueInv, QueuesSorted, QueueIds
<1>9. DeadlinesBounded'
  BY <1>4, <1>5, <1>7 DEF QueueInv, DeadlinesBounded, QueueIds
<1>10. ASSUME NEW k \in Present', NEW p \in QueueIds,
              NEW j \in DOMAIN queue[p],
              queue[p][j] = [key |-> k, deadline |-> data[k].deadline]
       PROVE  \E i \in DOMAIN queue'[p] : queue'[p][i] = queue[p][j]
  <2>1. CASE p # q
    BY <2>1, <1>3
  <2>2. CASE p = q
    <3>1. j # 1
      BY <1>10, <2>2, <1>2, <1>6
    <3>2. j - 1 \in DOMAIN queue'[q] /\ queue'[q][j-1] = queue[q][j]
      BY <3>1, <2>2, <1>2, <1>10, SMTT(30)
    <3> QED
      BY <3>2, <2>2
  <2> QED
    BY <2>1, <2>2
<1>11. EntriesQueued'
  <2> SUFFICES ASSUME NEW k \in Present'
               PROVE  LET it1 == [key |-> k, deadline |-> data'[k].deadline]
                          In(p) == \E j \in DOMAIN queue'[p] : queue'[p][j] = it1
                      IN  IF it1.deadline <= 0 THEN In(0)
                          ELSE \E i \in DOMAIN ttlQueues' : In(ttlQueues'[i])
    BY DEF EntriesQueued
  <2>1. k \in Present /\ data'[k] = data[k]
    BY <1>5
  <2>2. \A i \in DOMAIN ttlQueues : ttlQueues[i] \in QueueIds
    BY DEF TypeOK, QueueIds
  <2>3. 0 \in QueueIds
    BY DEF QueueIds
  <2>4. CASE data[k].deadline <= 0
    <3>1. PICK j \in DOMAIN queue[0] :
             queue[0][j] = [key |-> k, deadline |-> data[k].deadline]
      BY <2>1, <2>4 DEF QueueInv, EntriesQueued
    <3>2. \E i \in DOMAIN queue'[0] : queue'[0][i] = queue[0][j]
      BY <3>1, <2>3, <1>10
    <3> QED
      BY <3>1, <3>2, <2>1, <2>4, SMTT(30)
  <2>5. CASE ~(data[k].deadline <= 0)
    <3>1. PICK i \in DOMAIN ttlQueues : \E j \in DOMAIN queue[ttlQueues[i]] :
             queue[ttlQueues[i]][j] = [key |-> k, deadline |-> data[k].deadline]
      BY <2>1, <2>5 DEF QueueInv, EntriesQueued
    <3>2. PICK j \in DOMAIN queue[ttlQueues[i]] :
             queue[ttlQueues[i]][j] = [key |-> k, deadline |-> data[k].deadline]
      BY <3>1
    <3>3. \E n \in DOMAIN queue'[ttlQueues[i]] :
             queue'[ttlQueues[i]][n] = queue[ttlQueues[i]][j]
      BY <3>2, <2>2, <1>10
    <3> QED
      BY <3>2, <3>3, <2>1, <2>5, <1>4, SMTT(30)
  <2> QED
    BY <2>4, <2>5
<1> QED
  BY <1>8, <1>9, <1>11 DEF QueueInv

(***************************************************************************)
(* What each kind of step does to the operation that holds the mutex.      *)
(***************************************************************************)
LEMMA OpFields ==
  ASSUME TypeOK
  PROVE  /\ op.pc \in PCs /\ op.why \in {"none", "keys", "bytes", "pass"}
         /\ op.at \in Nat /\ op.budget \in Nat /\ op.nx \in BOOLEAN
         /\ op.key \in Keys \cup {None} /\ op.val \in Values \cup {None}
         /\ op.ttl \in TTLs \cup {0} /\ op.now \in Nat
         /\ op.prev \in Entry \cup {None}
BY DEF TypeOK, OpType

(* A free mutex is a value of the type of op.                              *)
LEMMA IdleType == Idle \in OpType
BY DEF Idle, OpType, PCs

(* Releasing the mutex leaves nothing to know about the operation.         *)
LEMMA IdleKnows ==
  ASSUME op' = Idle
  PROVE  OperationKnows'
BY DEF Idle, OperationKnows, Putting

(* The start of put keeps the invariant.                                   *)
LEMMA BeginPutInv ==
  ASSUME IndInv, NEW k \in Keys, NEW v \in Values, NEW ttl \in TTLs,
         NEW nx \in BOOLEAN, BeginPut(k, v, ttl, nx)
  PROVE  IndInv'
<1>1. QueueInv'
  BY UnchangedQueues DEF IndInv, QueueInv, BeginPut
<1>2. op' \in OpType
  BY DEF BeginPut, IndInv, TypeOK, OpType, PCs
<1>3. TypeOK'
  BY <1>2, SMTT(30) DEF BeginPut, IndInv, TypeOK, shardVars
<1>4. OperationKnows'
  BY DEF BeginPut, IndInv, OperationKnows, Putting, shardVars
<1> QED
  BY <1>1, <1>3, <1>4 DEF IndInv, QueueInv

(* The test of the byte cap in put keeps the invariant.                    *)
LEMMA CheckBytesInv == IndInv /\ CheckBytes => IndInv'
<1> SUFFICES ASSUME IndInv, CheckBytes
             PROVE  IndInv'
  OBVIOUS
<1>1. QueueInv'
  BY UnchangedQueues DEF IndInv, QueueInv, CheckBytes
<1>2. op' \in OpType
  BY ZenonT(40) DEF CheckBytes, IndInv, TypeOK, OpType, PCs
<1>3. TypeOK'
  BY <1>2 DEF CheckBytes, IndInv, TypeOK, shardVars
<1>4. OperationKnows'
  BY DEF CheckBytes, IndInv, OperationKnows, Putting, shardVars, TypeOK, OpType
<1> QED
  BY <1>1, <1>3, <1>4 DEF IndInv, QueueInv

(* expireQueue popping an expired head keeps the invariant.                *)
LEMMA ExpirePopInv == IndInv /\ ExpirePop => IndInv'
<1> SUFFICES ASSUME IndInv, ExpirePop
             PROVE  IndInv'
  OBVIOUS
<1> DEFINE q == ttlQueues[op.at]
<1>1. q \in QueueIds /\ queue[q] # <<>> /\ Pop(q)
  <2>1. op.at \in 1..Len(ttlQueues)
    BY OpFields DEF ExpirePop, Expiring, IndInv, OperationKnows
  <2> QED
    BY <2>1 DEF ExpirePop, HeadExpired, IndInv, TypeOK, QueueIds
<1>2. QueueInv'
  BY <1>1, PopKeepsQueues DEF IndInv, QueueInv, ExpirePop
<1>3. op' \in OpType
  <2>1. op.why = "pass" => op.budget - 1 \in Nat
    BY OpFields DEF ExpirePop, Expiring, IndInv
  <2> QED
    BY <2>1, Zenon DEF ExpirePop, IndInv, TypeOK, OpType
<1>4. TypeOK'
  BY <1>1, <1>3, PopTypes, SMTT(30) DEF ExpirePop, IndInv, TypeOK
<1>5. \A k \in Keys : data[k] = None => data'[k] = None
  BY <1>1 DEF Pop, IndInv, TypeOK
<1>6. OperationKnows'
  BY <1>5 DEF ExpirePop, Expiring, IndInv, OperationKnows, Putting, TypeOK, OpType
<1> QED
  BY <1>2, <1>4, <1>6 DEF IndInv, QueueInv

(* expire going on to the next queue keeps the invariant.                  *)
LEMMA ExpireNextQueueInv == IndInv /\ ExpireNextQueue => IndInv'
<1> SUFFICES ASSUME IndInv, ExpireNextQueue
             PROVE  IndInv'
  OBVIOUS
<1>1. QueueInv'
  BY UnchangedQueues DEF IndInv, QueueInv, ExpireNextQueue
<1>2. op' \in OpType
  <2>1. op.at + 1 \in Nat
    BY OpFields DEF IndInv
  <2> QED
    BY <2>1, Zenon DEF ExpireNextQueue, IndInv, TypeOK, OpType
<1>3. TypeOK'
  BY <1>2 DEF ExpireNextQueue, IndInv, TypeOK, shardVars
<1>4. OperationKnows'
  BY DEF ExpireNextQueue, Expiring, IndInv, OperationKnows, Putting, shardVars, TypeOK, OpType
<1> QED
  BY <1>1, <1>3, <1>4 DEF IndInv, QueueInv

(***************************************************************************)
(* dropEmptyQueues forgets no queue that holds an item.                    *)
(***************************************************************************)
LEMMA ExpireDoneInv == IndInv /\ ExpireDone => IndInv'
<1> SUFFICES ASSUME IndInv, ExpireDone
             PROVE  IndInv'
  OBVIOUS
<1> DEFINE S == {t \in QueueIds : queue[t] # <<>>}
<1>1. op' \in OpType /\ op'.pc \in {"evict", "free"}
  BY IdleType, ZenonT(40) DEF ExpireDone, Release, Idle, IndInv, TypeOK, OpType, PCs
<1>2. OperationKnows'
  <2>1. CASE op' = Idle
    BY <2>1, IdleKnows
  <2>2. CASE op' = [op EXCEPT !.pc = "evict"] /\ op.why # "pass"
    BY <2>2 DEF ExpireDone, IndInv, OperationKnows, Putting, TypeOK, OpType
  <2> QED
    BY <2>1, <2>2 DEF ExpireDone, Release
<1>3. CASE ttlQueues' = ttlQueues
  <2>1. QueueInv'
    BY <1>3, UnchangedQueues DEF IndInv, QueueInv, ExpireDone, shardVars
  <2>2. TypeOK'
    BY <1>1, <1>3 DEF ExpireDone, IndInv, TypeOK
  <2> QED
    BY <2>1, <2>2, <1>2 DEF IndInv, QueueInv
<1>4. CASE ttlQueues' = Filter(ttlQueues, S)
  <2>1. /\ ttlQueues' \in Seq(PositiveTTLs)
        /\ \A i \in DOMAIN ttlQueues : ttlQueues[i] \in S =>
              \E j \in DOMAIN ttlQueues' : ttlQueues'[j] = ttlQueues[i]
    <3> HIDE DEF S
    <3>1. KeptOf(ttlQueues', Len(ttlQueues), ttlQueues, S, PositiveTTLs)
      BY <1>4, FilterKeeps DEF IndInv, TypeOK
    <3> QED
      BY <3>1, SMTT(30) DEF KeptOf, IndInv, TypeOK
  <2>2. TypeOK'
    BY <1>1, <2>1 DEF ExpireDone, IndInv, TypeOK
  <2>3. QueuesSorted' /\ DeadlinesBounded'
    BY DEF ExpireDone, IndInv, QueuesSorted, DeadlinesBounded, Present
  <2>4. \A i \in DOMAIN ttlQueues :
          \A j \in DOMAIN queue[ttlQueues[i]] : ttlQueues[i] \in S
    BY DEF IndInv, TypeOK, QueueIds
  <2>5. EntriesQueued'
    BY <2>1, <2>4 DEF ExpireDone, IndInv, EntriesQueued, Present
  <2> QED
    BY <2>2, <2>3, <2>5, <1>2, SMTT(30) DEF IndInv
<1> QED
  BY <1>3, <1>4 DEF ExpireDone

(* evict popping an item keeps the invariant.                              *)
LEMMA EvictPopInv == IndInv /\ EvictPop => IndInv'
<1> SUFFICES ASSUME IndInv, EvictPop
             PROVE  IndInv'
  OBVIOUS
<1>1. PICK q \in QueueIds : queue[q] # <<>> /\ Pop(q)
  BY DEF EvictPop
<1>2. QueueInv'
  BY <1>1, PopKeepsQueues, SMTT(30) DEF IndInv, QueueInv, EvictPop
<1>3. TypeOK'
  BY <1>1, PopTypes DEF EvictPop, IndInv, TypeOK
<1>4. \A k \in Keys : data[k] = None => data'[k] = None
  BY <1>1, SMTT(30) DEF Pop, IndInv, TypeOK
<1>5. OperationKnows'
  BY <1>4 DEF EvictPop, IndInv, OperationKnows, Putting, TypeOK, OpType
<1> QED
  BY <1>2, <1>3, <1>5, SMTT(30) DEF IndInv, QueueInv

(* The end of evict keeps the invariant.                                   *)
LEMMA EvictDoneInv == IndInv /\ EvictDone => IndInv'
<1> SUFFICES ASSUME IndInv, EvictDone
             PROVE  IndInv'
  OBVIOUS
<1>1. QueueInv'
  BY UnchangedQueues DEF IndInv, QueueInv, EvictDone
<1>2. op' \in OpType
  BY Zenon DEF EvictDone, IndInv, OperationKnows, Putting, TypeOK, OpType, PCs
<1>3. TypeOK'
  BY <1>2 DEF EvictDone, IndInv, TypeOK, shardVars
<1>4. OperationKnows'
  BY DEF EvictDone, IndInv, OperationKnows, Putting, shardVars, TypeOK, OpType
<1> QED
  BY <1>1, <1>3, <1>4 DEF IndInv, QueueInv

(* put trimming its own queue keeps the invariant.                         *)
LEMMA TrimPopInv == IndInv /\ TrimPop => IndInv'
<1> SUFFICES ASSUME IndInv, TrimPop
             PROVE  IndInv'
  OBVIOUS
<1>1. op.ttl \in QueueIds /\ queue[op.ttl] # <<>> /\ Pop(op.ttl)
  BY DEF TrimPop, HeadExpired, IndInv, OperationKnows
<1>2. QueueInv'
  BY <1>1, PopKeepsQueues DEF IndInv, QueueInv, TrimPop
<1>3. op' \in OpType
  <2>1. op.budget - 1 \in Nat
    BY OpFields DEF TrimPop, IndInv
  <2> QED
    BY <2>1, Zenon DEF TrimPop, IndInv, TypeOK, OpType
<1>4. TypeOK'
  BY <1>1, <1>3, PopTypes DEF TrimPop, IndInv, TypeOK
<1>5. OperationKnows'
  BY DEF TrimPop, IndInv, OperationKnows, Putting, TypeOK, OpType
<1> QED
  BY <1>2, <1>4, <1>5 DEF IndInv, QueueInv

(* The end of the trimming keeps the invariant.                            *)
LEMMA TrimDoneInv == IndInv /\ TrimDone => IndInv'
<1> SUFFICES ASSUME IndInv, TrimDone
             PROVE  IndInv'
  OBVIOUS
<1>1. QueueInv'
  BY UnchangedQueues DEF IndInv, QueueInv, TrimDone
<1>2. op' \in OpType
  <2>1. [op EXCEPT !.pc = "compact", !.at = 0] \in OpType
    BY Zenon DEF IndInv, TypeOK, OpType, PCs
  <2> QED
    BY <2>1, IdleType DEF TrimDone, Release
<1>3. TypeOK'
  BY <1>2 DEF TrimDone, IndInv, TypeOK, shardVars
<1>4. OperationKnows'
  <2>1. CASE op' = Idle
    BY <2>1, IdleKnows
  <2>2. CASE op' = [op EXCEPT !.pc = "compact", !.at = 0]
    BY <2>2 DEF TrimDone, IndInv, OperationKnows, Putting, shardVars, TypeOK, OpType
  <2> QED
    BY <2>1, <2>2 DEF TrimDone, Release
<1> QED
  BY <1>1, <1>3, <1>4 DEF IndInv, QueueInv

(* What a queue holds has the type of an item.                             *)
LEMMA ItemDeadline ==
  ASSUME TypeOK, NEW q \in QueueIds, NEW i \in DOMAIN queue[q]
  PROVE  queue[q][i] \in Item /\ queue[q][i].deadline \in Int
<1>1. queue[q] \in Seq(Item)
  BY DEF TypeOK
<1>2. queue[q][i] \in Item
  BY <1>1
<1> QED
  BY <1>2 DEF Item

(***************************************************************************)
(* compact drops stale items only, and keeps the order of the others.      *)
(***************************************************************************)
LEMMA CompactInv == IndInv /\ Compact => IndInv'
<1> SUFFICES ASSUME IndInv, Compact
             PROVE  IndInv'
  OBVIOUS
<1> DEFINE q == IF op.at = 0 THEN 0 ELSE ttlQueues[op.at]
           kept == Filter(queue[q], CurrentItems)
<1>1. TypeOK /\ op.at \in Nat /\ op.at <= Len(ttlQueues)
  BY OpFields DEF IndInv, OperationKnows, Compact
<1>2. q \in QueueIds
  BY <1>1 DEF TypeOK, QueueIds
<1>3. /\ queue' = [queue EXCEPT ![q] = kept]
      /\ items' = (IF op.at = 0 THEN 0 ELSE items) + Len(kept)
      /\ IF op.at = Len(ttlQueues) THEN op' = Idle
         ELSE op' = [op EXCEPT !.at = @ + 1]
      /\ UNCHANGED <<clock, data, ttlQueues, writes, bytes, expirer, stop, reads>>
  BY DEF Compact, Release
<1> HIDE DEF q
<1>4. queue[q] \in Seq(Item)
  BY <1>1, <1>2 DEF TypeOK
<1>5. KeptOf(kept, Len(queue[q]), queue[q], CurrentItems, Item)
  BY <1>4, FilterKeeps, SMTT(30)
<1> HIDE DEF kept
<1>6. /\ DOMAIN queue[q] = 1..Len(queue[q])
      /\ kept \in Seq(Item) /\ Len(kept) \in Nat
      /\ \A m \in DOMAIN queue[q] : queue[q][m] \in CurrentItems
            => \E j \in DOMAIN kept : kept[j] = queue[q][m]
      /\ \A i, j \in DOMAIN kept : i < j =>
            \E m1, m2 \in DOMAIN queue[q] :
              m1 < m2 /\ kept[i] = queue[q][m1] /\ kept[j] = queue[q][m2]
      /\ \A j \in DOMAIN kept : \E m \in DOMAIN queue[q] : kept[j] = queue[q][m]
  <2>1. DOMAIN queue[q] = 1..Len(queue[q])
    BY <1>4
  <2>2. kept \in Seq(Item) /\ Len(kept) \in Nat
    BY <1>5 DEF KeptOf
  <2>3. \A m \in DOMAIN queue[q] : queue[q][m] \in CurrentItems
           => \E j \in DOMAIN kept : kept[j] = queue[q][m]
    BY <1>5, <2>1, Zenon DEF KeptOf
  <2>4. ASSUME NEW i \in DOMAIN kept, NEW j \in DOMAIN kept, i < j
        PROVE  \E m1, m2 \in DOMAIN queue[q] :
                 m1 < m2 /\ kept[i] = queue[q][m1] /\ kept[j] = queue[q][m2]
    <3>1. \E m1, m2 \in 1..Len(queue[q]) :
            m1 < m2 /\ kept[i] = queue[q][m1] /\ kept[j] = queue[q][m2]
      BY <1>5, <2>4, Zenon DEF KeptOf
    <3> QED
      BY <3>1, <2>1, Zenon
  <2>5. ASSUME NEW j \in DOMAIN kept
        PROVE  \E m \in DOMAIN queue[q] : kept[j] = queue[q][m]
    <3>1. \E m \in 1..Len(queue[q]) : kept[j] = queue[q][m]
      BY <1>5, <2>5, Zenon DEF KeptOf
    <3> QED
      BY <3>1, <2>1, Zenon
  <2> QED
    BY <2>1, <2>2, <2>3, <2>4, <2>5, Zenon
<1>7. /\ queue'[q] = kept
      /\ \A p \in QueueIds : p # q => queue'[p] = queue[p]
      /\ queue' \in [QueueIds -> Seq(Item)] /\ items' \in Int
  BY <1>1, <1>2, <1>3, <1>6 DEF TypeOK
<1>8. op' \in OpType
  <2>1. op.at + 1 \in Nat
    BY <1>1
  <2>2. CASE op' = Idle
    BY <2>2, IdleType
  <2>3. CASE op' = [op EXCEPT !.at = @ + 1]
    <3>1. op \in OpType
      BY <1>1 DEF TypeOK
    <3> QED
      BY <2>1, <2>3, <3>1, ZenonT(40) DEF OpType
  <2> QED
    BY <2>2, <2>3, <1>3
<1>9. TypeOK'
  BY <1>1, <1>3, <1>7, <1>8 DEF TypeOK
<1>10. OperationKnows'
  <2>1. CASE op' = Idle
    BY <2>1, IdleKnows
  <2>2. CASE op' = [op EXCEPT !.at = @ + 1] /\ op.at # Len(ttlQueues)
    <3>1. Len(ttlQueues) \in Nat
      BY <1>1 DEF TypeOK
    <3>2. /\ op'.pc = "compact" /\ op'.at = op.at + 1 /\ op'.now = op.now
          /\ op.pc = "compact"
      BY <2>2, <1>1, SMTT(30) DEF Compact, TypeOK, OpType
    <3> QED
      BY <3>1, <3>2, <2>2, <1>1, <1>3, SMTT(30) DEF IndInv, OperationKnows, Putting
  <2> QED
    BY <2>1, <2>2, <1>3
<1>11. QueuesSorted'
  <2>1. ASSUME NEW p \in QueueIds, NEW i \in DOMAIN queue'[p],
               NEW j \in DOMAIN queue'[p], i < j
        PROVE  \E m, n \in DOMAIN queue[p] :
                  m < n /\ queue'[p][i] = queue[p][m] /\ queue'[p][j] = queue[p][n]
    <3>1. CASE p = q
      <4>1. queue'[p] = kept
        BY <3>1, <1>7
      <4>2. \E m, n \in DOMAIN queue[q] : m < n /\ kept[i] = queue[q][m] /\ kept[j] = queue[q][n]
        BY <4>1, <2>1, <1>6, Zenon
      <4> QED
        BY <4>1, <4>2, <3>1, Zenon
    <3>2. CASE p # q
      BY <2>1, <3>2, <1>7
    <3> QED
      BY <3>1, <3>2, SMTT(30)
  <2> QED
    BY <2>1, SMTT(30) DEF IndInv, QueuesSorted, QueueIds
<1>12. DeadlinesBounded'
  <2>1. ASSUME NEW p \in QueueIds, NEW j \in DOMAIN queue'[p]
        PROVE  \E i \in DOMAIN queue[p] : queue'[p][j] = queue[p][i]
    <3>1. CASE p = q
      BY <3>1, <1>6, <1>7
    <3>2. CASE p # q
      BY <3>2, <1>7
    <3> QED
      BY <3>1, <3>2
  <2> QED
    BY <2>1, <1>3, SMTT(30) DEF IndInv, DeadlinesBounded, QueueIds, Present
<1>13. EntriesQueued'
  <2>1. ASSUME NEW k \in Present, NEW p \in QueueIds, NEW j \in DOMAIN queue[p],
               queue[p][j] = [key |-> k, deadline |-> data[k].deadline]
        PROVE  \E i \in DOMAIN queue'[p] : queue'[p][i] = queue[p][j]
    <3>1. queue[p][j] \in CurrentItems
      BY <2>1 DEF CurrentItems
    <3>2. CASE p = q
      BY <3>1, <3>2, <1>6, <1>7, SMTT(30)
    <3>3. CASE p # q
      BY <3>3, <1>7, SMTT(30)
    <3> QED
      BY <3>2, <3>3, SMTT(30)
  <2>2. 0 \in QueueIds /\ \A i \in DOMAIN ttlQueues : ttlQueues[i] \in QueueIds
    BY <1>1 DEF TypeOK, QueueIds
  <2>3. Present' = Present /\ data' = data /\ ttlQueues' = ttlQueues
    BY <1>3 DEF Present
  <2> QED
    BY <2>1, <2>2, <2>3, SMTT(30) DEF IndInv, EntriesQueued
<1> QED
  BY <1>9, <1>10, <1>11, <1>12, <1>13 DEF IndInv
=============================================================================
