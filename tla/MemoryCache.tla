---------------------------- MODULE MemoryCache -----------------------------
(***************************************************************************)
(* One shard of the in-memory cache backend, src/cache/memory/memory.go:   *)
(* a map of entries, one FIFO expiry queue per TTL in use, lazy deletion   *)
(* from the queues, a key cap and a byte cap, and the background expirer.  *)
(* The 64 shards of a Backend share nothing but the expirer, which visits  *)
(* them one after another, so one shard carries all of the behaviour.      *)
(*                                                                         *)
(* Every operation runs under the shard's mutex.  A write is a chain of    *)
(* steps that holds it (op.pc says where the holder is), one step per      *)
(* iteration of the code's loops; no other operation runs meanwhile.       *)
(* Get is two steps: it reads the entry under the lock and looks at the    *)
(* clock after it.                                                         *)
(***************************************************************************)
EXTENDS Integers, Sequences, FiniteSets, Lists
LOCAL INSTANCE FiniteSetsExt

CONSTANTS
  Keys,               \* the keys of this shard
  Values,             \* the values written
  Size,               \* [Values -> Nat], their lengths in bytes
  TTLs,               \* the TTLs callers pass; one that is not positive
                      \* asks for no expiry
  Readers,            \* goroutines calling Get
  None,               \* stands for "no entry"
  PerShard,           \* entry cap (0 = unbounded)
  PerShardBytes,      \* value bytes cap (0 = unbounded)
  WriteExpireBudget,  \* expired items a write pops from its TTL queue
  ExpireBatch,        \* items the expirer pops per lock hold
  CompactSlack,       \* stale items tolerated beyond the entry count
  MaxInt,             \* the largest int64
  MaxClock,           \* bound on the clock
  MaxWrites,          \* bound on the writes that never expire
  MaxItems            \* bound on the queued items: no write starts above it

ASSUME SizesAssumption == Size \in [Values -> Nat]
ASSUME TTLsAssumption == TTLs \subseteq Int
ASSUME NoneAssumption ==
  None \notin [value : Values, deadline : Int] \cup [key : Keys, nx : BOOLEAN]
ASSUME LimitsAssumption ==
  /\ PerShard \in Nat /\ PerShardBytes \in Nat
  /\ WriteExpireBudget \in Nat /\ ExpireBatch \in Nat \ {0}
  /\ CompactSlack \in Nat /\ MaxInt \in Nat \ {0}
  /\ MaxClock \in Nat /\ MaxWrites \in Nat /\ MaxItems \in Nat

VARIABLES
  clock,      \* monoNow()
  data,       \* [Keys -> Entry \cup {None}], the map
  queue,      \* the expiry queues by TTL; queue[0] is the forever queue
  ttlQueues,  \* the TTLs whose queue is open, in the order they opened
  writes,     \* number of writes that never expire
  items,      \* the shard's count of queued items
  bytes,      \* the shard's count of value bytes
  op,         \* the operation holding the shard's mutex
  expirer,    \* state of the background expirer
  stop,       \* whether Close has closed the stop channel
  reads       \* [Readers -> what a Get in progress has read]

shardVars == <<data, queue, ttlQueues, writes, items, bytes>>
vars == <<clock, shardVars, op, expirer, stop, reads>>

Entry == [value : Values, deadline : Int]

Item == [key : Keys, deadline : Int]

(* Queue identifiers: a positive TTL, or 0 for the entries that never      *)
(* expire.                                                                 *)
PositiveTTLs == {t \in TTLs : t > 0}
QueueIds == PositiveTTLs \cup {0}

Present == {k \in Keys : data[k] # None}

Live(e, now) == e.deadline <= 0 \/ now < e.deadline

SizeOf(e) == IF e = None THEN 0 ELSE Size[e.value]

(* An item is current while the entry of its key carries its deadline.     *)
CurrentItems == {[key |-> k, deadline |-> data[k].deadline] : k \in Present}

(***************************************************************************)
(* The operation that holds the mutex: pc is where it is, why is the loop  *)
(* that runs (making room for keys or for bytes, or the expirer's pass),   *)
(* at and budget are the loop's variables, nx tells SetNX from Set and     *)
(* the rest are put's parameters.                                          *)
(***************************************************************************)
Idle == [pc |-> "free", why |-> "none", at |-> 0, budget |-> 0, nx |-> FALSE,
         key |-> None, val |-> None, ttl |-> 0, now |-> 0, prev |-> None]

Release == op' = Idle

Init ==
  /\ clock = 0
  /\ data = [k \in Keys |-> None]
  /\ queue = [t \in QueueIds |-> <<>>]
  /\ ttlQueues = <<>>
  /\ writes = 0
  /\ items = 0
  /\ bytes = 0
  /\ op = Idle
  /\ expirer = "waiting"
  /\ stop = FALSE
  /\ reads = [r \in Readers |-> None]

(* Mutant: pop forgets to check that the item is current.                  *)
PopUnchecked(q) ==
  LET it == Head(queue[q])
  IN  /\ queue' = [queue EXCEPT ![q] = Tail(@)]
      /\ items' = items - 1
      /\ bytes' = bytes - SizeOf(data[it.key])
      /\ data' = [data EXCEPT ![it.key] = None]
      /\ UNCHANGED <<ttlQueues, writes>>

(* pop removes the head item of queue q, and its entry while it is current. *)
Pop(q) ==
  LET it == Head(queue[q])
  IN  /\ queue' = [queue EXCEPT ![q] = Tail(@)]
      /\ items' = items - 1
      /\ IF it \in CurrentItems
         THEN /\ bytes' = bytes - SizeOf(data[it.key])
              /\ data' = [data EXCEPT ![it.key] = None]
         ELSE UNCHANGED <<bytes, data>>
      /\ UNCHANGED <<ttlQueues, writes>>

(***************************************************************************)
(* Set and SetNX.  SetNX of a key that a live entry holds returns false    *)
(* and changes nothing.  The two bounds of the model are checked here.     *)
(***************************************************************************)
Int64(n) == IF n > MaxInt THEN n - 2 * (MaxInt + 1) ELSE n

(* Mutant: the deadline's overflow is not tested.                          *)
ExpiresUnchecked(ttl, now) == ttl > 0

Expires(ttl, now) == ttl > 0 /\ now <= MaxInt - ttl

BeginPut(k, v, ttl, nx) ==
  /\ op.pc = "free"
  /\ items < MaxItems
  /\ Expires(ttl, clock) \/ writes < MaxWrites
  /\ op' = [pc |-> IF /\ data[k] = None
                      /\ PerShard > 0
                      /\ Cardinality(Present) >= PerShard
                   THEN "expire" ELSE "room",
            why |-> "keys", at |-> 1, budget |-> 0, nx |-> nx,
            key |-> k, val |-> v, ttl |-> ttl, now |-> clock,
            prev |-> data[k]]
  /\ UNCHANGED <<clock, shardVars, expirer, stop, reads>>

Set(k, v, ttl) == BeginPut(k, v, ttl, FALSE)

SetNX(k, v, ttl) ==
  /\ k \in Present => ~Live(data[k], clock)
  /\ BeginPut(k, v, ttl, TRUE)

(* put's test against the byte cap.                                        *)
CheckBytes ==
  LET need == Size[op.val] - SizeOf(op.prev)
  IN  /\ op.pc = "room"
      /\ op' = IF /\ PerShardBytes > 0
                  /\ need > 0
                  /\ bytes + need > PerShardBytes
               THEN [op EXCEPT !.pc = "expire", !.why = "bytes", !.at = 1]
               ELSE [op EXCEPT !.pc = "store"]
      /\ UNCHANGED <<clock, shardVars, expirer, stop, reads>>

(***************************************************************************)
(* expire: pop the expired heads of each open TTL queue in turn; the       *)
(* expirer stops at its budget, a write has one it cannot exhaust.         *)
(***************************************************************************)
(* Mutant: an entry is kept at its deadline.                               *)
HeadPastDeadline(q) == queue[q] # <<>> /\ Head(queue[q]).deadline < op.now

HeadExpired(q) == queue[q] # <<>> /\ Head(queue[q]).deadline <= op.now

Expiring ==
  /\ op.pc = "expire"
  /\ op.why = "pass" => op.budget > 0
  /\ op.at <= Len(ttlQueues)

ExpirePop ==
  /\ Expiring
  /\ HeadExpired(ttlQueues[op.at])
  /\ Pop(ttlQueues[op.at])
  /\ op' = IF op.why = "pass" THEN [op EXCEPT !.budget = @ - 1] ELSE op
  /\ UNCHANGED <<clock, expirer, stop, reads>>

ExpireNextQueue ==
  /\ Expiring
  /\ ~HeadExpired(ttlQueues[op.at])
  /\ op' = [op EXCEPT !.at = @ + 1]
  /\ UNCHANGED <<clock, shardVars, expirer, stop, reads>>

(* Mutant: dropEmptyQueues keeps the empty queues and forgets the others.  *)
ExpireDoneDropsFull ==
  /\ op.pc = "expire" /\ ~Expiring
  /\ \/ /\ op.why # "pass"
        /\ op' = [op EXCEPT !.pc = "evict"]
        /\ UNCHANGED <<ttlQueues, expirer>>
     \/ /\ op.why = "pass"
        /\ ttlQueues' = Filter(ttlQueues, {t \in QueueIds : queue[t] = <<>>})
        /\ expirer' = "waiting"
        /\ Release
  /\ UNCHANGED <<clock, data, queue, writes, items, bytes, stop, reads>>

(* makeRoom and makeRoomBytes go on to evict; the expirer releases the     *)
(* lock, forgetting the empty queues unless the budget ran out first.      *)
ExpireDone ==
  /\ op.pc = "expire" /\ ~Expiring
  /\ \/ /\ op.why # "pass"
        /\ op' = [op EXCEPT !.pc = "evict"]
        /\ UNCHANGED <<ttlQueues, expirer>>
     \/ /\ op.why = "pass"
        /\ op.budget = 0
        /\ Release
        /\ UNCHANGED <<ttlQueues, expirer>>
     \/ /\ op.why = "pass"
        /\ op.budget > 0
        /\ ttlQueues' = Filter(ttlQueues, {t \in QueueIds : queue[t] # <<>>})
        /\ expirer' = "waiting"
        /\ Release
  /\ UNCHANGED <<clock, data, queue, writes, items, bytes, stop, reads>>

(***************************************************************************)
(* evict: drop the stale heads of the open TTL queues, then pop the        *)
(* earliest head, the first queue opened winning a tie; once no TTL queue  *)
(* holds an item, pop the forever queue, whose stale heads go the same     *)
(* way.  The loop runs until there is room or every queue is empty.        *)
(***************************************************************************)
(* Mutants: makeRoom stops one entry early; makeRoomBytes is given the cap *)
(* and not what the new value leaves of it.                                *)
OverLimitByOne ==
  IF op.why = "keys" THEN Cardinality(Present) > PerShard
  ELSE bytes > PerShardBytes - Size[op.val]

OverLimitWholeCap ==
  IF op.why = "keys" THEN Cardinality(Present) >= PerShard
  ELSE bytes > PerShardBytes

OverLimit ==
  IF op.why = "keys" THEN Cardinality(Present) >= PerShard
  ELSE bytes > PerShardBytes - Size[op.val]

NonEmpty == {i \in DOMAIN ttlQueues : queue[ttlQueues[i]] # <<>>}

HeadOf(i) == Head(queue[ttlQueues[i]])

StaleHeads == {i \in NonEmpty : HeadOf(i) \notin CurrentItems}

Earliest(i) ==
  \A j \in NonEmpty :
    \/ HeadOf(i).deadline < HeadOf(j).deadline
    \/ HeadOf(i).deadline = HeadOf(j).deadline /\ i <= j

PopsNext(q) ==
  \/ NonEmpty = {} /\ q = 0
  \/ \E i \in NonEmpty :
       /\ q = ttlQueues[i]
       /\ IF StaleHeads = {} THEN Earliest(i)
          ELSE i \in StaleHeads /\ \A j \in StaleHeads : i <= j

EvictPop ==
  /\ op.pc = "evict"
  /\ OverLimit
  /\ \E q \in QueueIds :
       /\ PopsNext(q)
       /\ queue[q] # <<>>
       /\ Pop(q)
  /\ UNCHANGED <<clock, op, expirer, stop, reads>>

(* Mutants: put keeps the entry it read before making room; the loop has   *)
(* no exit for a shard that is empty.                                      *)
EvictDoneKeepsPrev ==
  /\ op.pc = "evict"
  /\ OverLimit => NonEmpty = {} /\ queue[0] = <<>>
  /\ op' = [op EXCEPT !.pc = IF op.why = "keys" THEN "room" ELSE "store"]
  /\ UNCHANGED <<clock, shardVars, expirer, stop, reads>>

EvictDoneOnlyBelow ==
  /\ op.pc = "evict"
  /\ ~OverLimit
  /\ op' = IF op.why = "keys" THEN [op EXCEPT !.pc = "room"]
           ELSE [op EXCEPT !.pc = "store", !.prev = data[op.key]]
  /\ UNCHANGED <<clock, shardVars, expirer, stop, reads>>

(* Making room for bytes may have evicted the key itself, so put reads its *)
(* entry again.                                                            *)
EvictDone ==
  /\ op.pc = "evict"
  /\ OverLimit => NonEmpty = {} /\ queue[0] = <<>>
  /\ op' = IF op.why = "keys" THEN [op EXCEPT !.pc = "room"]
           ELSE [op EXCEPT !.pc = "store", !.prev = data[op.key]]
  /\ UNCHANGED <<clock, shardVars, expirer, stop, reads>>

(***************************************************************************)
(* The rest of put: store the entry, queue its item unless the item that   *)
(* is queued already carries the same deadline, pop a few expired items of *)
(* its queue, and compact when stale items pile up.                        *)
(***************************************************************************)
(* Mutant: any entry replaced is taken to leave its item for the new one.  *)
QueuedAlways(deadline) == op.prev # None

Queued(deadline) == op.prev # None /\ op.prev.deadline = deadline

Store ==
  LET expires  == Expires(op.ttl, op.now)
      q        == IF expires THEN op.ttl ELSE 0
      deadline == IF expires THEN Int64(op.now + op.ttl) ELSE -(writes + 1)
  IN  /\ op.pc = "store"
      /\ bytes' = bytes - SizeOf(op.prev) + Size[op.val]
      /\ writes' = IF expires THEN writes ELSE writes + 1
      /\ ttlQueues' = IF expires /\ \A i \in DOMAIN ttlQueues : ttlQueues[i] # q
                      THEN Append(ttlQueues, q) ELSE ttlQueues
      /\ data' = [data EXCEPT ![op.key] = [value    |-> op.val,
                                           deadline |-> deadline]]
      /\ \/ Queued(deadline) /\ Release /\ UNCHANGED <<queue, items>>
         \/ /\ ~Queued(deadline)
            /\ queue' = [queue EXCEPT ![q] =
                           Append(@, [key |-> op.key, deadline |-> deadline])]
            /\ items' = items + 1
            /\ op' = [op EXCEPT !.pc = "trim", !.ttl = q,
                        !.budget = IF expires THEN WriteExpireBudget ELSE 0]
      /\ UNCHANGED <<clock, expirer, stop, reads>>

TrimPop ==
  /\ op.pc = "trim" /\ op.budget > 0 /\ HeadExpired(op.ttl)
  /\ Pop(op.ttl)
  /\ op' = [op EXCEPT !.budget = @ - 1]
  /\ UNCHANGED <<clock, expirer, stop, reads>>

TrimDone ==
  /\ op.pc = "trim" /\ ~(op.budget > 0 /\ HeadExpired(op.ttl))
  /\ IF items > 2 * Cardinality(Present) + CompactSlack
     THEN op' = [op EXCEPT !.pc = "compact", !.at = 0]
     ELSE Release
  /\ UNCHANGED <<clock, shardVars, expirer, stop, reads>>

(* Mutant: all but the queue opened last are compacted.                    *)
CompactButLast ==
  LET q    == IF op.at = 0 THEN 0 ELSE ttlQueues[op.at]
      kept == Filter(queue[q], CurrentItems)
  IN  /\ op.pc = "compact"
      /\ queue' = [queue EXCEPT ![q] = kept]
      /\ items' = (IF op.at = 0 THEN 0 ELSE items) + Len(kept)
      /\ IF op.at + 1 >= Len(ttlQueues) THEN Release
         ELSE op' = [op EXCEPT !.at = @ + 1]
      /\ UNCHANGED <<clock, data, ttlQueues, writes, bytes, expirer, stop, reads>>

(* compact recounts the items as it filters one queue after another.       *)
Compact ==
  LET q    == IF op.at = 0 THEN 0 ELSE ttlQueues[op.at]
      kept == Filter(queue[q], CurrentItems)
  IN  /\ op.pc = "compact"
      /\ queue' = [queue EXCEPT ![q] = kept]
      /\ items' = (IF op.at = 0 THEN 0 ELSE items) + Len(kept)
      /\ IF op.at = Len(ttlQueues) THEN Release
         ELSE op' = [op EXCEPT !.at = @ + 1]
      /\ UNCHANGED <<clock, data, ttlQueues, writes, bytes, expirer, stop, reads>>

(* Del of a key that is absent changes nothing.                            *)
Del(k) ==
  /\ op.pc = "free"
  /\ k \in Present
  /\ bytes' = bytes - SizeOf(data[k])
  /\ data' = [data EXCEPT ![k] = None]
  /\ UNCHANGED <<clock, queue, ttlQueues, writes, items, op, expirer, stop, reads>>

(***************************************************************************)
(* Get copies the entry under the read lock, and decides on the clock it   *)
(* reads after unlocking.                                                  *)
(***************************************************************************)
GetRead(r, k) ==
  /\ op.pc = "free"
  /\ reads[r] = None
  /\ reads' = [reads EXCEPT ![r] = [key |-> k, entry |-> data[k]]]
  /\ UNCHANGED <<clock, shardVars, op, expirer, stop>>

GetResult(r) ==
  LET e == reads[r].entry
  IN  IF e = None THEN None
      ELSE IF Live(e, clock) THEN e.value ELSE None

GetReturn(r) ==
  /\ reads[r] # None
  /\ reads' = [reads EXCEPT ![r] = None]
  /\ UNCHANGED <<clock, shardVars, op, expirer, stop>>

(***************************************************************************)
(* The expirer: a pass whenever the ticker fires, each pass locking the    *)
(* shard once per batch; it exits when its select takes the stop channel.  *)
(***************************************************************************)
ExpirerTick ==
  /\ expirer = "waiting"
  /\ expirer' = "passing"
  /\ UNCHANGED <<clock, shardVars, op, stop, reads>>

ExpirerLock ==
  /\ expirer = "passing"
  /\ op.pc = "free"
  /\ op' = [Idle EXCEPT !.pc = "expire", !.why = "pass", !.at = 1,
                        !.budget = ExpireBatch, !.now = clock]
  /\ UNCHANGED <<clock, shardVars, expirer, stop, reads>>

ExpirerExit ==
  /\ expirer = "waiting" /\ stop
  /\ expirer' = "done"
  /\ UNCHANGED <<clock, shardVars, op, stop, reads>>

(* Close closes stop the first time and returns once the expirer is done.  *)
Close ==
  /\ ~stop
  /\ stop' = TRUE
  /\ UNCHANGED <<clock, shardVars, op, expirer, reads>>

(* Time passes.  An operation reads the clock once, under the mutex, and   *)
(* nobody sees the shard until it unlocks, so a clock that advances during *)
(* the operation is not told from one that advances after it.              *)
Tick ==
  /\ clock < MaxClock
  /\ op.pc = "free"
  /\ clock' = clock + 1
  /\ UNCHANGED <<shardVars, op, expirer, stop, reads>>

(* What the holder of the mutex does next.                                 *)
HolderStep ==
  \/ CheckBytes
  \/ ExpirePop
  \/ ExpireNextQueue
  \/ ExpireDone
  \/ EvictPop
  \/ EvictDone
  \/ Store
  \/ TrimPop
  \/ TrimDone
  \/ Compact

Next ==
  \/ \E k \in Keys, v \in Values, ttl \in TTLs : Set(k, v, ttl) \/ SetNX(k, v, ttl)
  \/ HolderStep
  \/ \E k \in Keys : Del(k)
  \/ \E r \in Readers : GetReturn(r) \/ \E k \in Keys : GetRead(r, k)
  \/ ExpirerTick
  \/ ExpirerLock
  \/ ExpirerExit
  \/ Close
  \/ Tick

Spec == Init /\ [][Next]_vars

(***************************************************************************)
(* Fairness.  The holder of the mutex runs to the end of its critical      *)
(* section.  The ticker keeps firing.  A goroutine waiting for a Go mutex  *)
(* gets it in the end (a waiter that starves is handed the lock), hence    *)
(* strong fairness of ExpirerLock; select picks at random among the ready  *)
(* cases, hence strong fairness of ExpirerExit.  Callers promise nothing.  *)
(***************************************************************************)
Fairness ==
  /\ WF_vars(HolderStep)
  /\ WF_vars(ExpirerTick)
  /\ SF_vars(ExpirerLock)
  /\ SF_vars(ExpirerExit)

FairSpec == Spec /\ Fairness

-----------------------------------------------------------------------------
PCs == {"free", "room", "expire", "evict", "store", "trim", "compact"}

OpType ==
  [pc : PCs, why : {"none", "keys", "bytes", "pass"}, at : Nat, budget : Nat,
   nx : BOOLEAN, key : Keys \cup {None}, val : Values \cup {None},
   ttl : TTLs \cup {0}, now : Nat, prev : Entry \cup {None}]

(* The types of the shard's fields and of the operation in progress.       *)
TypeOK ==
  /\ clock \in Nat
  /\ data \in [Keys -> Entry \cup {None}]
  /\ queue \in [QueueIds -> Seq(Item)]
  /\ ttlQueues \in Seq(PositiveTTLs)
  /\ writes \in Nat
  /\ items \in Int
  /\ bytes \in Int
  /\ op \in OpType
  /\ expirer \in {"waiting", "passing", "done"}
  /\ stop \in BOOLEAN
  /\ reads \in [Readers -> [key : Keys, entry : Entry \cup {None}] \cup {None}]

(* Every entry has a current item in a queue that expiry and eviction      *)
(* visit: the forever queue, or the queue of an open TTL.  An entry        *)
(* without one would never be removed.                                     *)
EntriesQueued ==
  \A k \in Present :
    LET it == [key |-> k, deadline |-> data[k].deadline]
        In(q) == \E j \in DOMAIN queue[q] : queue[q][j] = it
    IN  IF it.deadline <= 0 THEN In(0)
        ELSE \E i \in DOMAIN ttlQueues : In(ttlQueues[i])

(* The items of a TTL queue are in deadline order and those of the forever *)
(* queue in write order, so expiring or evicting from the head is enough.  *)
QueuesSorted ==
  /\ \A q \in PositiveTTLs : \A i, j \in DOMAIN queue[q] :
       i < j => queue[q][i].deadline <= queue[q][j].deadline
  /\ \A i, j \in DOMAIN queue[0] :
       i < j => queue[0][i].deadline > queue[0][j].deadline

(* A write that makes room evicts only once no expired entry is left.      *)
ExpiredBeforeEvicted ==
  op.pc = "evict" => \A k \in Present : Live(data[k], op.now)

(* A write whose compaction is over leaves no stale item in any queue, and *)
(* the count that decides on the next one is that of the items there are.  *)
CompactionComplete ==
  [][op.pc = "compact" /\ op'.pc = "free" =>
       /\ \A q \in QueueIds : \A j \in DOMAIN queue'[q] : queue'[q][j] \in CurrentItems'
       /\ items' = MapThenSumSet(LAMBDA q : Len(queue'[q]), QueueIds)]_vars

(* The running byte count equals the lengths of the values held.           *)
BytesCounted == bytes = MapThenSumSet(LAMBDA k : SizeOf(data[k]), Keys)

(* The shard never holds more entries than its share of the key cap.       *)
KeyCap == PerShard > 0 => Cardinality(Present) <= PerShard

(* The shard never holds more bytes than its share of the byte cap, unless *)
(* one oversized value makes up all of them.                               *)
ByteCap ==
  PerShardBytes > 0 =>
    \/ bytes <= PerShardBytes
    \/ \E k \in Present : bytes = SizeOf(data[k])

(* A write that has been called and has not stored its entry.              *)
Putting ==
  \/ op.pc \in {"room", "store"}
  \/ op.pc \in {"expire", "evict"} /\ op.why # "pass"

(* The mutex is held and no entry is to be stored: the expirer's pass, and *)
(* the end of a write.                                                     *)
Sweeping == op.pc # "free" /\ ~Putting

(* The shard implements the contract of cache.Backend: SetNX creates only  *)
(* where no live entry is, a live entry goes only by Del, by being         *)
(* rewritten or by eviction, and evictions go in deadline order.           *)
Backend ==
  INSTANCE CacheBackend
  WITH store <- data,
       Deadlines <- -MaxWrites..MaxInt,
       Capped <- PerShard > 0 \/ PerShardBytes > 0,
       writing <- IF Putting THEN [key |-> op.key, nx |-> op.nx] ELSE None,
       sweeping <- Sweeping
ImplementsBackend == Backend!Spec

(* An entry that has expired is removed or rewritten in the end, with or   *)
(* without writes, as long as the expirer has not been stopped.            *)
ExpiredRemoved ==
  \A k \in Keys :
    (k \in Present /\ ~Live(data[k], clock) /\ ~stop)
      ~> (k \in Present => Live(data[k], clock) \/ stop)

(* Close returns: the expirer notices the stop channel and exits.          *)
CloseReturns == stop ~> expirer = "done"
=============================================================================
