\* A shard with a key cap of two and three keys, TTLs of different lengths, and
\* an int64 so short that a TTL of 2 overflows it at the end of the clock.
CONSTANTS
  k1 = k1
  k2 = k2
  k3 = k3
  v0 = v0
  v1 = v1
  v2 = v2
  v4 = v4
  r1 = r1
  None = None
  Keys = {k1, k2, k3}
  Values = {v1}
  Size <- MCSize
  TTLs = {0, 1, 2}
  Readers = {}
  PerShard = 2
  PerShardBytes = 0
  WriteExpireBudget = 1
  ExpireBatch = 1
  CompactSlack = 0
  MaxInt = 3
  MaxClock = 2
  MaxWrites = 2
  MaxItems = 3
SPECIFICATION Spec
SYMMETRY KeySymmetry
INVARIANTS
  EntriesQueued
  QueuesSorted
  ExpiredBeforeEvicted
  KeyCap
PROPERTIES
  ImplementsBackend
  CompactionComplete
\* A backend that nobody calls any more may stop.
CHECK_DEADLOCK FALSE
