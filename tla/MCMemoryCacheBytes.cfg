\* A shard with a byte cap of three, a value that fits and one that exceeds the
\* cap on its own, and a concurrent Get: every loop of a write and of the expirer
\* runs.
CONSTANTS
  k1 = k1
  k2 = k2
  k3 = k3
  v0 = v0
  v1 = v1
  v2 = v2
  v4 = v4
  r1 = r1
  None = None
  Keys = {k1, k2}
  Values = {v2, v4}
  Size <- MCSize
  TTLs = {0, 1}
  Readers = {r1}
  PerShard = 0
  PerShardBytes = 3
  WriteExpireBudget = 1
  ExpireBatch = 1
  CompactSlack = 0
  MaxInt = 3
  MaxClock = 1
  MaxWrites = 1
  MaxItems = 2
SPECIFICATION FairSpec
INVARIANTS
  BytesCounted
  ByteCap
PROPERTIES
  ExpiredRemoved
  CloseReturns
\* A backend that nobody calls any more may stop.
CHECK_DEADLOCK FALSE
