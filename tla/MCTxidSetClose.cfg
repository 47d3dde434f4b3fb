\* One process claiming and marking, with a backend of its own or with none.
CONSTANTS
  t1 = t1
  t2 = t2
  s1 = s1
  s2 = s2
  p1 = p1
  p2 = p2
  p3 = p3
  w1 = w1
  w2 = w2
  None = None
  Stores = {s1}
  Callers = {p1, p2}
  Workers = {w1}
  Owner <- MCOwner
  Ops <- OneMarker
  Keys = {t1}
  Capacity = 1
  TTL = 1
  Tiers = {1, 2}
  OwnBackend = TRUE
  CloseLast = TRUE
  MarkQueueDepth = 1
  MaxClock = 2
  MaxCrashes = 1
SPECIFICATION FairSpec
INVARIANTS
  CloseDrains
PROPERTIES
  ClaimedGetsThrough
  CloseReturns
