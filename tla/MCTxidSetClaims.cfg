\* Two processes claiming through a shared backend; one may crash.
CONSTANTS
  t1 = t1
  t2 = t2
  s1 = s1
  s2 = s2
  p1 = p1
  p2 = p2
  p3 = p3
  w1 = w1
  w2 = w2
  None = None
  Stores = {s1, s2}
  Callers = {p1, p2, p3}
  Workers = {w1, w2}
  Owner <- MCOwner
  Ops <- OnlyClaims
  Keys = {t1}
  Capacity = 1
  TTL = 1
  Tiers = {2}
  OwnBackend = FALSE
  CloseLast = TRUE
  MarkQueueDepth = 1
  MaxClock = 2
  MaxCrashes = 1
SPECIFICATION Spec
INVARIANTS
  SuppressedIsCovered
