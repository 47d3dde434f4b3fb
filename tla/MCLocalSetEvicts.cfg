\* The capacity at which the comment of localSet says eviction starts.
CONSTANTS
  a = a
  b = b
  d = d
  c1 = c1
  c2 = c2
  None = None
  Keys = {a, b}
  Callers = {c1}
  Capacity = 2
  TTL = 1
  MaxClock = 4
SPECIFICATION Spec
PROPERTY EvictsPastCapacity
