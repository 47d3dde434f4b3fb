\* Three keys and a ring of two: keys expire, come back and are evicted.
CONSTANTS
  a = a
  b = b
  d = d
  c1 = c1
  c2 = c2
  None = None
  Keys = {a, b, d}
  Callers = {c1, c2}
  Capacity = 2
  TTL = 1
  MaxClock = 4
SPECIFICATION Spec
SYMMETRY Symmetric
INVARIANTS
  EntriesInRing
  Bounded
