\* Two addresses, one of them a literal; fewer tokens than sources.
CONSTANTS
  n1 = n1
  v4 = v4
  EntryLists <- Lists
  Names = {n1}
  Addresses = {1, 2}
  MaxErrs = 2
  Rate = 1
SPECIFICATION FairSpec
INVARIANTS
  NeverEmpty
  CallsLegitimate
  JoinedIsCurrent
  Paced
PROPERTIES
  Stops
  Returns
\* A resolver that failed or was stopped does nothing more.
CHECK_DEADLOCK FALSE
