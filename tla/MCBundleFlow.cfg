\* Three-bit prefixes; budgets that two members meet exactly; one
\* transaction longer than its length prefix can say.
CONSTANTS
  s1 = s1
  s2 = s2
  PrefixBits = 3
  MaxMembers = 3
  MaxMemberTxLen = 7
  Frames <- MCFrames
  Bits <- MCBits
  MaxBytes <- MCMaxBytes
  MaxCount <- MCMaxCount
  MaxBatch = 3
  MaxRelayed = 2
  MaxFaults = 1
SPECIFICATION Spec
INVARIANTS
  FlowsWhole
  WithinBudget
  LostAlone
  WholeOrNothing
  DeliveredAsSent
\* Every frame may have been sent and every datagram lost.
CHECK_DEADLOCK FALSE
