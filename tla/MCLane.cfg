SPECIFICATION Spec
CONSTANTS
  Inputs <- MCInputs
  Maxes = {5, 12, 40}
  InitialBuf = 4
  Slack = 2
INVARIANTS ObjectsWhole VerdictTrue RoomToRead Carried SameTxID TopicsDelivered
PROPERTY Ends
