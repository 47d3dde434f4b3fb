SPECIFICATION FSpec
CONSTANTS
  Announcers = {1, 2}
  Kinds = {"succ", "later"}
  Manifests <- SomeManifests
  Planes <- AllPlanes
  Bits = {1, 4}
  Successors <- AllSuccessors
  DefaultTTL = 1
  Delays = {0, 1}
  None = None
  NoManifest = None
  Samples = {}
  Junk = Junk
  MaxAge = 1
  Configs <- SomeConfigs
PROPERTY SuccessorHasQuorum
CHECK_DEADLOCK FALSE
