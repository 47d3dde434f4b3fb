SPECIFICATION FSpec
CONSTANTS
  Announcers = {1, 2}
  Kinds = {"wide", "succ", "bye"}
  Manifests <- SomeManifests
  Planes <- AllPlanes
  Bits = {1, 4}
  Successors <- OneSuccessor
  DefaultTTL = 1
  Delays = {0, 1}
  None = None
  NoManifest = None
  Samples = {}
  Junk = Junk
  MaxAge = 1
  Configs <- SomeConfigs
PROPERTY HeldBeforeAdopted
CHECK_DEADLOCK FALSE
