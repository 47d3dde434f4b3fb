SPECIFICATION FFairSpec
CONSTANTS
  Announcers = {1, 2}
  Kinds = {"wide", "succ", "bye", "listener"}
  Manifests <- SomeManifests
  Planes <- AllPlanes
  Bits = {1, 4}
  Successors <- OneSuccessor
  DefaultTTL = 1
  Delays = {0, 1}
  None = None
  NoManifest = None
  Samples <- SomeSamples
  Junk = Junk
  MaxAge = 1
  Configs <- SomeConfigs
INVARIANTS WireFaithful PlanesApart
PROPERTIES AdoptionNeedsQuorum SuccessorNear WithdrawalRestartsWait Converges
CHECK_DEADLOCK FALSE
