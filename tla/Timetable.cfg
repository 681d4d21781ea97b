SPECIFICATION Spec
CONSTANTS
  Files = {1, 2}
  MTime <- MCMTime
  Runs = {r1, r2, r3}
  Kinds = {"sync", "upload", "package", "postprocess"}
  None = None
  Mixed = Mixed
  MaxOverlap = 2
  MaxFaults = 1
INVARIANTS
  FilesInOrder
  NoFileIsSkipped
  EngineFollowsDatabase
PROPERTIES
  ServesWhatWasPublished
  LockIsReleased
CHECK_DEADLOCK FALSE
