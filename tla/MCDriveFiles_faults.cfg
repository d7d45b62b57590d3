CONSTANTS
  Clients = {c1, c2}
  Paths = {p, q}
  Chunks = {a, b}
  Kinds = {"write", "edit", "append", "revert", "rm", "mv", "cp", "star", "comment"}
  Versioning = TRUE
  MaxOps = 2
  MaxFaults = 1
  NoContent = NoContent
  NoRequest = NoRequest
SPECIFICATION Spec
SYMMETRY Symmetry
INVARIANTS
  VersionsRetrievable
  SoloCommitReconciles
PROPERTY MoveCommitsBeforeDelete
CHECK_DEADLOCK FALSE
