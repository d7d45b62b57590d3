CONSTANTS
  Clients = {c1, c2}
  Paths = {p}
  Chunks = {a, b}
  Kinds = {"write", "edit", "append", "revert", "rm"}
  Versioning = TRUE
  MaxOps = 3
  MaxFaults = 0
  NoContent = NoContent
  NoRequest = NoRequest
SPECIFICATION Spec
SYMMETRY Symmetry
INVARIANTS
  TypeOK
  VersionsDense
  FilesTrackHead
  SearchFollowsHead
  SoloCommitReconciles
  SoloConditionalExact
CHECK_DEADLOCK FALSE
