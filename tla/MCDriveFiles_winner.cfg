CONSTANTS
  Clients = {c1, c2}
  Paths = {p}
  Chunks = {a, b}
  Kinds = {"write"}
  Versioning = TRUE
  MaxOps = 2
  MaxFaults = 0
  NoContent = NoContent
  NoRequest = NoRequest
SPECIFICATION Spec
SYMMETRY Symmetry
INVARIANT AtMostOneWinner
CHECK_DEADLOCK FALSE
