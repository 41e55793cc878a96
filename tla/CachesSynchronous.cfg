\* An adapter that answers inside the call (SQLite in Node or through JSI,
\* Loki without a web worker).
SPECIFICATION Spec
CONSTANTS
  Ids = {r1, r2}
  Synchronous = TRUE
  NoModel = NoModel
  MaxCalls = 3
  MaxRevision = 1
  MaxFailures = 0
SYMMETRY IdSymmetry
INVARIANTS NoDanglingId
CHECK_DEADLOCK FALSE
