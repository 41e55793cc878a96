\* An adapter on its own thread (SQLite behind a native bridge, a Loki worker).
SPECIFICATION Spec
CONSTANTS
  Ids = {r1, r2}
  Synchronous = FALSE
  NoModel = NoModel
  MaxCalls = 3
  MaxRevision = 1
  MaxFailures = 1
SYMMETRY IdSymmetry
INVARIANTS TypeOK NoDanglingId NoRowSentTwice CachesAgree ModelIsRow
CHECK_DEADLOCK FALSE
