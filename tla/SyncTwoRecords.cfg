\* Two records, which a push may get accepted in part, and convergence.
SPECIFICATION FairSpec
CONSTANTS
  Ids = {r1, r2}
  Columns = {a}
  Values = {0, 1}
  Sessions = {s1}
  NoRow = NoRow
  Nobody = Nobody
  Resetter = Resetter
  Strategies = {"incremental"}
  ServerReportsCreated = FALSE
  Disturbed = {"create", "edit", "delete", "remote", "reset", "crash",
    "pullFails", "pushFails", "markFails"}
  MaxDisturbances = 3
INVARIANTS LocalEditsSurvive LocalDeletionsSurvive
PROPERTIES EventuallyConverged
CHECK_DEADLOCK FALSE
