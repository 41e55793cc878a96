\* The batch of an apply is rejected, and synchronize() called again.
SPECIFICATION Spec
CONSTANTS
  Ids = {r1}
  Columns = {a}
  Values = {0, 1}
  Sessions = {s1}
  NoRow = NoRow
  Nobody = Nobody
  Resetter = Resetter
  Strategies = {"incremental"}
  ServerReportsCreated = FALSE
  Disturbed = {"remote", "applyFails"}
  MaxDisturbances = 2
INVARIANTS NoChangeIsSkipped
CHECK_DEADLOCK FALSE
