\* Two calls of synchronize() at a time.
SPECIFICATION Spec
CONSTANTS
  Ids = {r1}
  Columns = {a}
  Values = {0, 1}
  Sessions = {s1, s2}
  NoRow = NoRow
  Nobody = Nobody
  Resetter = Resetter
  Strategies = {"incremental"}
  ServerReportsCreated = TRUE
  Disturbed = {"create", "edit", "delete", "remote", "reset", "crash",
    "pullFails", "pushFails", "editFails", "applyFails"}
  MaxDisturbances = 2
SYMMETRY CallSymmetry
PROPERTIES PulledAtOnlyAdvances ResetEndsOldCalls
CHECK_DEADLOCK FALSE
