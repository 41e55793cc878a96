\* One record with two columns, pulled with either strategy.
SPECIFICATION Spec
CONSTANTS
  Ids = {r1}
  Columns = {a, b}
  Values = {0, 1}
  Sessions = {s1}
  NoRow = NoRow
  Nobody = Nobody
  Resetter = Resetter
  Strategies = {"incremental", "replacement"}
  ServerReportsCreated = TRUE
  Disturbed = {"create", "edit", "delete", "remote", "reset", "crash",
    "pullFails", "pushFails"}
  MaxDisturbances = 4
INVARIANTS TypeOK NoChangeIsSkipped LocalEditsSurvive MemoryIsTheStore
CHECK_DEADLOCK FALSE
