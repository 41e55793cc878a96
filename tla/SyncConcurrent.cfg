\* A second synchronize() starts while the first one pushes.
SPECIFICATION Spec
CONSTANTS
  Ids = {r1}
  Columns = {a}
  Values = {0, 1}
  Sessions = {s1, s2}
  NoRow = NoRow
  Nobody = Nobody
  Resetter = Resetter
  Strategies = {"incremental"}
  ServerReportsCreated = FALSE
  Disturbed = {"edit", "remote"}
  MaxDisturbances = 2
SYMMETRY CallSymmetry
INVARIANTS NoChangeIsSkipped
CHECK_DEADLOCK FALSE
