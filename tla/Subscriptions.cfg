\* Two callers of observe(), one of observeWithColumns(), one record, two batches.
SPECIFICATION Spec
CONSTANTS
  Records = {r1}
  Subscribers = {a, b, c}
  Columns = {c}
  Nobody = Nobody
  NoList = NoList
  MaxWrites = 2
INVARIANTS TypeOK UpToDateAtRest NobodyIsCalledAfterLeaving NothingStaysSubscribed OneSource
PROPERTIES OneEmissionPerChange
SYMMETRY Symmetry
CHECK_DEADLOCK FALSE
