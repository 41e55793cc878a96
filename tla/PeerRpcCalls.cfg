\* Two calls at a time, each delivered up to twice.
SPECIFICATION FairSpec
CONSTANTS
  Calls = {c1, c2}
  MaxDeliveries = 2
INVARIANTS TypeOK PendingIsOpen ClosedIsSettled
PROPERTIES KeepsPromise EveryCallEnds
CHECK_DEADLOCK FALSE
