\* Every way of using the queue.
SPECIFICATION Spec
CONSTANTS
  Writers = {w1, w2, w3}
  Readers = {r1}
  App = App
  NoItem = NoItem
  Habits = {"awaitDirect", "detachedSub", "leakedCall", "strayCall"}
  MaxDepth = 2
SYMMETRY BlockSymmetry
INVARIANTS TypeOK OneTimerForUnstartedHead OnlyHeadRuns FlagOnlyInsideSubAction StallIsSelfInflicted
PROPERTIES SerialSpec
CHECK_DEADLOCK FALSE
