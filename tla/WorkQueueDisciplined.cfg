\* Sub-actions are awaited, blocks called with callWriter() or not awaited.
SPECIFICATION FairSpec
CONSTANTS
  Writers = {w1, w2, w3}
  Readers = {r1}
  App = App
  NoItem = NoItem
  Habits = {}
  MaxDepth = 1
INVARIANT Isolation
PROPERTY EveryBlockEnds
CHECK_DEADLOCK FALSE
