\* Two Databases on one file, as after a reload.
SPECIFICATION FairSpec
CONSTANTS
  Ids = {i1, i2}
  Version = 2
  Databases = {d1, d2}
  Plain = {d2}
  MaxMicrotasks = 1
  NoTransaction = NoTransaction
  Migratable = TRUE
INVARIANTS TypeOK VersionIsOfTables NothingOutlivesItsCall CachesAgree
PROPERTIES WholeCalls LoadConsumesItsJson EveryCallEnds
CHECK_DEADLOCK FALSE
