SPECIFICATION FairSpec
CONSTANTS
  Records = {r1, r2}
  Closers = {x, y}
  Capacity = 2
CHECK_DEADLOCK FALSE
INVARIANTS TypeOK RecordsOnce LostOnlyAtExit
PROPERTIES FlushCovers CloseSequencesEnd
