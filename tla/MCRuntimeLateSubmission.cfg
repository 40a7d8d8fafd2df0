SPECIFICATION Spec
CONSTANTS
  Ids = {a}
  Fingerprints = {f}
  NoId = NoId
  MaxCached = 1
  Submitters = {s}
  Pollers = {p}
  Deciders = {d}
  Closer = closer
  TTL = 1
  MaxTime = 1
  MaxRevision = 1
INVARIANTS NothingPendingAfterCancelAll
