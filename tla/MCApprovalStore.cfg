SPECIFICATION Spec
CONSTANTS
  Ids = {a, b, c, e}
  Fingerprints <- Submitted
  NoId = NoId
  MaxCached = 2
  TTL = 1
  MaxTime = 3
  MaxRevision = 8
  Payloads <- Requests
  Values <- Closure
  Nesting <- Depth
INVARIANTS TypeOK StoreWellFormed RetryIsTheSameRequest RetryIsRecognised
PROPERTIES RevisionDetectsChange ImplementsLedger
SYMMETRY Symmetry
