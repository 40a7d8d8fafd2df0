SPECIFICATION Spec
CONSTANTS
  Ids = {a, b}
  Fingerprints = {f}
  NoId = NoId
  MaxCached = 1
  Submitters = {s1, s2}
  Pollers = {}
  Deciders = {d}
  Closer = closer
  TTL = 1
  MaxTime = 1
  MaxRevision = 3
SYMMETRY Symmetry
INVARIANTS TypeOK WakeupDelivered AnnouncedOnce
PROPERTIES ImplementsLedger FailedDecideDecidesNothing
