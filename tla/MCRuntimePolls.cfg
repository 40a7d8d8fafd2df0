SPECIFICATION Spec
CONSTANTS
  Ids = {a, b}
  Fingerprints = {f}
  NoId = NoId
  MaxCached = 1
  Submitters = {s}
  Pollers = {p}
  Deciders = {d}
  Closer = closer
  TTL = 1
  MaxTime = 1
  MaxRevision = 5
SYMMETRY Symmetry
INVARIANTS ToldConsistently
PROPERTIES NoLateUserDecision
