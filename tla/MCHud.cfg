SPECIFICATION Spec
CONSTANTS
  Ids = {a, b}
  Fingerprints = {f}
  NoId = NoId
  MaxCached = 1
  Slots = {s, t, u}
  TTL = 1
  Horizon = 2
SYMMETRY Symmetry
INVARIANTS TypeOK PendingIsShown DeadCardOnlyAfterExpiry OptimismIsSettled
