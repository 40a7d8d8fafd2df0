SPECIFICATION Spec
CONSTANTS
  Ids = {a, b}
  Fingerprints = {f}
  NoId = NoId
  MaxCached = 1
  TTL = 2
  MaxTotal = 5
  MaxWait = 1
  ConnectTimeout = 1
  ReadTimeout = 3
  Delay = 1
  Pause = 1
  ApproveOnTimeout = {a}
  Horizon = 11
  LastBegin = 1
CONSTRAINT BegunInTime
INVARIANTS TypeOK EndsInTime
PROPERTIES BusyOnlyWhileLive NoDecisionMissedAtDeadline ImplementsCalls
