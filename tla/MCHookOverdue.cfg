SPECIFICATION Spec
CONSTANTS
  Ids = {a}
  Fingerprints = {f}
  NoId = NoId
  MaxCached = 1
  TTL = 2
  MaxTotal = 5
  MaxWait = 1
  ConnectTimeout = 1
  ReadTimeout = 2
  Delay = 1
  Pause = 1
  ApproveOnTimeout = {a}
  Horizon = 7
  LastBegin = 0
CONSTRAINT BegunInTime
INVARIANTS OverdueIsAnsweredTimedOut
