SPECIFICATION Spec
CONSTANTS
  Ids = {a}
  Fingerprints = {f, g}
  NoId = NoId
  MaxCached = 1
  Traces = {t}
  HudTrace = HudTrace
  AuditAge = 1
  DiagAge = 0
  TTL = 1
  MaxTime = 2
  MaxRevision = 1
  MaxBoots = 2
CHECK_DEADLOCK FALSE
SYMMETRY Symmetry
INVARIANTS TypeOK OneStory AuditLeadsToDiagnostics HookTraceLeadsToDiagnostics CleanUpIsThorough
PROPERTIES RetentionKept
