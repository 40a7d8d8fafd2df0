SPECIFICATION AccessSpec
CONSTANTS
  Apps = {p, q}
  Hooks = {h}
  Objects = {x, y, z, w}
  Tokens = {t, u}
  Addresses = {v4}
  Standard = v4
  HandForms = {"full", "comment", "unended"}
  Unlinkable = {}
  Traces = {c}
  DrawnTrace = d
  Nothing = Nothing
SYMMETRY Symmetry
CONSTRAINT Uncontended
INVARIANTS TypeOK ServingTokenIsOnDisk HooksAreServed OnlyHoldersAreServed AnswersCarryTheTrace
PROPERTY StartsSpoilNothing
