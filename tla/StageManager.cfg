SPECIFICATION ManagerSpec
CONSTANTS
  Callers = {c1, c2}
  Stages = {1, 2}
  MaxRows = 3
  MaxAttempt = 2
  HandlerSets = {"ocr_running"}
INVARIANT ManagerTypeOK
PROPERTIES CommitsDerivedStatus ResetLeavesNoRow
SYMMETRY CallersAlike
