SPECIFICATION FairSpec
CONSTANTS
  Reports = 1
  maxReconnectAttempts = 1
  MaxFailures = 1
PROPERTIES EndedStaysShown EndOfJobShown StatusEventIsEnough
\* the task ends, and the tab has nothing left to poll
CHECK_DEADLOCK FALSE
