SPECIFICATION Spec
CONSTANTS
  RATE_LIMIT_REQUESTS = 2
  RATE_LIMIT_WINDOW = 3
  Delay = 1
  MaxRequests = 5
  MaxTime = 5
INVARIANTS TypeOK AdmittedBounded RejectedOnlyWhenBusy
\* time and the requests run out
CHECK_DEADLOCK FALSE
