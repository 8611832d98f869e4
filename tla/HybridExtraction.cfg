\* The budget and the parallel batches are the ones of the code.
SPECIFICATION Spec
CONSTANTS
  Books <- MCBooks
  MAX_OCR_CHARS = 2500
  MAX_PARALLEL_BATCHES = 2
  WordLengths = {21, 3000}
  MaxPoorReplies = 1
INVARIANTS
  EveryAnswerKept
  SourcePageHasValue
  SentOnceWithinBudget
  RoutedPagesHeard
CHECK_DEADLOCK FALSE
