SPECIFICATION FairSpec
CONSTANTS
  Batches = {b1, b2, b3}
  FAILURE_THRESHOLD = 2
  COOLDOWN_SECONDS = 2
  MAX_PARALLEL_BATCHES = 2
  MaxExtractions = 2
INVARIANTS OpenMeansThreshold OverrunBounded EveryBatchAnswered
PROPERTY ExtractionEnds
\* the extractions may run out
CHECK_DEADLOCK FALSE
