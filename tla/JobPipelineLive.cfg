SPECIFICATION FairSpec
CONSTANTS
  Workers = {w1}
  Clients = {c1, c2}
  Scenarios = {"ocr", "llm", "llm_cut"}
  Ops = {"rerun_extraction", "rerun_ocr", "cancel_job", "select_pages", "reset_book", "delete_book"}
  Batches = 2
  PREP_RETRIES = 1
  OCR_RETRIES = 1
  LLM_RETRIES = 1
  MaxRequests = 2
  MaxCrashes = 1
  MaxTimeouts = 0
  MaxFaults = 2
  MaxHandlerFaults = 1
PROPERTY OcrRunEnds
PROPERTY LlmRunningEnds
\* the work may run out
CHECK_DEADLOCK FALSE
