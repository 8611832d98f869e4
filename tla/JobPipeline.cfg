SPECIFICATION Spec
CONSTANTS
  Workers = {w1, w2}
  Clients = {c1}
  Scenarios = {"selected", "recognised", "prep", "ocr", "llm", "llm_done"}
  Ops = {"run_ocr", "run_extraction", "rerun_extraction", "rerun_ocr",
         "cancel_job", "select_pages", "reset_book", "delete_book"}
  Batches = 2
  PREP_RETRIES = 1
  OCR_RETRIES = 1
  LLM_RETRIES = 1
  MaxRequests = 1
  MaxCrashes = 1
  MaxTimeouts = 1
  MaxFaults = 2
  MaxHandlerFaults = 1
INVARIANT TypeOK
INVARIANT RunningLlmJobCarried
PROPERTY OcrProgressNeverBack
PROPERTY ImplementsLife
\* the work may run out
SYMMETRY Symmetric
CHECK_DEADLOCK FALSE
