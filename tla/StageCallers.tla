---------------------------- MODULE StageCallers ----------------------------
(***************************************************************************)
(* The handlers of the API and the Celery workers, seen through what they  *)
(* do to books.status and to the stage rows.  A handler first commits its  *)
(* own work, status included, and then opens a second session for a stage  *)
(* transaction that commits as a whole or, when a method raises, not at    *)
(* all.  The two are separate steps here, with any handler in between.     *)
(***************************************************************************)
EXTENDS StageTable

CONSTANTS
  Books,
  Inherited,     \* the books an earlier release left in the database
  Handlers,      \* API requests and worker tasks that run concurrently
  LookupIsBound, \* FALSE: get_stage means what stage_manager.py imports (see Runs)
  NoTx           \* what a handler with no stage transaction ahead of it holds

Absent  == "absent"   \* not uploaded yet
Deleted == "deleted"  \* deleted; an id is never used again

VARIABLES status,  \* books.status of each book
          table,   \* its rows in book_stage_status
          due      \* the stage transaction each handler runs next, and its book
vars == <<status, table, due>>

Exists(b) == status[b] \in BookStatus

-----------------------------------------------------------------------------
(***************************************************************************)
(* The stage transactions, one per call site.                              *)
(***************************************************************************)
Tx == {"upload", "page_selection", "ocr", "ocr_ok", "ocr_bad", "llm_retry",
       "llm", "llm_ok", "llm_bad", "task_failure", "review"}

\* stage_manager.py binds the name get_stage to models/stage.py's function of
\* (book_id, stage_name, attempt), and calls it with the session in front:
\* the arguments do not fit and every method but the static get_stage raises.
\* LookupIsBound is the reading in which the name is the static method.
Runs(x, ok) == (x = "llm_retry" \/ LookupIsBound) /\ ok

OpenOk(t, s)      == InitiateOk(t, s) /\ StartOk(Initiated(t, s), s)
Opened(t, s)      == Started(Initiated(t, s), s)
RecordOk(t, s)    == InitiateOk(t, s) /\ CompleteOk(Initiated(t, s), s)
RecordedDone(t, s) == Completed(Initiated(t, s), s)

\* llm_retry looks first, with the static method, for an attempt to close.
LeftOpen(t, s) == Recorded(t, s) /\ Latest(t, s) # "completed"

TxOk(t, x) == Runs(x,
  CASE x = "upload"         -> RecordOk(t, UPLOAD)
    [] x = "page_selection" -> CompleteOk(t, PAGE_SELECTION)
    [] x = "ocr"            -> OpenOk(t, OCR)
    [] x = "ocr_ok"         -> CompleteOk(t, OCR)
    [] x \in {"ocr_bad", "task_failure"} -> StopOk(t, OCR)
    [] x = "llm_retry"      -> LeftOpen(t, LLM_EXTRACTION) =>
                                 LookupIsBound /\ CompleteOk(t, LLM_EXTRACTION)
    [] x = "llm"            -> OpenOk(t, LLM_EXTRACTION)
    [] x = "llm_ok"         -> CompleteOk(t, LLM_EXTRACTION)
    [] x = "llm_bad"        -> StopOk(t, LLM_EXTRACTION)
    [] x = "review"         -> /\ RecordOk(t, HUMAN_REVIEW)
                               /\ RecordOk(RecordedDone(t, HUMAN_REVIEW), COMPLETION))

TxResult(t, x) ==
  CASE x = "upload"         -> RecordedDone(t, UPLOAD)
    [] x = "page_selection" -> Completed(t, PAGE_SELECTION)
    [] x = "ocr"            -> Opened(t, OCR)
    [] x = "ocr_ok"         -> Completed(t, OCR)
    [] x \in {"ocr_bad", "task_failure"} -> Failed(t, OCR)
    [] x = "llm_retry"      -> IF LeftOpen(t, LLM_EXTRACTION)
                                 THEN Completed(t, LLM_EXTRACTION) ELSE t
    [] x = "llm"            -> Opened(t, LLM_EXTRACTION)
    [] x = "llm_ok"         -> Completed(t, LLM_EXTRACTION)
    [] x = "llm_bad"        -> Failed(t, LLM_EXTRACTION)
    [] x = "review"         -> RecordedDone(RecordedDone(t, HUMAN_REVIEW), COMPLETION)

-----------------------------------------------------------------------------
TypeOK ==
  /\ status \in [Books -> BookStatus \cup {Absent, Deleted}]
  /\ table \in [Books -> Tables]
  /\ due \in [Handlers -> (Books \X Tx) \cup {NoTx}]

\* alembic 011 creates the table empty and fills in nothing for older books.
Init ==
  /\ status \in [Books -> BookStatus \cup {Absent}]
  /\ \A b \in Books : b \in Inherited <=> status[b] # Absent
  /\ table = [b \in Books |-> Empty]
  /\ due = [h \in Handlers |-> NoTx]

\* A handler's own commit, after which it runs stage transaction x.
Due(h, b, x) ==
  /\ due[h] = NoTx
  /\ due' = [due EXCEPT ![h] = <<b, x>>]
  /\ UNCHANGED table
SetStatus(b, st) == status' = [status EXCEPT ![b] = st]
JustSetStatus(b, st) == SetStatus(b, st) /\ UNCHANGED <<table, due>>

UploadBook(h, b)  == status[b] = Absent /\ SetStatus(b, "uploaded") /\ Due(h, b, "upload")
SelectPages(h, b) == Exists(b) /\ SetStatus(b, "pages_selected") /\ Due(h, b, "page_selection")
RunOcr(h, b) ==
  status[b] = "pages_selected" /\ SetStatus(b, "ocr_running") /\ Due(h, b, "ocr")
RunExtraction(h, b) ==
  status[b] = "ocr_complete" /\ UNCHANGED status /\ Due(h, b, "llm")
RetryExtraction(h, b) ==
  status[b] \in {"ocr_complete", "complete"} /\ UNCHANGED status /\ Due(h, b, "llm_retry")
UpdateMetadata(h, b) ==
  status[b] \in {"awaiting_review", "complete"} /\ UNCHANGED status /\ Due(h, b, "review")

\* The workers.  Whether there is a job to work on is JobPipeline's matter.
FinalizeOcr(h, b) ==
  Exists(b) /\ UNCHANGED status /\ \E x \in {"ocr_ok", "ocr_bad"} : Due(h, b, x)
ValidateBookContext(b) ==
  status[b] \in {"ocr_complete", "llm_running"} /\ JustSetStatus(b, "llm_running")
PersistExtraction(h, b) ==
  Exists(b) /\ UNCHANGED status /\ \E x \in {"llm_ok", "llm_bad"} : Due(h, b, x)
MarkLlmFailed(b) == status[b] = "llm_running" /\ JustSetStatus(b, "ocr_complete")
OnTaskFailure(h, b) ==
  status[b] \in {"ocr_running", "llm_running"} /\ UNCHANGED status /\ Due(h, b, "task_failure")

\* admin_service.py names async_session_factory without importing it: the four
\* lines after the commit raise NameError before any stage method is called.
CancelJob(b) ==
  \/ status[b] = "llm_running" /\ JustSetStatus(b, "ocr_complete")
  \/ status[b] = "ocr_running" /\ JustSetStatus(b, "pages_selected")
AdminResetBook(b)       == Exists(b) /\ JustSetStatus(b, "uploaded")
RerunOcr(b)        == Exists(b) /\ JustSetStatus(b, "ocr_running")
RerunExtraction(b) ==
  status[b] \in {"ocr_complete", "complete"} /\ JustSetStatus(b, "ocr_complete")
DeleteBook(b) ==
  /\ Exists(b)
  /\ SetStatus(b, Deleted)
  /\ table' = [table EXCEPT ![b] = Empty]
  /\ UNCHANGED due

\* The second session.  A method that raises loses the whole transaction and
\* ends the handler; a committed one leaves books.status derived.  After its
\* transaction retry_extraction goes on into run_extraction.
StageTransaction(h, b, x) ==
  /\ due[h] = <<b, x>>
  /\ \/ /\ Exists(b) /\ TxOk(table[b], x)
        /\ table' = [table EXCEPT ![b] = TxResult(table[b], x)]
        /\ IF TxResult(table[b], x) = table[b] THEN UNCHANGED status
           ELSE SetStatus(b, DeriveBookStatus(TxResult(table[b], x)))
        /\ due' = [due EXCEPT ![h] =
                     IF x = "llm_retry" /\ status[b] = "ocr_complete" THEN <<b, "llm">> ELSE NoTx]
     \/ /\ ~(Exists(b) /\ TxOk(table[b], x))
        /\ due' = [due EXCEPT ![h] = NoTx]
        /\ UNCHANGED <<status, table>>

BookStep(b) ==
  \/ ValidateBookContext(b)
  \/ MarkLlmFailed(b)
  \/ CancelJob(b)
  \/ AdminResetBook(b)
  \/ RerunOcr(b)
  \/ RerunExtraction(b)
  \/ DeleteBook(b)

HandlerStep(h, b) ==
  \/ UploadBook(h, b)
  \/ SelectPages(h, b)
  \/ RunOcr(h, b)
  \/ RunExtraction(h, b)
  \/ RetryExtraction(h, b)
  \/ UpdateMetadata(h, b)
  \/ FinalizeOcr(h, b)
  \/ PersistExtraction(h, b)
  \/ OnTaskFailure(h, b)
  \/ \E x \in Tx : StageTransaction(h, b, x)

Next == \E b \in Books : BookStep(b) \/ \E h \in Handlers : HandlerStep(h, b)

Spec == Init /\ [][Next]_vars

-----------------------------------------------------------------------------
\* The stage a transaction is about.
StageOf(x) ==
  CASE x = "upload"         -> UPLOAD
    [] x = "page_selection" -> PAGE_SELECTION
    [] x \in {"ocr", "ocr_ok", "ocr_bad", "task_failure"}  -> OCR
    [] x \in {"llm_retry", "llm", "llm_ok", "llm_bad"}     -> LLM_EXTRACTION
    [] x = "review"         -> COMPLETION

(* What migration 011 says of the table (l. 7): it tracks the lifecycle of *)
(* each stage.  When the stage transaction of a handler is over, the stage *)
(* it is about has a row.  (llm_retry only closes an attempt if there is   *)
(* one.)  Violated by the first upload: the transaction raises, and the    *)
(* handler has committed the book already.                                 *)
OverIsRecorded ==
  \A h \in Handlers, b \in Books \ Inherited, x \in Tx \ {"llm_retry"} :
    due[h] = <<b, x>> /\ due'[h] # due[h] /\ Exists(b) => Recorded(table'[b], StageOf(x))
StagesAreTracked == [][OverIsRecorded]_vars

(* Why: no stage transaction ever commits a row, however the handlers are  *)
(* interleaved and under either reading of get_stage.  With the name bound *)
(* every chain still breaks at its first link: upload completes a stage it *)
(* never started, page selection completes one it never initiated, and     *)
(* every later stage needs the one before it recorded.                     *)
StageTableEmpty == \A b \in Books : table[b] = Empty

(* And what comes of it: a book uploaded to this release gets no further   *)
(* than OCR.  With no row committed nothing moves books.status on to       *)
(* ocr_complete, and every later handler asks for that status first.       *)
NewBooksStopAtOcr ==
  \A b \in Books \ Inherited :
    status[b] \in {Absent, Deleted, "uploaded", "pages_selected", "ocr_running"}
=============================================================================
