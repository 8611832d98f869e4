# Verification of the Indic book metadata extractor

TLA+ models, TLC runs and TLAPS proofs for the backend in
`src/backend/app` (paths below are relative to it unless they start with
`src/`).  `PROJECT.json` maps every definition to the lines it models.

Contents: 1 the system, 2 what is hard in it, 3 the modules, 4 the runs,
5 fairness, 6 the proofs, 7 disagreements found, 8 not modelled, 9 plan,
10 how to run.

## 1. The system

A user uploads a PDF, selects pages, runs OCR on them, runs an LLM extraction
over the recognised text and reviews the resulting metadata.

| part | state it keeps | operations | talks to | correct when |
|---|---|---|---|---|
| stage manager (`services/stage_manager.py`, `models/stage.py`) | `book_stage_status`: a row per book, stage and attempt | initiate, start, complete, fail, cancel, reset; derives `books.status` | called by the handlers in a session of its own | the status committed is the one derived from the rows, an attempt has one row, a reset leaves none |
| API handlers (`api/books.py`, `extraction.py`, `metadata.py`, `pages.py`, `bulk.py`) | `books`, `pages`, `jobs`, `book_metadata` rows; page images on disk | upload, select pages, run OCR, run and retry extraction, edit metadata, correct text, bulk import | database, broker, stage manager | one active job of a kind for a book; no edit lost; status and rows agree |
| admin service (`services/admin_service.py`) | the same rows | cancel, delete, reset, re-run OCR, re-run extraction | database, storage | can be used at any time, under a running task too |
| Celery tasks (`tasks/ocr_tasks.py`, `llm_tasks.py`, `celery_app.py`) | `jobs` rows, OCR results, metadata, evidence | preprocess, OCR, extraction, failure signal | broker (Redis, late acknowledgement), database, LLM service, SSE | a job that runs ends; progress does not go back; a book is given back when its job fails |
| event loops (`tasks/async_utils.py`, `core/database.py`) | one loop per worker process, one engine made under a lock | run a coroutine, create the engine | every task | one engine per process |
| LLM service (`services/llm_service.py`) | circuit breaker, semaphore of an extraction | batch call, hybrid extraction | Ollama | the circuit opens and closes, every batch is answered, an extraction ends |
| hybrid extraction (`services/extractors/`, `batch_routing.py`, `prompts.py`, `extraction_validator.py`) | none | pre-fill, find gaps, choose pages, assemble text, merge answers | LLM service | no answer lost, budget kept, each chosen page heard, evidence at the right page |
| SSE hub (`services/sse_service.py`, `api/sse.py`) | queues per book | publish, connect, dispatch | Redis pub/sub, browser | a client learns how a job ended |
| rate limiter (`main.py`) | a sorted set per client | admit, reject | Redis | at most the limit per window, and no refusal without a reason |
| OCR and images (`services/ocr_*.py`, `preprocessing.py`, `page_classifier.py`, `pdf_service.py`) | none | computation | Tesseract, OpenCV, PyMuPDF | outside of these models |
| storage (`services/storage.py`) | files of a book | paths, write, purge | handlers, tasks | rows and files agree |
| search, library, stages (`services/search_service.py`, `api/library.py`, `api/stages.py`) | none | queries | database | read only |
| browser (`src/frontend/src`) | workflow store, query cache, event source | hydrate, resume, reconnect, poll | API, SSE | shows the state of the book |

## 2. What is hard

- Handlers and workers interleave on the same rows with no common lock, and
  most of them read, check and write in that order.
- A handler commits its work first; the stage transaction and the dispatch of
  the task come after it, so a failure there leaves half of it.
- The stage manager reads and checks without a lock, locks a row without reading
  it again, and locks the book last.
- The handlers that record a failure may fail themselves, and then only log it.
- The broker delivers at least once: a worker may die between any two commits,
  and a delivery may outlive the visibility timeout and run twice.
- Admin operations run at any time, also under a running task.
- Events are lost wherever a queue is full, Redis fails or the server restarts;
  the browser mixes events with answers that were asked before them.
- The breaker of the LLM service is shared by extractions that do not know of
  each other, one of which may have been abandoned with calls in flight.
- A metadata record is one JSON column: everybody who changes a field writes all
  of them, some under a row lock and some not, and the locks of metadata,
  evidence and job rows are taken in different orders.
- Files are not part of any transaction: what is unlinked stays so after a
  rollback, and a task may write a file after the purge.
- Requests of one client reach the rate limiter in another order than they were
  timed, and the refused ones are counted too.
- The answers of the batches come in any order, some of them poor, and are
  merged into what the patterns had found.

`PROJECT.json` lists the hazards by line, with the properties that watch each.
Where none does, the note says why: in these cases the code itself does what the
hazard names, and section 7 tells of it.

## 3. The modules

**StageTable** — the rows of one book as a set, and one operator for what each
method of `StageManager` demands of them (`InitiateOk`, `StartOk`, `CompleteOk`,
`StopOk`) and does (`Initiated`, `Started`, ...).  `DeriveBookStatus` is the loop
of `_derive_book_status`: the first mapped stage, over terminal rows only as soon
as a stage failed or was cancelled.  Row fields that no rule reads (times,
error text) are left out.

**StageManager** — the methods as concurrent sessions on one book, an action for
each statement or the statements between two that may wait:

| code | actions |
|---|---|
| `initiate_stage` | `ValidateSequential`, `ChooseAttempt`, `InitiateStage` (the insertion) |
| `start_stage`, `complete_stage`, `fail_stage`, `cancel_stage` | `GetStage`, then the lock, the guard and the write: `StartStage`, `CompleteStage`, `FailStage`, `CancelStage` |
| `reset_book` | `LockBook`, `ResetBook` |
| the end of each | `UpdateBookStatus` |
| the caller | `Calls`, `Commit`, `Fails`; `HandlerSetsStatus` for the handlers that write the status themselves |

The lookups and the check of the predecessor take no lock.  `_lock_stage` locks
the row but does not load it again, so a guard tests `seen`, the row as `get_stage`
found it.  The book is locked last, except in a reset.  A session sees what is
committed and its own rows (`View`); `RowFree`, `BookFree` and `BookKeyFree` say
whose locks a statement waits for, among them the key of the book that an
insertion locks for its foreign key.  Several methods in one session follow each
other as they do at the call sites (`Follows`).

**StageCallers** — every call site.  A handler's own commit and its stage
transaction are two steps, with other handlers in between; the transaction
commits as a whole or, when a method raises, not at all.  `LookupIsBound`
chooses what the name `get_stage` means in the module's methods: as the file
imports it (the function of `models/stage.py`, whose parameters do not fit the
calls, so that all but the static `StageManager.get_stage` raise), or as the
static method.  What makes a handler run (is there a job?) is left to
JobPipeline, so a worker's step is enabled more often here than it is in the
code; for safety that is the harder case.  One book may be `Inherited`, with
any status an earlier release wrote, and no rows: migration 011 fills in none.

**JobPipeline** — one book, its pages, jobs and messages; worker processes;
requests.  An action is one transaction or one exchange with the broker:

| code | actions |
|---|---|
| delivery, late acknowledgement, worker loss, `self.retry`, failure signal | `Take`, `Ack`, `Crash`, `VisibilityTimeout`, `Retry`, `TaskFailure` with `SignalFails` |
| `preprocess_pages_for_book` | `PrepCheck`, `PrepStart`, `PrepPages`, `PrepFailed`, `PrepDispatch` with `Dispatch` (the broker may refuse the message) |
| `run_ocr_for_book` | `OcrSetup`, `OcrPages`, `OcrPage`, `OcrProgress`, `OcrFinalize` |
| `run_llm_extraction` | `LlmStart`, `LlmRead`, `LlmContext`, `LlmBatch`, `LlmPersist`, `LlmFailed` |
| requests | `Begin` (what is read and checked), then one of `RunOcr`, `RunExtraction`, `RerunExtraction`, `RerunOcr`, `CancelJob`, `SelectPages`, `ResetBook`, `DeleteBook`, or `Refused` |

What records a failure can fail itself: the failure signal and `_mark_job_failed`
log the error and go on, `_mark_failed` of the extraction raises.  `HandlerFails`
is that error, in `TaskFailure`, `MarkJobFailed` and `LlmFailed`, at most
`MaxHandlerFaults` times.

A request's reads are taken at one moment, and so are those of `LlmRead`; between them and the commit anything may happen.  A commit that updates a row
that is gone fails (`Refused`), one that sets a status it read as just that
writes nothing, as the mapper does.  Since every stage transaction raises
(section 6), a task's finalisation raises too, and no request of this release
gets as far as sending its message: the messages are those an earlier release
left behind (`Left`: one book in each situation that release could leave) and
those that tasks send themselves.  A redelivered message keeps its delivery
tag, so the acknowledgement of either copy removes it (kombu's Redis
transport).  Retry delays are left out.  The contents of pages and fields are
left out; `text` says which pages have text.

**JobLife** — the abstract specification of the rows of jobs: a job is made
once, as queued; it is started, also after it was cancelled while its message
waited; it fails or is cancelled unless it is completed; it is deleted for good.
A failed job is started again only after a delivery was repeated.  It knows no
tasks, messages or requests; `JobPipeline!Life` maps the rows to it.  That a
completed job (from an earlier release: this one completes none) can be started
again is part of it, since a redelivered message does that.

**LlmExtraction** — one worker process: its breaker, and extractions one after
the other.  `run_until_complete` leaves the tasks of an extraction that raised
on the loop, so calls of an abandoned extraction go on beside the next one,
with a semaphore of their own and the same breaker; that is why `call` is
indexed by extraction.  `Enter` is what a task does when it has a slot (refused
by the circuit, prompt not rendered, or the call is made), `Respond` and
`CallFails` the two ways a call ends (a fallback parse counts as a response, a
timeout as a failure), `Collect` and `Report` the loop over `as_completed`,
`Persist` what the task does with the results.  Time since the circuit opened
stops at the cooldown, beyond which it makes no difference.  The semaphore
serves in any order.

**TaskEvents** — an extraction task as its watchers know it: commits, and the
events it publishes after each.  The state of book and job is the number of
commits so far, an event carries the number of the commit it tells of.  Only
the failing end is there: in this release no task gets past its stage call.
The payloads are left out but for what they make a client do.

**SseStream** — the abstract specification of the hub, for one client: what was
published comes in order, at most once, and any of it may be missing.

**SseHub** — the hub itself, with several connections: `Publish` and
`SubscriptionBreaks` (Redis), `Fanout` (`_dispatch_loop`, `_fanout`),
`Connect`, `ReadBook`, `ReadJobs`, `SnapshotFails` (`connect`,
`_build_snapshot`: two reads, each of what is committed by then), `Receive`,
`Disconnect` (the `finally` clause), `LeaveEarly` (the response ends before the
generator is first run, so the clause is never reached and the queue stays
registered), `Restart` (`stop`, `start`).  A connection of the model is opened
once; a reconnection is another one.  The fan-out takes the queues under the
lock and puts without waiting, so a message is dispatched in one step.

**BookView** — a browser tab at the end of `SseStream`: the event source with
its attempts (`Connects`, `Breaks`, `Remounts`), `dispatch` with the callbacks
of `useBookStatus` (`Receives`), the polling of the jobs, and the two queries of
the cache.  A fetch is asked for, answered from the database and applied in
three steps.  What the cache does is react-query's: an invalidation repeats a
fetch under way unless the query has no data yet, a failed fetch leaves the
data.  It is composed with the abstract stream and not with the hub, which
implements it.

**MetadataRecord** — the metadata and evidence rows of some books, one action per
statement, with the row locks PostgreSQL takes for it under READ COMMITTED:

| code | actions |
|---|---|
| `update_metadata` (PUT) | `EditBegin`, `EditFlush`, `EditCommit`, `EditFails` |
| `import_csv` | `ImportBegin`, `ImportRead` and `ImportFlush` for each CSV row, `ImportCommit` |
| `_persist_llm_results` | `PersistBegin`, `PersistFlush`, `PersistRecord`, `PersistCommit`, `PersistFails` |
| re-run of the extraction, reset | `ClearBegin`, `ClearJobs`, `ClearLooks`, `ClearEvidence`, `ClearMetadata`, `ClearCommit` |
| cancel of a job, the database | `CancelJob`, `DeadlockVictim` |

`WaitsFor` says whose locks a statement needs; it runs when there are none.  A
session keeps the copy it first read (`own`), so an import that reads without a
lock writes an old record, and a flush fails when the row it would insert is
there or the one it would update is gone (`Flush`).  `PersistFlush` writes
nothing to a record that has fields: the merge changes the stored value in
place and assigns it back, and without `flag_modified` the mapper sees no
change.  A value is the name of the transaction that wrote it.  Whether the
stage call before a commit raises is left open here (`EditFails` beside
`EditCommit`); StageCallers says that in this release it does, unless the stage
is not called at all.

**PageFiles** — the page rows of one book with their OCR results, and the files
behind them by page number.  Rows change at a commit, files at once:

| code | actions |
|---|---|
| `select_pages` | `SelectRead`, `SelectUnlink`, `SelectFlush`, `SelectRender`, `SelectRenderFails`, `SelectCommit` |
| `preprocess_pages_for_book` | `PrepRead`, `PrepPage`, `PrepCommit` |
| `_process_page_async` | `ReadPage`, `ReadImage`, `ReadFlush`, `ReadLook`, `ReadCommit` |
| `update_preprocessing` (a page with settings of its own) | `TuneRead`, `TuneRun`, `TuneCommit` |
| `update_ocr_correction` | `Correct` |
| re-run of OCR, reset, deletion | `RerunRead`, `RerunClear`, `RerunCommit`; `ResetClear`, `ResetCommit`; `DeleteCommit`, `DeletePurge` |
| any of them raises | `Fail` |

A page selected again has a new row and the path of the old one, which is the
point of the model.  `Overlapping` says whether a second selection may begin
while one is under way; the page disables its button meanwhile, the server does
not refuse.  The two operations whose unlinking or purge comes after a name that
is not bound (section 7) end with their commit.

**RateLimiter** — the middleware for one client address.  `Receive` takes the
time, `Decide` is the pipeline of four commands, which Redis executes as one
transaction, `Unanswered` a request that passes because Redis did not answer
(the commands executed or not), `Forget` the loss of entries with a restart or
an eviction, `Tick` the clock.  `Delay` bounds the time from `time.time()` to
the execution.

**Subsequences**, **PageRouting**, **CheapExtractors**, **HybridExtraction** —
one extraction as its data sees it.  Subsequences has the filter of a sequence,
written so that it can be proved about.  PageRouting has the windows of `batch_routing.py` (with
Python's slices), the pages each batch gets and the length and cut of the text
made of them.  CheapExtractors has the regular expressions, the publisher
dictionary and the language count, on pages that are sequences of the things a
pattern can find.  HybridExtraction runs the tiers in one step (`CheapTiers`, no
await), calls the batches for the gaps as the semaphore lets it (`Call`), takes
their answers in any order (`Answer`: a full one, a refused one, or objects for
the fallback parser) and merges (`Finish`).  The breaker is in LlmExtraction; a
batch refused or failed there is a refused answer here.

The `...Proofs` modules hold the theorems: StageProofs those about StageManager
and StageCallers, EventProofs those about SseHub and BookView, each other one
those about the module it is named after.  `MCJobPipeline` and
`MCStageManager` have a symmetry set, `MCHybridExtraction` the books of the
instance.

## 4. The runs

Operators that a comment calls a mutation are not part of any behaviour: they
are the plausible mistakes with which each property is tested.

| run | shows | bounds, and why they are enough |
|---|---|---|
| `stage_manager` | types, an attempt has one row, one session holds the book; the status committed is derived from all rows there are; a reset leaves none | two callers, which is as many as meet at a row; two stages with two attempts, so that there is a predecessor and a retry; three rows; any session may fail at any statement |
| `stage_callers` | section 7: the stage transactions leave no row | an inherited and a new book, two concurrent handlers, `get_stage` as the file binds it; the theorems cover the other binding and any number |
| `job_safety` | types; a running extraction job is always carried by a worker or a message; OCR progress never goes back; the rows of jobs live as JobLife says | two workers, one request of any kind, a crash, a redelivery, two transient errors, an error in a handler of failures, one retry; six situations.  Two workers meet only through redelivery; one request is what can come between two steps of a task |
| `job_live` | OCR runs end; `llm_running` ends | two requests at once, resets among them, a crash, two transient errors (one more than the retries), an error in a handler of failures.  One worker: without redelivery by timeout there is one message, which one worker at a time can hold |
| `llm_extraction` | the two fields of the breaker agree; an open circuit lets only the calls in flight fail; each batch is answered once; extractions end | three batches, two slots, threshold 2, cooldown 2, two extractions: more batches than slots, and an abandoned extraction with calls beside the next |
| `sse_hub` | no event falls between snapshot and stream; order; the hub implements `SseStream` | two connections (what one does to the other), queues of two against up to three events, one failure of Redis or of the server |
| `book_view` | an ended job comes to be shown and stays shown; a status event is enough for the book | one report before the failing end, one attempt to reconnect, one failed request: an answer of each age can be under way at each event |
| `metadata_record` | types; nothing of an edit, import or task that did not finish is stored; an edit touches only the fields it was given; a task leaves human values alone; every transaction ends, deadlocks included | two books, so that imports can lock them in either order; two fields, one of them a column of the book; any three of two edits, two imports, an extraction, a re-run and a reset |
| `metadata_import` | section 7 | the instance of `metadata_record` |
| `page_files` | types; a selected page has its image; a processed image that a row names exists; a deleted book stays empty; only the requests that say so drop a correction | two pages, two selections one after the other, one request or task of each kind and two page readers, any five of them under way |
| `rate_limiter` | types; admitted requests are bounded in each span of the window less the delay; a refusal has its reason within the window | limit 2, window 3, delay 1: five requests over five ticks fill one window and come back in the next |
| `hybrid_extraction` | no answer is lost or replaces a found value; evidence points at a page that has the value; each batch is sent once and within the budget; it hears the whole share of each page of its windows but the last, and something of that | the budget and the parallelism of the code; ten books of 1 to 20 pages, shorter and longer than the windows; one poor answer; under the cut the longest word the last page is sure to survive, and one longer than the text |

The types of StageCallers, LlmExtraction, SseHub (with the bound of
its queues) and BookView are proved and not among the runs.  What some of the properties leave open, and why:

- `CommitsDerivedStatus` and `ResetLeavesNoRow` are what StageManager keeps for
  concurrent callers.  That a recorded stage has its predecessors, and that a
  completed attempt is not rewritten, it does not keep (section 7).
- `RunningLlmJobCarried` is stated until a delivery outlives the visibility
  timeout or a handler of failures fails.  After a timeout both copies run, the
  acknowledgement of the first takes the message from the second, and a crash of
  the second loses it.  After an error in the failure signal the message is
  acknowledged and the job stays running (section 7).
- `LlmRunningEnds` names the four things after which the code may leave the book
  in `llm_running` (section 7): the retries of `_validate_book_context` are used
  up (`RetriesUsedUp`; the failure signal fails the job, but its stage call raises
  before the book's status, `tasks/celery_app.py:74`), the failure could not be
  recorded (`HandlerFailed`), a reset or a deletion took the job from its task
  (`JobRowGone`), and a timeout (`TimedOut`, not in this run).  The run meets the
  first three, and without any of them as an exception the property fails.
- `OcrRunEnds` excepts `HandlerFailed` and `TimedOut` only.  It is checked in
  situations where OCR itself is under way.  A preprocessing task that dies or is
  retried after it set its job to running finds that job active, skips, and the
  job stays running for good (section 7).
- `SelectedPagesHaveImages` is checked for selections that do not
  overlap and for those that came to their end: two overlapping ones, or one
  that failed, leave rows without an image (section 7).
- `RoutedPagesHeard` lets the last page of a prompt go unheard when more than 21
  characters without a blank are under the cut (section 7).
- `TaskKeepsHumanValues` is about the fields a human has filled: in this release
  a task writes nothing to a record that has any.
- `AdmittedBounded` is about requests with an answer that Redis still
  remembers: the limiter lets a request pass when Redis does not answer.
- `StatusEventIsEnough` is stated until a request for the book fails: the page
  then keeps what it shows.

`CHECK_DEADLOCK FALSE` stands where the system may stop: when the messages and
the bounded requests run out there is nothing left to do.

## 5. Fairness

- `JobPipeline!FairSpec`: weak fairness of `Take` and of the steps of each
  worker (Celery consumes while a process runs, and a process goes on with its
  task), and of a request's commit once it has read (the server finishes it).
  Nothing makes a request, a crash, a timeout or an error happen; each of those
  is bounded by a constant.
- `LlmExtraction!FairSpec`: weak fairness of the extraction's own steps, and of
  its calls while an extraction is waiting (a call has a timeout of 1200 s).
  While none is waiting the loop does not run, and no fairness is assumed for
  the calls left on it.
- `BookView!FairSpec`: weak fairness of the polling, of the server's answers and
  of their application (a two-second timer, and requests that are answered
  unless they fail).  No event has to arrive, no connection to open, no task to
  go on.
- `MetadataRecord!FairSpec`: weak fairness of the transactions' statements taken
  together (the database goes on with one that can) and of its search for
  deadlocks.  Every transaction is a finite list of statements, so that is
  enough for all of them to end.

## 6. The proofs

TLC checks the instances above.  The theorems hold for any values of the
constants that satisfy the named assumptions (`ManagerAssumption`,
`BoundsAssumption`, `ScenariosAssumption`, `LimitsAssumption`,
`FailedIsNoBatch`, `ReportsAssumption`, `SizesAssumption`, `TabAssumption`,
`DistinctTransactions`, `DistinctActors`, `BooksAssumption`, `BudgetAssumption`,
`WordsAssumption`).  All but `BooksAssumption` and `BudgetAssumption` only say that
bounds are numbers (for a word: not zero), that scenarios, stages and statuses are
known ones, that a failed batch's name is not a batch and that the kinds of
transactions are apart.  `BooksAssumption` says what `_validate_book_context`
hands over: at least one page, none blank, in the order of their numbers, each
number once (which overlapping selections break, section 7) and of at most four
digits.  `BudgetAssumption` says that a prompt has at least the 2500 characters of
the code.

- **StageProofs** about StageManager (`ManagerTypes`, `StatusIsDerived`,
  `ResetIsComplete`).  The invariant says beside the types whom the locks keep
  out: the uncommitted rows of two sessions have no key in common (`Apart`), a
  session sees one row for each key and has replaced only committed ones (`Views`),
  one that has derived the status holds the book and has the derivation of what it
  sees (`Holding`), and one that has reset the book sees nothing (`Resetting`).  What another session
  commits in between can only be nothing, since a commit needs the book, and that
  is why the derived status is still right at the commit.
- **StageProofs** about StageCallers (`TypeCorrect`, `StageTableStaysEmpty`,
  `NewBooksNeverPastOcr`).  With an empty table no transaction commits, one
  case per call site and under both bindings: upload completes a stage that was
  not started, page selection one that was not initiated, and each later stage
  asks for the one before it.  From that, a new book's status is written only
  by the handlers, and none that writes `ocr_complete` or later is enabled
  before one of those statuses is there.  This is the fact JobPipeline relies
  on when its finalisations raise.
- **JobPipelineProofs** (`Invariance`, `TypeCorrect`, `RunningCarried`,
  `ProgressNeverBack`, `JobsLive`).  The invariant says beside the types that a
  message and a worker at a step of a kind of task are about a job of that kind
  (`Routed`), that until a timeout a message a worker holds is still
  unacknowledged (`Delivered`), and that every running extraction job is
  carried until a timeout or an error in a handler of failures.  `Delivered` is
  why a crash puts the message back; `Routed` is why a step that writes progress writes it to a row of its own kind, and why the
  failure signal finds the job.  One lemma per action, over lemmas about the
  change of one row, of a set of rows and of the broker.
  `JobsLive` is the refinement of JobLife, with an invariant of its own
  (`LifeInv`): the failure signal, which searches by task id, finds no job but
  that of its message (`IdsOwned`); nobody at a step that ends a job is about a
  completed one, nor is a request that would cancel it (`DoneAlone`); a request
  writes only to jobs that were made (`ReqRows`); and, until a delivery is repeated,
  one message or worker at a time is about a job (`OneCarrier`), so that when it
  has failed nothing that could start it is left (`FailedLeft`).  The last two
  are false after a redelivery, which is why JobLife allows the start then.
- **LlmExtractionProofs** (`TypeCorrect`, `BreakerAgrees`, `BatchesAnswered`,
  `OverrunIsBounded`).
  The invariant ties each outcome with a batch's name, collected or just arrived,
  to a task of the current extraction that is done, each once, so that an
  extraction whose tasks are all done and collected goes to the database with
  one outcome for each batch with gaps.  The bound of the overrun counts the
  calls by an injection into pairs of an extraction and a slot, since each
  extraction has as many slots as its semaphore admits.
- **EventProofs** about SseHub (`HubTypes`, `NothingFallsBetween`,
  `SentInOrder`, `HubImplementsStream`).  For `NothingBetween` the invariant
  says what half of a snapshot covers: after the first read, every event about
  the book that was published is covered or under way, because what is
  published was committed (`Committed`).  For the order it says of the four
  places an event passes (task, Redis, queue, client) that each increases and
  comes before the next, and that none is newer than the last commit.  The
  refinement has one lemma per kind of step, over lemmas about what a step takes
  from the queue and the wire seen as one sequence; it needs the types only.
- **EventProofs** about BookView (`ViewTypes`, `EndedStays`).  The invariant says that a
  terminal event is on its way only when the end is committed, and that a page
  or an answer that covers the end implies the same (`Settled`); once the page
  shows the end, no older answer is left to be applied, because the event that
  wrote it replaced the fetch that was under way.
- **MetadataRecordProofs** (`TypeCorrect`, `AllOrNothing`,
  `EditsDoNotUndoEachOther`, `TasksKeepHumanValues`).  That nobody's unfinished
  work is stored needs `Stored` (a committed value is from a transaction that is
  done) and `Copied` (a session's copy has values of others that are done, and
  its own).  That an edit leaves other fields alone needs the lock: what a
  transaction copied of a row it has locked for update is still the committed
  row (`Locked`), and no two hold a row (`Exclusive`).  An import has no
  such copy, which is why the property about it fails.
- **PageFilesProofs** (`TypeCorrect`, `DeletedBookStaysEmpty`,
  `OnlyRequestsDropCorrections`, `NamedImagesExist`).
  For processed images the invariant says that those made and not yet committed
  exist (`MadeExist`), that a number has one row (`OneRow`), and that a book is
  gone before its files are (`PurgedWhenGone`).
- **RateLimiterProofs** (`TypeCorrect`, `AdmittedIsBounded`,
  `RejectionsHaveReasons`).  Both invariants count requests, and hold for every
  limit, window, delay and number of requests.  The invariant says that a request
  is not decided later than `Delay` after its time (`Timed`), that Redis has only
  decided requests (`Entered`), and that it still has every admitted one until
  that is as old as the window, the expiry of the key included (`Remembered`).
  When a request is admitted, those admitted in a span with it are all among the
  entries that were counted; when one is rejected, those counted are its reasons.
- **HybridExtractionProofs** (`AnswersAreKept`, `EvidenceHasValue`,
  `SentWithinBudget`, `RoutedAreHeard`).  The invariant of the state machine says
  which batches are called and have answered (`CallsAnswered`, `ToCall`), that
  the answers are what the replies gave for the gaps (`FromReplies`, `Given`), and
  what the results are in each phase (`PhaseResults`).  The batches share no
  field, so that an answer cannot replace another's.  The rest is about
  operators, for every book, budget and word under the cut: what the filter
  `Picked` returns, that the windows of a batch are increasing and within the
  book, where the text of each page begins in a prompt and in which page the cut
  falls (`Starts`, `CutSomewhere`, `KeptIs`), that with the shares of the code this
  is the last page (`RoomForAll`, `AllHeard`), and that the most common candidate of
  an extractor is found on the page it names.

A recursive function over a sequence is unfolded by the least counterexample
of a set of positions (`LeastOf`, `UpTo`), which the library proves from the
well-foundedness of the numbers; its induction theorems, which take an operator,
cannot be instantiated by the provers at hand.

All invariants and action properties of the passing runs are proved but
`SelectedPagesHaveImages`, and so are the refinements of SseStream and JobLife.
Only model-checked: that one, which the server keeps for selections that do not
overlap, and the liveness properties (`OcrRunEnds`, `LlmRunningEnds`,
`ExtractionEnds`, `EndOfJobShown`, `StatusEventIsEnough`, `EveryTransactionEnds`),
since liveness under fairness and ENABLED are outside of the prover's reach.  No
module uses RECURSIVE.

## 7. Disagreements found

The run `stage_callers` fails on `StagesAreTracked`.  Migration 011 says of
`book_stage_status` that it "Tracks per-stage lifecycle (initiated → processing →
completed / failed / cancelled)" (`src/backend/alembic/versions/011_book_stage_status.py:7`).
`services/stage_manager.py:8` takes the name `get_stage` from `app.models.stage`,
where it is a function of the book, the stage and the attempt, and the methods
call it with the session in front.  Every method that looks up a stage raises,
after the handler's own commit; no row is ever left (`StageTableStaysEmpty`, under
the other binding as well).  With the same calls go the writes of the status behind
them, so a new book stays at `ocr_running` (`NewBooksNeverPastOcr`), whereas
`src/docs/developer-guide.md:256` has the status go on to `ocr_complete`,
`llm_running` and `complete`, and `BOOK_STATUS_MAP`
(`services/stage_manager.py:28-34`) maps rows to them.

The run `metadata_import` fails on `MergeUpdatesOnlyProvided`.
`schemas/bulk.py:24` says that a merge updates only the fields the CSV provides;
the import reads the record without the lock that an edit takes
(`api/bulk.py:216`) and writes all of it, so an edit that commits in between is
undone.

The rest can be read off the models and has no run.  Stages, which wait behind the
binding of `get_stage`:

- An initiation checks the predecessor and counts the attempts before it locks
  anything (`services/stage_manager.py:138-156`), and the book is locked at `:129`:
  a reset that commits in between leaves a row without its predecessor, against the
  check at `:144`.
- `_lock_stage` (`:56`) does not load the row again, so the guards at `:175`,
  `:189`, `:203` and `:218` test the status from before the lock: of a completion
  and a failure beside each other both pass, and a completed attempt becomes a
  failed one.
- As long as no reset comes between, the derived status is never `llm_running`,
  which `BOOK_STATUS_MAP` has for a running LLM stage (`:29-30`) and
  `src/docs/developer-guide.md:256` names: the completed OCR stage comes first in
  the loop and answers `ocr_complete`.  For the same reason `complete` (`:34`) is
  derived only when no OCR or LLM stage has been completed, that is, past a
  failure or a cancellation of each.
- Two initiations of one book each hold its key from their insertion and wait for
  the other to lock it; the database ends one of them.

Jobs:

- An edit of a book under review is lost when the stage transaction raises before
  its commit (`api/metadata.py:91`, against the comment at `:85`).
- Two requests that both read before either commits create two active
  extraction jobs (`api/extraction.py:70`, against `:80`).
- A reset between the reads and the commit of `_validate_book_context` leaves the
  book in `llm_running` with no job (`tasks/llm_tasks.py:112`, against
  `src/docs/developer-guide.md:256`).
- The failure signal and `_mark_job_failed` swallow the errors they meet
  (`tasks/celery_app.py:88-100`, `tasks/ocr_tasks.py:491-494`): the message is
  acknowledged and the job stays running for good, against what
  `tasks/celery_app.py:34` says the handler is for.
- A book stays in `llm_running` when the retries of its extraction are used up
  (`tasks/celery_app.py:74`), or when an error meets `_mark_failed`
  (`tasks/llm_tasks.py:441`).
- A batch that raised has its prompt rendered again under a name that is no
  batch; that raises and loses the results of the others
  (`tasks/llm_tasks.py:189`).
- A job cancelled while its message waits runs when the message is taken
  (`LlmStart` has no guard on the status, `tasks/llm_tasks.py:49`).
- OCR with failed pages leaves the book in `ocr_running` (`OcrFinalize`, against
  the docstring at `tasks/ocr_tasks.py:417`).
- Preprocessing skips because of its own queued job (`PrepCheck`, against the
  docstring at `tasks/ocr_tasks.py:228`).
- After five failed reconnections the jobs are polled for ever and the book is
  not: its status stays on the page (`src/frontend/src/hooks/use-sse.ts:131`,
  against `services/sse_service.py:19`).

Pages and files:

- A selection that fails has unlinked the images of the rows its rollback brings
  back (`api/books.py:175`), and two overlapping ones give a page two rows
  (`api/books.py:170`).
- A task that runs while a book is deleted writes its files again after the purge.
- `rerun_ocr` and `reset_book` use a name their module does not import, after
  their commit: the unlinking, the purge and the dispatch behind it are never
  reached.
- `rerun_ocr` deletes a correction acknowledged a moment before
  (against the comment at `api/pages.py:122`).
- A processed image may be of another configuration than its row when the
  settings are changed while preprocessing runs.

Metadata:

- An import in overwrite mode drops `title`, `language` and the custom fields.
- A second extraction stores nothing into a record that has fields, while the
  evidence it writes speaks of what it found (`tasks/llm_tasks.py:140`).

Extraction:

- When a text is cut within a word of more than 21 characters, the last of eleven
  pages, the colophon, may lose all of its text (`services/batch_routing.py:140`,
  against the docstring at `:130`).
- The pattern for an ISBN of ten digits takes any four digits in a row
  (`services/extractors/regex_extractors.py:16`, against `:80`).
- The publication year is the most frequent one and not, as its docstring says,
  the most recent; the number of pages is the most common one and not, as the
  comment says, the largest.
- `physical_extra` does not get the last pages of a selection of 13 or more.
- The words that a second OCR pass improves are stored, the text made before it
  is not remade (`tasks/ocr_tasks.py:52`).
- A text corrected to nothing counts as uncorrected (`tasks/llm_tasks.py:96`).

## 8. Not modelled

- Event loops of the workers: a loop belongs to one process and a session to one
  task (NullPool); all they share is the engine, made under a lock.
- OCR, image processing, page classification: computation with no state between
  calls.
- Search, library, statistics, exports, the listing endpoints: they change no
  state.
- Configuration, logging, metrics, deployment, the presentation in the browser.
- `run_full_extraction`, `extract_price` and `extraction_validator.py`: nothing
  in the application calls them.
- The dispatch of tasks by requests: in this release it is not reached.

The components list in `PROJECT.json` gives the reason for each.  What the models
abstract from, beside the contents of pages and fields: in HybridExtraction the
things that patterns find are apart from each other, the digit groups of an ISBN
are no years, the
word under a cut has one of the lengths `WordLengths` (blanks stripped before the
cut count as part of it, a run of them across the middle of the budget is left out),
and the dictionary has a few publishers, among them one that is part of another; in
RateLimiter a pipeline is executed within `Delay` of its time, and the bound
shrinks by as much.

## 9. Where it can grow

All modules of the plan but two are there:

1. **Workflow**: the browser's stored steps and where it resumes.
2. **LazyEngine**: the engine made under the lock is one, which has little to
   go wrong.

## 10. How to run

    tlasany M.tla
    tlc -workers 2 -config X.cfg M
    tlapm M.tla

`PROJECT.json` names the module and configuration of each run.  The longest
run takes a minute or two, the longest proof several minutes.
