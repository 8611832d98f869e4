---------------------------- MODULE JobPipeline ----------------------------
(***************************************************************************)
(* One book, its pages and jobs, the broker and the Celery workers, with   *)
(* API and admin requests running at the same time.  Every action is one   *)
(* database transaction or one exchange with the broker.                   *)
(*                                                                         *)
(* Redis keeps a message until it is acknowledged, and delivers it again   *)
(* when the worker process dies or the visibility timeout passes first.    *)
(* A request reads, and commits later what it made of what it read.        *)
(*                                                                         *)
(* The stage transactions of the handlers always raise (StageProofs        *)
(* shows it), so they change nothing here and no code after them runs: the *)
(* requests of this release send no message, and the messages are those an *)
(* earlier release left in the broker and those that tasks send.           *)
(***************************************************************************)
EXTENDS Integers, FiniteSets, FiniteSetsExt

Stage == INSTANCE StageTable

CONSTANTS
  Workers, Clients,
  Scenarios,    \* what the earlier release may have left: a subset of DOMAIN Left
  Ops,          \* the requests the clients make
  Batches,      \* LLM batches of one extraction
  PREP_RETRIES, OCR_RETRIES, LLM_RETRIES,  \* max_retries of the three tasks
  MaxRequests, MaxCrashes, MaxTimeouts, MaxFaults,  \* bounds of a behaviour
  MaxHandlerFaults  \* errors of the handlers of failures, bounded as well

ASSUME BoundsAssumption ==
  /\ Batches \in Nat \ {0}
  /\ {PREP_RETRIES, OCR_RETRIES, LLM_RETRIES} \subseteq Nat
  /\ {MaxRequests, MaxCrashes, MaxTimeouts, MaxFaults, MaxHandlerFaults} \subseteq Nat

VARIABLES
  book,     \* books.status, or Deleted
  pages,    \* the ids of its pages rows; ids are never used again
  text,     \* the pages with an ocr_results row that is not blank
  jobs,     \* the jobs rows
  queue,    \* messages waiting in Redis
  unacked,  \* messages delivered and not acknowledged
  sent,     \* the number of messages published so far: the next id less one
  born,     \* the number of pages rows inserted so far
  worker,   \* what each worker process is doing
  req,      \* what each request has read
  left      \* crashes, timeouts, faults and requests still to come, at most
data == <<book, pages, text, jobs>>
broker == <<queue, unacked, sent>>
vars == <<data, broker, born, worker, req, left>>

Deleted == "deleted"
BookStatus == Stage!BookStatus
JobStatus == {"queued", "running", "completed", "failed", "cancelled"}
NoRow == "no row"
Active == {"queued", "running"}
JobIds == 1..(1 + MaxRequests)  \* a request adds at most one job

NoTask == 0
Job(type, status, progress, task) ==
  [type |-> type, status |-> status, progress |-> progress, task |-> task]
NoJob == Job("none", NoRow, 0, NoTask)
Message(task, job, id, tries) == [task |-> task, job |-> job, id |-> id, tries |-> tries]
NoMessage == Message("none", 1, 0, 0)

Idle == [pc |-> "idle", msg |-> NoMessage, todo |-> {}, total |-> 0,
         done |-> 0, bad |-> 0, seen |-> Deleted]
NoRequest == [op |-> "none", job |-> 1, status |-> Deleted, pages |-> {}, jobs |-> {}]

Exists == book # Deleted
Row(j) == jobs[j].status # NoRow
Rows == {j \in JobIds : Row(j)}
ActiveJobs(types) == {j \in JobIds : jobs[j].type \in types /\ jobs[j].status \in Active}
\* Ids are handed out in order; that of a deleted row is not used again.
Unused(j) == jobs[j] = NoJob /\ \A k \in JobIds : jobs[k] = NoJob => j <= k
GoneJob == Job("gone", NoRow, 0, NoTask)

\* Books as the earlier release may have left them, with their message.
Left ==
  [selected   |-> [book |-> "pages_selected", text |-> {}, job |-> NoJob, task |-> "none"],
   recognised |-> [book |-> "ocr_complete", text |-> {1, 2}, job |-> NoJob, task |-> "none"],
   prep |-> [book |-> "ocr_running", text |-> {}, job |-> Job("ocr", "queued", 0, NoTask),
             task |-> "prep"],
   ocr  |-> [book |-> "ocr_running", text |-> {1}, job |-> Job("ocr", "running", 50, 1),
             task |-> "ocr"],
   llm  |-> [book |-> "ocr_complete", text |-> {1, 2}, job |-> Job("llm", "queued", 0, NoTask),
             task |-> "llm"],
   llm_cut |-> [book |-> "llm_running", text |-> {1, 2}, job |-> Job("llm", "running", 0, 1),
                task |-> "llm"],
   llm_done |-> [book |-> "awaiting_review", text |-> {1, 2},
                 job |-> Job("llm", "completed", 100, 1), task |-> "llm"]]

ASSUME ScenariosAssumption == Scenarios \subseteq DOMAIN Left

Init ==
  \E s \in Scenarios :
    /\ book = Left[s].book
    /\ pages = {1, 2}
    /\ text = Left[s].text
    /\ jobs = [j \in JobIds |-> IF j = 1 THEN Left[s].job ELSE NoJob]
    /\ queue = IF Left[s].task = "none" THEN {} ELSE {Message(Left[s].task, 1, 1, 0)}
    /\ unacked = {}
    /\ sent = 1
    /\ born = 2
    /\ worker = [w \in Workers |-> Idle]
    /\ req = [c \in Clients |-> NoRequest]
    /\ left = [request |-> MaxRequests, crash |-> MaxCrashes,
               timeout |-> MaxTimeouts, fault |-> MaxFaults, handler |-> MaxHandlerFaults]

Spend(what) == left[what] > 0 /\ left' = [left EXCEPT ![what] = @ - 1]

-----------------------------------------------------------------------------
(***************************************************************************)
(* The broker and the worker processes.                                    *)
(***************************************************************************)
PCs == {"idle", "ack", "task_failure",
        "prep", "prep_start", "prep_pages", "prep_failed", "prep_dispatch",
        "ocr", "ocr_pages", "ocr_page", "ocr_progress", "ocr_finalize",
        "llm", "llm_read", "llm_context", "llm_batch", "llm_persist", "llm_failed"}

At(w, pc) == worker[w].pc = pc
Goto(w, pc) == worker' = [worker EXCEPT ![w].pc = pc]
Msg(w) == worker[w].msg
JobOf(w) == worker[w].msg.job

Take(w) ==
  /\ At(w, "idle")
  /\ \E m \in queue :
       /\ queue' = queue \ {m}
       /\ unacked' = unacked \cup {m}
       /\ worker' = [worker EXCEPT ![w] = [Idle EXCEPT !.pc = m.task, !.msg = m]]
  /\ UNCHANGED <<data, sent, born, req, left>>

Ack(w) ==
  /\ At(w, "ack")
  /\ unacked' = unacked \ {Msg(w)}
  /\ worker' = [worker EXCEPT ![w] = Idle]
  /\ UNCHANGED <<data, queue, sent, born, req, left>>

\* Mutation: acknowledged when delivered, so that a crash loses it.
CrashLoses(w) ==
  /\ ~At(w, "idle") /\ Spend("crash")
  /\ unacked' = unacked \ {Msg(w)}
  /\ worker' = [worker EXCEPT ![w] = Idle]
  /\ UNCHANGED <<data, queue, sent, born, req>>
\* task_reject_on_worker_lost: a message still held goes back to the queue.
Crash(w) ==
  /\ ~At(w, "idle") /\ Spend("crash")
  /\ queue' = queue \cup (unacked \cap {Msg(w)})
  /\ unacked' = unacked \ {Msg(w)}
  /\ worker' = [worker EXCEPT ![w] = Idle]
  /\ UNCHANGED <<data, sent, born, req>>

VisibilityTimeout ==
  \E m \in unacked :
    /\ Spend("timeout")
    /\ queue' = queue \cup {m}
    /\ unacked' = unacked \ {m}
    /\ UNCHANGED <<data, sent, born, worker, req>>

\* self.retry: the message again, under the same id, until the retries are used up.
MaxTries(task) == [prep |-> PREP_RETRIES, ocr |-> OCR_RETRIES, llm |-> LLM_RETRIES][task]
\* Mutation: the last retry fails without the failure signal.
RetryQuietly(w) ==
  /\ IF Msg(w).tries < MaxTries(Msg(w).task)
       THEN /\ queue' = queue \cup {[Msg(w) EXCEPT !.tries = @ + 1]}
            /\ unacked' = unacked \ {Msg(w)}
            /\ worker' = [worker EXCEPT ![w] = Idle]
       ELSE UNCHANGED <<queue, unacked>> /\ Goto(w, "ack")
  /\ UNCHANGED <<data, sent, born, req>>
Retry(w) ==
  /\ IF Msg(w).tries < MaxTries(Msg(w).task)
       THEN /\ queue' = queue \cup {[Msg(w) EXCEPT !.tries = @ + 1]}
            /\ unacked' = unacked \ {Msg(w)}
            /\ worker' = [worker EXCEPT ![w] = Idle]
       ELSE UNCHANGED <<queue, unacked>> /\ Goto(w, "task_failure")
  /\ UNCHANGED <<data, sent, born, req>>
\* A database or connection error where the task retries.
Transient(w) == Spend("fault") /\ Retry(w)
\* A handler of failures meets an error itself, and writes nothing.
HandlerFails(w, pc) ==
  Spend("handler") /\ Goto(w, pc) /\ UNCHANGED <<data, broker, born, req>>

\* Mutation: the signal fails whatever job has a row.
FailsAny(j) == Row(j)
FailsOnSignal(j) == jobs[j].status \in Active \cup {"cancelled"}
SignalFails(w) ==
  /\ jobs' = [j \in JobIds |->
       IF jobs[j].task = Msg(w).id /\ FailsOnSignal(j)
         THEN [jobs[j] EXCEPT !.status = "failed"] ELSE jobs[j]]
  /\ Goto(w, "ack")
  /\ UNCHANGED <<book, pages, text, broker, born, req, left>>
\* The signal handler finds the job by task id, whatever the job is doing now;
\* an error of its own is only logged, and the message is acknowledged.
TaskFailure(w) == At(w, "task_failure") /\ (SignalFails(w) \/ HandlerFails(w, "ack"))

-----------------------------------------------------------------------------
(***************************************************************************)
(* The steps of a task.  A step that finds its row missing writes nothing. *)
(***************************************************************************)
Local(w, pc) == Goto(w, pc) /\ UNCHANGED <<data, broker, born, req, left>>
Tick == UNCHANGED <<broker, born, req, left>>

StartJob(w, task) ==
  /\ jobs' = [jobs EXCEPT ![JobOf(w)].status = "running", ![JobOf(w)].task = task]
  /\ UNCHANGED <<book, pages, text>>
\* prep and llm keep a task id that is already there.
TaskId(w) == IF jobs[JobOf(w)].task = NoTask THEN Msg(w).id ELSE jobs[JobOf(w)].task

\* A job ends as failed, where it is still there.
EndJob(w, pc) ==
  /\ jobs' = IF Row(JobOf(w)) THEN [jobs EXCEPT ![JobOf(w)].status = "failed"] ELSE jobs
  /\ Goto(w, pc) /\ Tick /\ UNCHANGED <<book, pages, text>>

\* The loop over pages in order, and over batches.
StartLoop(w, S, pc) ==
  /\ worker' = [worker EXCEPT ![w].todo = S, ![w].total = Cardinality(S), ![w].done = 0,
                              ![w].pc = pc]
  /\ Tick
Next1(w) == Min(worker[w].todo)
Percent(w) == (100 * (worker[w].done + 1)) \div worker[w].total
Advance(w, again, after) ==
  worker' = [worker EXCEPT ![w].todo = @ \ {Next1(w)}, ![w].done = @ + 1,
               ![w].pc = IF worker[w].done + 1 = worker[w].total THEN after ELSE again]

\* The check counts the task's own job; when it fails it answers "none active".
PrepCheck(w) ==
  /\ At(w, "prep")
  /\ \/ ActiveJobs({"ocr"}) # {} /\ Local(w, "ack")
     \/ ActiveJobs({"ocr"}) = {} /\ Local(w, "prep_start")
     \/ Spend("fault") /\ Goto(w, "prep_start") /\ UNCHANGED <<data, broker, born, req>>
PrepStart(w) ==
  /\ At(w, "prep_start")
  /\ \/ /\ IF Row(JobOf(w)) THEN StartJob(w, TaskId(w)) ELSE UNCHANGED data
        /\ Goto(w, "prep_pages") /\ Tick
     \/ Transient(w)
PrepPages(w) ==
  /\ At(w, "prep_pages")
  /\ \/ Local(w, "prep_dispatch")
     \/ Local(w, "prep_failed")
     \/ Transient(w)
\* _mark_job_failed only logs an error of its own.
MarkJobFailed(w) == EndJob(w, "ack") \/ HandlerFails(w, "ack")
PrepFailed(w) == At(w, "prep_failed") /\ MarkJobFailed(w)
Dispatch(w) ==
  /\ sent' = sent + 1
  /\ queue' = queue \cup {Message("ocr", JobOf(w), sent + 1, 0)}
  /\ Goto(w, "ack")
  /\ UNCHANGED <<data, unacked, born, req, left>>
\* An error of the broker leaves the task, which does not retry it.
PrepDispatch(w) ==
  /\ At(w, "prep_dispatch")
  /\ \/ Dispatch(w)
     \/ Spend("fault") /\ Goto(w, "task_failure") /\ UNCHANGED <<data, broker, born, req>>

OcrSetup(w) ==
  /\ At(w, "ocr")
  /\ \/ Row(JobOf(w)) /\ StartJob(w, Msg(w).id) /\ Goto(w, "ocr_pages") /\ Tick
     \/ ~Row(JobOf(w)) /\ Local(w, "task_failure")
     \/ Transient(w)
OcrPages(w) ==
  /\ At(w, "ocr_pages")
  /\ \/ pages # {} /\ StartLoop(w, pages, "ocr_page") /\ UNCHANGED data
     \/ pages = {} /\ EndJob(w, IF Row(JobOf(w)) THEN "ack" ELSE "task_failure")
     \/ Transient(w)
\* OCR of a page may fail for any reason, and does when its row is gone.
OcrPage(w) ==
  /\ At(w, "ocr_page")
  /\ \/ /\ Next1(w) \in pages
        /\ text' = text \cup {Next1(w)}
        /\ Goto(w, "ocr_progress")
     \/ /\ worker' = [worker EXCEPT ![w].bad = @ + 1, ![w].pc = "ocr_progress"]
        /\ UNCHANGED text
  /\ Tick /\ UNCHANGED <<book, pages, jobs>>
\* Mutation: a later report may lower the value.
ReportUnguarded(w, p) == [jobs EXCEPT ![JobOf(w)].progress = p]
Report(w, p) ==
  IF p > jobs[JobOf(w)].progress THEN [jobs EXCEPT ![JobOf(w)].progress = p] ELSE jobs
OcrProgress(w) ==
  /\ At(w, "ocr_progress")
  /\ \/ /\ jobs' = IF Row(JobOf(w)) THEN Report(w, Percent(w)) ELSE jobs
        /\ UNCHANGED left
     \/ Spend("fault") /\ UNCHANGED jobs   \* best effort
  /\ Advance(w, "ocr_page", "ocr_finalize")
  /\ UNCHANGED <<book, pages, text, broker, born, req>>
\* The stage call raises whatever the pages came to.
OcrFinalize(w) == At(w, "ocr_finalize") /\ MarkJobFailed(w)

LlmStart(w) ==
  /\ At(w, "llm")
  /\ \/ Row(JobOf(w)) /\ StartJob(w, TaskId(w)) /\ Goto(w, "llm_read") /\ Tick
     \/ ~Row(JobOf(w)) /\ Local(w, "llm_failed")
     \/ Transient(w)
LlmRead(w) ==
  /\ At(w, "llm_read")
  /\ \/ /\ book \in {"ocr_complete", "llm_running"} /\ text # {}
        /\ worker' = [worker EXCEPT ![w].seen = book, ![w].pc = "llm_context"]
        /\ Tick /\ UNCHANGED data
     \/ /\ ~(book \in {"ocr_complete", "llm_running"} /\ text # {})
        /\ EndJob(w, "llm_failed")
     \/ Transient(w)
\* A status that was already llm_running when read is not written again.
LlmContext(w) ==
  /\ At(w, "llm_context")
  /\ \/ /\ Exists \/ worker[w].seen = "llm_running"
        /\ book' = IF worker[w].seen = "llm_running" THEN book ELSE "llm_running"
        /\ StartLoop(w, 1..Batches, "llm_batch")
        /\ UNCHANGED <<pages, text, jobs>>
     \/ ~Exists /\ worker[w].seen # "llm_running" /\ Local(w, "llm_failed")
     \/ Transient(w)
\* Mutation: the report counts the batch after this one as well.
LlmReportAhead(w) ==
  [jobs EXCEPT ![JobOf(w)].progress = Percent(w) + 100 \div worker[w].total]
LlmReport(w) == [jobs EXCEPT ![JobOf(w)].progress = Percent(w)]
LlmBatch(w) ==
  /\ At(w, "llm_batch")
  /\ \/ /\ jobs' = IF Row(JobOf(w)) THEN LlmReport(w) ELSE jobs
        /\ Advance(w, "llm_batch", "llm_persist")
        /\ Tick /\ UNCHANGED <<book, pages, text>>
     \/ Transient(w)
\* With the job's row gone the run records break a foreign key, and that error
\* is one the task retries; otherwise the stage call raises.
LlmPersist(w) ==
  /\ At(w, "llm_persist")
  /\ \/ Row(JobOf(w)) /\ Exists /\ Local(w, "llm_failed")
     \/ ~(Row(JobOf(w)) /\ Exists) /\ UNCHANGED left /\ Retry(w)
     \/ Transient(w)
\* Mutation: the book keeps its status when the job fails.
GivenBackNever == book
GivenBack == IF book = "llm_running" THEN "ocr_complete" ELSE book
EndExtraction(w) ==
  /\ IF Row(JobOf(w))
       THEN book' = GivenBack /\ jobs' = [jobs EXCEPT ![JobOf(w)].status = "failed"]
       ELSE UNCHANGED <<book, jobs>>
  /\ Goto(w, "task_failure") /\ Tick /\ UNCHANGED <<pages, text>>
\* An error of _mark_failed leaves the task in place of the first one.
LlmFailed(w) ==
  At(w, "llm_failed") /\ (EndExtraction(w) \/ HandlerFails(w, "task_failure"))

-----------------------------------------------------------------------------
(***************************************************************************)
(* Requests.  Begin is what a handler reads and checks, Commit what it     *)
(* writes.  A commit that updates a row no longer there fails and undoes   *)
(* the transaction (Refused), and one that sets a status the handler had   *)
(* read as just that writes nothing.                                       *)
(***************************************************************************)
HasTextAndNoLlmJob == text # {} /\ ActiveJobs({"llm"}) = {}
Allowed(op, j) ==
  CASE op = "run_ocr"          -> book = "pages_selected" /\ pages # {}
    [] op = "run_extraction"   -> book = "ocr_complete" /\ HasTextAndNoLlmJob
    [] op = "rerun_extraction" -> book \in {"ocr_complete", "complete"} /\ HasTextAndNoLlmJob
    [] op = "rerun_ocr"        -> Exists /\ pages # {}
    [] op = "cancel_job"       -> jobs[j].status \in Active
    [] op \in {"select_pages", "reset_book", "delete_book"} -> Exists
Writes(op, j) ==
  CASE op = "run_ocr"    -> ActiveJobs({"ocr"})
    [] op \in {"rerun_ocr", "reset_book"} -> ActiveJobs({"ocr", "llm"})
    [] op = "cancel_job"  -> {j}
    [] op = "delete_book" -> Rows
    [] OTHER -> {}

Begin(c) ==
  /\ req[c] = NoRequest
  /\ Spend("request")
  /\ \E op \in Ops : \E j \in IF op = "cancel_job" THEN JobIds ELSE {1} :
       /\ Allowed(op, j)
       /\ req' = [req EXCEPT ![c] = [op |-> op, job |-> j, status |-> book,
                                     pages |-> pages, jobs |-> Writes(op, j)]]
  /\ UNCHANGED <<data, broker, born, worker>>

StillThere(r) == Exists /\ \A j \in r.jobs : Row(j)
Cancelled(js, S) ==
  [j \in JobIds |-> IF j \in S THEN [js[j] EXCEPT !.status = "cancelled"] ELSE js[j]]
AddsJob(js, type) ==
  \E j \in JobIds : Unused(j) /\ jobs' = [js EXCEPT ![j] = Job(type, "queued", 0, NoTask)]
Without(S) == [j \in JobIds |-> IF j \in S THEN GoneJob ELSE jobs[j]]
Write(r, st) == book' = IF r.status = st THEN book ELSE st
EndRequest(c, op) ==
  /\ req[c].op = op
  /\ req' = [req EXCEPT ![c] = NoRequest]
  /\ UNCHANGED <<broker, worker, left>>

RunOcr(c) ==
  /\ EndRequest(c, "run_ocr") /\ StillThere(req[c])
  /\ AddsJob(Cancelled(jobs, req[c].jobs), "ocr")
  /\ Write(req[c], "ocr_running")
  /\ UNCHANGED <<pages, text, born>>
RunExtraction(c) ==
  /\ EndRequest(c, "run_extraction") /\ Exists
  /\ AddsJob(jobs, "llm")
  /\ UNCHANGED <<book, pages, text, born>>
RerunExtraction(c) ==
  /\ EndRequest(c, "rerun_extraction") /\ Exists
  /\ AddsJob(jobs, "llm")
  /\ Write(req[c], "ocr_complete")
  /\ UNCHANGED <<pages, text, born>>
RerunOcr(c) ==
  /\ EndRequest(c, "rerun_ocr") /\ StillThere(req[c])
  /\ AddsJob(Cancelled(jobs, req[c].jobs), "ocr")
  /\ text' = text \ req[c].pages
  /\ Write(req[c], "ocr_running")
  /\ UNCHANGED <<pages, born>>
\* The status a book is taken back from and to, by type of the cancelled job.
Back == [ocr |-> <<"ocr_running", "pages_selected">>, llm |-> <<"llm_running", "ocr_complete">>]
CancelJob(c) ==
  /\ EndRequest(c, "cancel_job") /\ Row(req[c].job)
  /\ LET back == Back[jobs[req[c].job].type] IN
       /\ req[c].status = back[1] => Exists
       /\ book' = IF req[c].status = back[1] THEN back[2] ELSE book
  /\ jobs' = Cancelled(jobs, req[c].jobs)
  /\ UNCHANGED <<pages, text, born>>
\* The rows read are deleted and the new ones inserted, however many of the
\* old a request running at the same time has replaced already.
SelectPages(c) ==
  /\ EndRequest(c, "select_pages") /\ Exists
  /\ \E n \in 1..2 :
       /\ pages' = (pages \ req[c].pages) \cup (born + 1)..(born + n)
       /\ born' = born + n
  /\ text' = text \ req[c].pages
  /\ Write(req[c], "pages_selected")
  /\ UNCHANGED jobs
ResetBook(c) ==
  /\ EndRequest(c, "reset_book") /\ StillThere(req[c])
  /\ jobs' = Without(Rows)
  /\ pages' = {} /\ text' = {}
  /\ Write(req[c], "uploaded")
  /\ UNCHANGED born
\* A job inserted after the rows were read stays, with no book.
DeleteBook(c) ==
  /\ EndRequest(c, "delete_book") /\ Exists
  /\ jobs' = Without(req[c].jobs)
  /\ pages' = {} /\ text' = {} /\ book' = Deleted
  /\ UNCHANGED born
Refused(c) ==
  /\ \/ ~StillThere(req[c])
     \/ req[c].op = "rerun_ocr" /\ ~(req[c].pages \subseteq pages)
  /\ req[c] # NoRequest
  /\ EndRequest(c, req[c].op)
  /\ UNCHANGED <<data, born>>

-----------------------------------------------------------------------------
Work(w) ==
  \/ Ack(w) \/ TaskFailure(w)
  \/ PrepCheck(w) \/ PrepStart(w) \/ PrepPages(w) \/ PrepFailed(w) \/ PrepDispatch(w)
  \/ OcrSetup(w) \/ OcrPages(w) \/ OcrPage(w) \/ OcrProgress(w) \/ OcrFinalize(w)
  \/ LlmStart(w) \/ LlmRead(w) \/ LlmContext(w) \/ LlmBatch(w) \/ LlmPersist(w) \/ LlmFailed(w)
Commit(c) ==
  \/ RunOcr(c) \/ RunExtraction(c) \/ RerunExtraction(c) \/ RerunOcr(c) \/ CancelJob(c)
  \/ SelectPages(c) \/ ResetBook(c) \/ DeleteBook(c) \/ Refused(c)
Next ==
  \/ \E w \in Workers : Take(w) \/ Work(w) \/ Crash(w)
  \/ VisibilityTimeout
  \/ \E c \in Clients : Begin(c) \/ Commit(c)

Spec == Init /\ [][Next]_vars

\* Celery consumes as long as a process runs, and a process that runs goes on
\* with its task; a request, once read, is committed or refused.
FairSpec ==
  /\ Spec
  /\ \A w \in Workers : WF_vars(Take(w)) /\ WF_vars(Work(w))
  /\ \A c \in Clients : WF_vars(Commit(c))
-----------------------------------------------------------------------------
JobRow == [type : {"none", "gone", "ocr", "llm"}, status : JobStatus \cup {NoRow},
           progress : 0..100, task : Nat]
Messages == [task : {"none", "prep", "ocr", "llm"}, job : JobIds, id : Nat, tries : Nat]
WorkerRow == [pc : PCs, msg : Messages, todo : SUBSET Nat, total : Nat, done : Nat, bad : Nat,
              seen : BookStatus \cup {Deleted}]
Request == [op : Ops \cup {"none"}, job : JobIds, status : BookStatus \cup {Deleted},
            pages : SUBSET Nat, jobs : SUBSET JobIds]

TypeOK ==
  /\ book \in BookStatus \cup {Deleted}
  /\ pages \subseteq Nat /\ text \subseteq pages
  /\ jobs \in [JobIds -> JobRow]
  /\ queue \subseteq Messages /\ unacked \subseteq Messages
  /\ sent \in Nat /\ born \in Nat
  /\ worker \in [Workers -> WorkerRow]
  /\ req \in [Clients -> Request]
  /\ left \in [{"request", "crash", "timeout", "fault", "handler"} -> Nat]

\* Something is still going to work on the job and then end it.
Carried(j) ==
  \/ \E m \in queue : m.job = j
  \/ \E w \in Workers : ~At(w, "idle") /\ ~At(w, "ack") /\ JobOf(w) = j

(* A running extraction job is not abandoned: whatever crashes, errors of  *)
(* the database or the broker, retries and requests come in between, some  *)
(* worker or message still carries it, so that it will leave the running   *)
(* status.  It holds until one of two things that the code leaves open: a  *)
(* delivery outlives the visibility timeout, and the acknowledgement of    *)
(* either copy takes the message from the other; or a handler of failures  *)
(* fails itself, which is logged and leaves the job as it was.             *)
RunningLlmJobCarried ==
  left.timeout = MaxTimeouts /\ left.handler = MaxHandlerFaults =>
    \A j \in JobIds : jobs[j].type = "llm" /\ jobs[j].status = "running" => Carried(j)

(* The progress of an OCR job never goes back, whatever is redelivered,    *)
(* retried or re-selected (_update_job_progress, "never regress the value")*)
OcrProgressNeverBack ==
  [][\A j \in JobIds : jobs[j].type = "ocr" /\ jobs'[j].type = "ocr"
       => jobs'[j].progress >= jobs[j].progress]_vars

(* The rows of the jobs live as JobLife says, whatever tasks, retries,     *)
(* failure signals and requests write to them in which order: above all    *)
(* no retry starts a job that has failed, no request that read a job       *)
(* earlier and no failure signal ends a completed one or another's.        *)
Redelivered == left.crash # MaxCrashes \/ left.timeout # MaxTimeouts
StatusOf(r) ==
  IF r.type = "none" THEN "unborn" ELSE IF r.type = "gone" THEN "gone" ELSE r.status
LifeStatus == [j \in JobIds |-> StatusOf(jobs[j])]
Life == INSTANCE JobLife WITH Jobs <- JobIds, status <- LifeStatus, redelivered <- Redelivered
ImplementsLife == Life!LifeSpec

(* An extraction lets go of its book, whatever requests, crashes and       *)
(* errors that a retry makes up for come in between.  Four things that the *)
(* code leaves open may keep the book in llm_running: errors that use the  *)
(* retries up (the failure signal does not touch the book), an error while *)
(* the failure is recorded, a reset or deletion that takes the job's row   *)
(* from a task still running, and a delivery that outlives its timeout.    *)
RetriesUsedUp == MaxFaults - left.fault > LLM_RETRIES
HandlerFailed == left.handler # MaxHandlerFaults
JobRowGone == \E j \in JobIds : jobs[j] = GoneJob
TimedOut == left.timeout # MaxTimeouts
LlmRunningEnds ==
  book = "llm_running" ~>
    book # "llm_running" \/ RetriesUsedUp \/ HandlerFailed \/ JobRowGone \/ TimedOut

(* An OCR run that started ends, through crashes, errors of the database   *)
(* and requests, unless the handler of a failure fails itself or a         *)
(* delivery outlives its timeout.                                          *)
OcrRunEnds ==
  \A j \in JobIds :
    jobs[j].type = "ocr" /\ jobs[j].status = "running"
      ~> jobs[j].status # "running" \/ HandlerFailed \/ TimedOut
=============================================================================
