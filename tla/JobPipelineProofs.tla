-------------------------- MODULE JobPipelineProofs --------------------------
(***************************************************************************)
(* Theorems about JobPipeline, for any number of workers, clients,         *)
(* requests, crashes, redeliveries, errors, retries and batches.           *)
(*                                                                         *)
(* The invariant IInv follows a message from the queue to its              *)
(* acknowledgement: which task may work on which type of job (Routed),     *)
(* where the one copy of a message is as long as no visibility timeout has *)
(* struck (Delivered), and under which task id an extraction job runs      *)
(* (RowOK), which is what lets the failure signal find it.                 *)
(***************************************************************************)
EXTENDS JobPipeline, FiniteSetTheorems, TLAPS

InLoop == {"ocr_page", "ocr_progress", "llm_batch"}
PrepPCs == {"prep", "prep_start", "prep_pages", "prep_failed", "prep_dispatch"}
OcrPCs == {"ocr", "ocr_pages", "ocr_page", "ocr_progress", "ocr_finalize"}
LlmPCs == {"llm", "llm_read", "llm_context", "llm_batch", "llm_persist", "llm_failed"}
\* The program points a worker with a message of this task can be at.
PCsOf(task) ==
  {"ack", "task_failure"} \cup (IF task = "prep" THEN PrepPCs ELSE
                                IF task = "ocr" THEN OcrPCs ELSE LlmPCs)
Busy(w) == worker[w].pc # "idle"
LlmRun(j) == jobs[j].type = "llm" /\ jobs[j].status = "running"

(* The invariant, by variable. *)
BookOK ==
  /\ book \in BookStatus \cup {Deleted}
  /\ pages \subseteq Nat /\ IsFiniteSet(pages) /\ text \subseteq pages
  /\ born \in Nat
RowOK(j, r) ==
  /\ r.status # NoRow => r.type \in {"ocr", "llm"}
  /\ r.type = "llm" /\ r.status = "running" => j = 1 /\ r.task = 1
  /\ r.type = "llm" /\ j = 1 => r.task \in {0, 1}
JobsOK == jobs \in [JobIds -> JobRow] /\ \A j \in JobIds : RowOK(j, jobs[j])
WorkersOK ==
  /\ worker \in [Workers -> WorkerRow]
  /\ \A w \in Workers : worker[w].pc \in InLoop => worker[w].done < worker[w].total
BrokerOK == queue \subseteq Messages /\ unacked \subseteq Messages /\ sent \in Nat
ReqOK ==
  /\ req \in [Clients -> Request]
  /\ \A c \in Clients : req[c].op = "cancel_job" => req[c].jobs = {req[c].job}
LeftOK == left \in [{"request", "crash", "timeout", "fault", "handler"} -> Nat]

MsgOK(m) ==
  /\ m.id \in 1..sent
  /\ m.task \in {"prep", "ocr", "llm"}
  /\ m.task = "llm" => m.id = 1 /\ m.job = 1
  /\ jobs[m.job].type \in {IF m.task = "llm" THEN "llm" ELSE "ocr", "gone"}
Routed ==
  /\ \A m \in queue \cup unacked : MsgOK(m)
  /\ \A w \in Workers : Busy(w) => MsgOK(Msg(w)) /\ worker[w].pc \in PCsOf(Msg(w).task)

OneCopy ==
  /\ \A m, n \in queue \cup unacked : m.id = n.id => m = n
  /\ queue \cap unacked = {}
  /\ \A w \in Workers : Busy(w) => Msg(w) \in unacked
  /\ \A v, w \in Workers : Busy(v) /\ Busy(w) /\ Msg(v).id = Msg(w).id => v = w
Delivered ==
  /\ left.timeout <= MaxTimeouts /\ left.handler <= MaxHandlerFaults
  /\ left.timeout = MaxTimeouts => OneCopy

Typed == BookOK /\ JobsOK /\ WorkersOK /\ BrokerOK /\ ReqOK /\ LeftOK
IInv == Typed /\ Routed /\ Delivered /\ RunningLlmJobCarried

Follows(r, s) ==
  /\ s.type \in {r.type, "gone"} \/ r.type = "none"
  /\ r.type = "ocr" /\ s.type = "ocr" => s.progress >= r.progress
NeverBack ==
  \A j \in JobIds : jobs[j].type = "ocr" /\ jobs'[j].type = "ocr"
    => jobs'[j].progress >= jobs[j].progress
Good == IInv' /\ NeverBack

LEMMA Ids == 1 \in JobIds /\ JobIds \subseteq Nat
  BY BoundsAssumption DEF JobIds

LEMMA TypedOK == Typed => TypeOK
  BY DEF Typed, TypeOK, BookOK, JobsOK, WorkersOK, BrokerOK, ReqOK, LeftOK

-----------------------------------------------------------------------------
(* What the parts of an action do to jobs. *)
JobsMove == JobsOK' /\ \A j \in JobIds : Follows(jobs[j], jobs'[j])

LEMMA RowStatus ==
  ASSUME NEW r \in JobRow, NEW st \in JobStatus
  PROVE  /\ [r EXCEPT !.status = st] \in JobRow
         /\ [r EXCEPT !.status = st].type = r.type
         /\ [r EXCEPT !.status = st].status = st
         /\ [r EXCEPT !.status = st].progress = r.progress
         /\ [r EXCEPT !.status = st].task = r.task
  BY DEF JobRow

LEMMA RowStart ==
  ASSUME NEW r \in JobRow, NEW t \in Nat
  PROVE  /\ [r EXCEPT !.status = "running", !.task = t] \in JobRow
         /\ [r EXCEPT !.status = "running", !.task = t].type = r.type
         /\ [r EXCEPT !.status = "running", !.task = t].status = "running"
         /\ [r EXCEPT !.status = "running", !.task = t].progress = r.progress
         /\ [r EXCEPT !.status = "running", !.task = t].task = t
  BY DEF JobRow, JobStatus

LEMMA RowProgress ==
  ASSUME NEW r \in JobRow, NEW p \in 0..100
  PROVE  /\ [r EXCEPT !.progress = p] \in JobRow
         /\ [r EXCEPT !.progress = p].type = r.type
         /\ [r EXCEPT !.progress = p].status = r.status
         /\ [r EXCEPT !.progress = p].progress = p
         /\ [r EXCEPT !.progress = p].task = r.task
  BY DEF JobRow

\* Rows that differ from those before in what Follows allows.
LEMMA JobsPointwise ==
  ASSUME JobsOK, jobs' \in [JobIds -> JobRow],
         \A j \in JobIds : RowOK(j, jobs'[j]) /\ Follows(jobs[j], jobs'[j])
  PROVE  JobsMove
  BY DEF JobsMove, JobsOK

LEMMA SameFollows ==
  ASSUME NEW r \in JobRow
  PROVE  Follows(r, r)
  <1>1. r.progress \in 0..100  BY DEF JobRow
  <1>2. QED  BY <1>1 DEF Follows

LEMMA JobsSame ==
  ASSUME JobsOK, UNCHANGED jobs
  PROVE  JobsMove /\ \A j \in JobIds : LlmRun(j)' => LlmRun(j)
  <1>1. \A j \in JobIds : jobs[j] \in JobRow /\ jobs'[j] = jobs[j]  BY DEF JobsOK
  <1>2. \A j \in JobIds : Follows(jobs[j], jobs'[j])  BY <1>1, SameFollows
  <1>3. JobsOK'  BY DEF JobsOK
  <1>4. QED  BY <1>2, <1>3 DEF JobsMove, LlmRun

\* One row changes.
LEMMA JobsOne ==
  ASSUME JobsOK, NEW k \in JobIds, NEW r \in JobRow, RowOK(k, r), Follows(jobs[k], r),
         jobs' = [jobs EXCEPT ![k] = r]
  PROVE  /\ JobsMove
         /\ jobs'[k] = r
         /\ \A j \in JobIds \ {k} : LlmRun(j)' => LlmRun(j)
  <1>1. /\ jobs' \in [JobIds -> JobRow] /\ jobs'[k] = r
        /\ \A j \in JobIds \ {k} : jobs'[j] = jobs[j]
        BY DEF JobsOK
  <1>2. \A j \in JobIds : RowOK(j, jobs[j]) /\ jobs[j] \in JobRow  BY DEF JobsOK
  <1>3. \A j \in JobIds : RowOK(j, jobs'[j])  BY <1>1, <1>2
  <1>4. \A j \in JobIds : Follows(jobs[j], jobs'[j])  BY <1>1, <1>2, SameFollows
  <1>5. JobsMove  BY <1>1, <1>3, <1>4, JobsPointwise
  <1>6. QED  BY <1>1, <1>5 DEF LlmRun

\* The row of k gets a status that is not running.
LEMMA JobsStatus ==
  ASSUME JobsOK, NEW k \in JobIds, NEW st \in JobStatus \ {"running"}, Row(k),
         jobs' = [jobs EXCEPT ![k].status = st]
  PROVE  /\ JobsMove
         /\ \A j \in JobIds : LlmRun(j)' => LlmRun(j) /\ j # k
  <1> DEFINE r == [jobs[k] EXCEPT !.status = st]
  <1>1. jobs[k] \in JobRow /\ RowOK(k, jobs[k])  BY DEF JobsOK
  <1>2. /\ r \in JobRow /\ r.type = jobs[k].type /\ r.status = st
        /\ r.progress = jobs[k].progress /\ r.task = jobs[k].task
        BY <1>1, RowStatus
  <1>3. jobs' = [jobs EXCEPT ![k] = r]  OBVIOUS
  <1> HIDE DEF r
  <1>4. RowOK(k, r)  BY <1>1, <1>2 DEF RowOK, Row
  <1>5. jobs[k].progress \in 0..100  BY <1>1 DEF JobRow
  <1>6. Follows(jobs[k], r)  BY <1>2, <1>5 DEF Follows
  <1>7. JobsMove /\ jobs'[k] = r /\ \A j \in JobIds \ {k} : LlmRun(j)' => LlmRun(j)
        BY <1>2, <1>3, <1>4, <1>6, JobsOne
  <1>8. ~LlmRun(k)'  BY <1>2, <1>7 DEF LlmRun
  <1>9. QED  BY <1>7, <1>8

\* The row of k starts to run under task id t.
LEMMA JobsStart ==
  ASSUME JobsOK, NEW k \in JobIds, NEW t \in Nat, Row(k),
         jobs[k].type = "llm" => k = 1 /\ t = 1,
         jobs' = [jobs EXCEPT ![k].status = "running", ![k].task = t]
  PROVE  /\ JobsMove
         /\ \A j \in JobIds : LlmRun(j)' => LlmRun(j) \/ (j = k /\ jobs[k].type = "llm")
  <1> DEFINE r == [jobs[k] EXCEPT !.status = "running", !.task = t]
  <1>1. jobs[k] \in JobRow /\ RowOK(k, jobs[k])  BY DEF JobsOK
  <1>2. /\ r \in JobRow /\ r.type = jobs[k].type /\ r.status = "running"
        /\ r.progress = jobs[k].progress /\ r.task = t
        BY <1>1, RowStart
  <1>3. jobs' = [jobs EXCEPT ![k] = r]  BY DEF JobsOK
  <1> HIDE DEF r
  <1>4. RowOK(k, r)  BY <1>1, <1>2 DEF RowOK, Row
  <1>5. jobs[k].progress \in 0..100  BY <1>1 DEF JobRow
  <1>6. Follows(jobs[k], r)  BY <1>2, <1>5 DEF Follows
  <1>7. JobsMove /\ jobs'[k] = r /\ \A j \in JobIds \ {k} : LlmRun(j)' => LlmRun(j)
        BY <1>2, <1>3, <1>4, <1>6, JobsOne
  <1>8. LlmRun(k)' => jobs[k].type = "llm"  BY <1>2, <1>7 DEF LlmRun
  <1>9. QED  BY <1>7, <1>8

LEMMA JobsProgress ==
  ASSUME JobsOK, NEW k \in JobIds, NEW p \in 0..100,
         jobs[k].type = "ocr" => p >= jobs[k].progress,
         jobs' = [jobs EXCEPT ![k].progress = p]
  PROVE  JobsMove /\ \A j \in JobIds : LlmRun(j)' => LlmRun(j)
  <1> DEFINE r == [jobs[k] EXCEPT !.progress = p]
  <1>1. jobs[k] \in JobRow /\ RowOK(k, jobs[k])  BY DEF JobsOK
  <1>2. /\ r \in JobRow /\ r.type = jobs[k].type /\ r.status = jobs[k].status
        /\ r.progress = p /\ r.task = jobs[k].task
        BY <1>1, RowProgress
  <1>3. jobs' = [jobs EXCEPT ![k] = r]  OBVIOUS
  <1> HIDE DEF r
  <1>4. RowOK(k, r)  BY <1>1, <1>2 DEF RowOK
  <1>6. Follows(jobs[k], r)  BY <1>2 DEF Follows
  <1>7. JobsMove /\ jobs'[k] = r /\ \A j \in JobIds \ {k} : LlmRun(j)' => LlmRun(j)
        BY <1>2, <1>3, <1>4, <1>6, JobsOne
  <1>8. LlmRun(k)' => LlmRun(k)  BY <1>2, <1>7 DEF LlmRun
  <1>9. QED  BY <1>7, <1>8

\* Rows that the same rule changes all over the table, to something not running.
LEMMA JobsMany ==
  ASSUME JobsOK, NEW S \in SUBSET JobIds, NEW st \in JobStatus \ {"running"},
         \A j \in S : Row(j),
         jobs' = [j \in JobIds |-> IF j \in S THEN [jobs[j] EXCEPT !.status = st] ELSE jobs[j]]
  PROVE  /\ JobsMove
         /\ \A j \in JobIds : LlmRun(j)' => LlmRun(j) /\ j \notin S
  <1>1. ASSUME NEW j \in JobIds
        PROVE  /\ jobs'[j] \in JobRow /\ RowOK(j, jobs'[j]) /\ Follows(jobs[j], jobs'[j])
               /\ LlmRun(j)' => LlmRun(j) /\ j \notin S
    <2>1. jobs[j] \in JobRow /\ RowOK(j, jobs[j])  BY DEF JobsOK
    <2>2. CASE j \in S
      <3> DEFINE r == [jobs[j] EXCEPT !.status = st]
      <3>1. /\ r \in JobRow /\ r.type = jobs[j].type /\ r.status = st
            /\ r.progress = jobs[j].progress /\ r.task = jobs[j].task
            BY <2>1, RowStatus
      <3>2. jobs'[j] = r  BY <2>2
      <3> HIDE DEF r
      <3>3. RowOK(j, r)  BY <2>1, <2>2, <3>1 DEF RowOK, Row
      <3>4. jobs[j].progress \in 0..100  BY <2>1 DEF JobRow
      <3>5. Follows(jobs[j], r)  BY <3>1, <3>4 DEF Follows
      <3>6. ~LlmRun(j)'  BY <3>1, <3>2 DEF LlmRun
      <3>7. QED  BY <3>1, <3>2, <3>3, <3>5, <3>6
    <2>3. CASE j \notin S
      <3>1. jobs'[j] = jobs[j]  BY <2>3
      <3>2. Follows(jobs[j], jobs'[j])  BY <2>1, <3>1, SameFollows
      <3>3. QED  BY <2>1, <2>3, <3>1, <3>2 DEF LlmRun
    <2>4. QED  BY <2>2, <2>3
  <1>2. jobs' \in [JobIds -> JobRow]
    <2>1. \A j \in JobIds : jobs'[j] \in JobRow  BY <1>1
    <2>2. QED  BY <2>1
  <1>3. JobsMove  BY <1>1, <1>2, JobsPointwise
  <1>4. QED  BY <1>1, <1>3

\* Rows are deleted.
LEMMA JobsWithout ==
  ASSUME JobsOK, NEW S, jobs' = Without(S)
  PROVE  JobsMove /\ \A j \in JobIds : LlmRun(j)' => LlmRun(j)
  <1>1. GoneJob \in JobRow /\ GoneJob.status = NoRow /\ GoneJob.type = "gone"
        BY DEF GoneJob, JobRow, Job, NoTask
  <1>2. ASSUME NEW j \in JobIds
        PROVE  /\ jobs'[j] \in JobRow /\ RowOK(j, jobs'[j]) /\ Follows(jobs[j], jobs'[j])
               /\ LlmRun(j)' => LlmRun(j)
    <2>1. jobs[j] \in JobRow /\ RowOK(j, jobs[j])  BY DEF JobsOK
    <2>2. CASE j \in S
      <3>1. jobs'[j] = GoneJob  BY <2>2 DEF Without
      <3>2. RowOK(j, GoneJob)  BY <1>1 DEF RowOK
      <3>3. Follows(jobs[j], GoneJob)  BY <1>1 DEF Follows
      <3>4. ~LlmRun(j)'  BY <1>1, <3>1 DEF LlmRun
      <3>5. QED  BY <1>1, <3>1, <3>2, <3>3, <3>4
    <2>3. CASE j \notin S
      <3>1. jobs'[j] = jobs[j]  BY <2>3 DEF Without
      <3>2. Follows(jobs[j], jobs'[j])  BY <2>1, <3>1, SameFollows
      <3>3. QED  BY <2>1, <3>1, <3>2 DEF LlmRun
    <2>4. QED  BY <2>2, <2>3
  <1>3. jobs' \in [JobIds -> JobRow]
    <2>1. \A j \in JobIds : jobs'[j] \in JobRow  BY <1>2
    <2>2. QED  BY <2>1 DEF Without
  <1>4. JobsMove  BY <1>2, <1>3, JobsPointwise
  <1>5. QED  BY <1>2, <1>4

\* Queued and running jobs of a book are cancelled, and a new one is added.
LEMMA JobsAdd ==
  ASSUME JobsOK, NEW S \in SUBSET JobIds, \A j \in S : Row(j), NEW type \in {"ocr", "llm"},
         AddsJob(Cancelled(jobs, S), type)
  PROVE  JobsMove /\ \A j \in JobIds : LlmRun(j)' => LlmRun(j)
  <1> DEFINE js == Cancelled(jobs, S)
             r == Job(type, "queued", 0, NoTask)
  <1>1. PICK k \in JobIds : Unused(k) /\ jobs' = [js EXCEPT ![k] = r]  BY DEF AddsJob
  <1>2. r \in JobRow /\ r.type = type /\ r.status = "queued" /\ r.task = 0
        BY DEF Job, JobRow, JobStatus, NoTask
  <1> HIDE DEF r
  <1>3. jobs[k].type = "none"  BY <1>1 DEF Unused, NoJob, Job
  <1>4. jobs' = [j \in JobIds |-> IF j = k THEN r ELSE js[j]]  BY <1>1 DEF Cancelled
  <1>5. ASSUME NEW j \in JobIds
        PROVE  /\ jobs'[j] \in JobRow /\ RowOK(j, jobs'[j]) /\ Follows(jobs[j], jobs'[j])
               /\ LlmRun(j)' => LlmRun(j)
    <2>1. jobs[j] \in JobRow /\ RowOK(j, jobs[j])  BY DEF JobsOK
    <2>2. CASE j = k
      <3>1. jobs'[j] = r  BY <1>4, <2>2
      <3>2. RowOK(j, r)  BY <1>2 DEF RowOK
      <3>3. Follows(jobs[j], r)  BY <1>2, <1>3, <2>2 DEF Follows
      <3>4. ~LlmRun(j)'  BY <1>2, <3>1 DEF LlmRun
      <3>5. QED  BY <1>2, <3>1, <3>2, <3>3, <3>4
    <2>3. CASE j # k /\ j \in S
      <3> DEFINE c == [jobs[j] EXCEPT !.status = "cancelled"]
      <3>1. /\ c \in JobRow /\ c.type = jobs[j].type /\ c.status = "cancelled"
            /\ c.progress = jobs[j].progress /\ c.task = jobs[j].task
            BY <2>1, RowStatus DEF JobStatus
      <3>2. jobs'[j] = c  BY <1>4, <2>3 DEF Cancelled
      <3> HIDE DEF c
      <3>3. RowOK(j, c)  BY <2>1, <2>3, <3>1 DEF RowOK, Row
      <3>4. jobs[j].progress \in 0..100  BY <2>1 DEF JobRow
      <3>5. Follows(jobs[j], c)  BY <3>1, <3>4 DEF Follows
      <3>6. ~LlmRun(j)'  BY <3>1, <3>2 DEF LlmRun
      <3>7. QED  BY <3>1, <3>2, <3>3, <3>5, <3>6
    <2>4. CASE j # k /\ j \notin S
      <3>1. jobs'[j] = jobs[j]  BY <1>4, <2>4 DEF Cancelled
      <3>2. Follows(jobs[j], jobs'[j])  BY <2>1, <3>1, SameFollows
      <3>3. QED  BY <2>1, <3>1, <3>2 DEF LlmRun
    <2>5. QED  BY <2>2, <2>3, <2>4
  <1>6. jobs' \in [JobIds -> JobRow]
    <2>1. \A j \in JobIds : jobs'[j] \in JobRow  BY <1>5
    <2>2. QED  BY <1>4, <2>1
  <1>7. JobsMove  BY <1>5, <1>6, JobsPointwise
  <1>8. QED  BY <1>5, <1>7

LEMMA NoneCancelled == ASSUME JobsOK PROVE Cancelled(jobs, {}) = jobs
  BY DEF Cancelled, JobsOK

LEMMA MoveNeverBack == ASSUME JobsMove PROVE NeverBack
  BY DEF JobsMove, NeverBack, Follows
-----------------------------------------------------------------------------
(* What a step of a worker does to it: it keeps its message, and inside a  *)
(* loop there is something left to do.                                     *)
StepOf(w, pc) ==
  \E r \in WorkerRow :
    /\ r.pc = pc /\ r.msg = Msg(w)
    /\ pc \in InLoop => r.done < r.total
    /\ worker' = [worker EXCEPT ![w] = r]

LEMMA GotoStep ==
  ASSUME WorkersOK, NEW w \in Workers, NEW pc \in PCs,
         pc \in InLoop => worker[w].pc \in InLoop, Goto(w, pc)
  PROVE  StepOf(w, pc)
  <1> DEFINE r == [worker[w] EXCEPT !.pc = pc]
  <1>1. worker[w] \in WorkerRow  BY DEF WorkersOK
  <1>2. /\ r \in WorkerRow /\ r.pc = pc /\ r.msg = Msg(w)
        /\ r.done = worker[w].done /\ r.total = worker[w].total
        BY <1>1 DEF WorkerRow, Msg
  <1>3. worker' = [worker EXCEPT ![w] = r]  BY DEF Goto
  <1> HIDE DEF r
  <1>4. pc \in InLoop => r.done < r.total  BY <1>2 DEF WorkersOK
  <1>5. QED  BY <1>2, <1>3, <1>4 DEF StepOf

LEMMA LoopStep ==
  ASSUME WorkersOK, NEW w \in Workers, NEW pc \in PCs, NEW S \in SUBSET Nat,
         IsFiniteSet(S), S # {},
         worker' = [worker EXCEPT ![w].todo = S, ![w].total = Cardinality(S), ![w].done = 0,
                                  ![w].pc = pc]
  PROVE  StepOf(w, pc)
  <1> DEFINE r == [worker[w] EXCEPT !.todo = S, !.total = Cardinality(S), !.done = 0, !.pc = pc]
  <1>1. worker[w] \in WorkerRow  BY DEF WorkersOK
  <1>2. Cardinality(S) \in Nat /\ Cardinality(S) # 0
        BY FS_CardinalityType, FS_EmptySet
  <1>3. /\ r \in WorkerRow /\ r.pc = pc /\ r.msg = Msg(w)
        /\ r.done = 0 /\ r.total = Cardinality(S)
        BY <1>1, <1>2 DEF WorkerRow, Msg
  <1>4. worker' = [worker EXCEPT ![w] = r]  BY DEF WorkersOK
  <1> HIDE DEF r
  <1>5. r.done < r.total  BY <1>2, <1>3
  <1>6. QED  BY <1>3, <1>4, <1>5 DEF StepOf

LEMMA AdvanceStep ==
  ASSUME WorkersOK, NEW w \in Workers, worker[w].pc \in InLoop,
         NEW again \in PCs, NEW after \in PCs \ InLoop, Advance(w, again, after)
  PROVE  StepOf(w, again) \/ StepOf(w, after)
  <1> DEFINE t == worker[w].todo \ {Next1(w)}
             d == worker[w].done + 1
             pc == IF d = worker[w].total THEN after ELSE again
             r == [worker[w] EXCEPT !.todo = t, !.done = d, !.pc = pc]
  <1>1. worker[w] \in WorkerRow /\ worker[w].done < worker[w].total  BY DEF WorkersOK
  <1>2. worker[w].todo \in SUBSET Nat /\ worker[w].done \in Nat /\ worker[w].total \in Nat
        BY <1>1 DEF WorkerRow
  <1>3. t \in SUBSET Nat /\ d \in Nat /\ pc \in PCs  BY <1>2
  <1>4. worker' = [worker EXCEPT ![w] = r]  BY DEF Advance, WorkersOK
  <1>5. pc # after => d < worker[w].total  BY <1>1, <1>2
  <1>6. pc \in {again, after}  OBVIOUS
  <1> HIDE DEF t, d, pc
  <1>7. /\ r \in WorkerRow /\ r.pc = pc /\ r.msg = Msg(w)
        /\ r.done = d /\ r.total = worker[w].total
        BY <1>1, <1>3 DEF WorkerRow, Msg
  <1> HIDE DEF r
  <1>8. pc \in InLoop => r.done < r.total  BY <1>5, <1>7
  <1>9. StepOf(w, pc)  BY <1>4, <1>7, <1>8 DEF StepOf
  <1>10. QED  BY <1>6, <1>9

LEMMA PercentOK ==
  ASSUME WorkersOK, NEW w \in Workers, worker[w].pc \in InLoop
  PROVE  Percent(w) \in 0..100
  <1> DEFINE d == worker[w].done
             t == worker[w].total
  <1>1. d \in Nat /\ t \in Nat /\ d < t  BY DEF WorkersOK, WorkerRow
  <1> HIDE DEF d, t
  <1>2. t > 0 /\ 0 <= 100 * (d + 1) /\ 100 * (d + 1) <= 100 * t  BY <1>1
  <1>3. ASSUME NEW x \in Nat, x <= 100 * t  PROVE x \div t \in 0..100
        BY <1>1, <1>2, <1>3
  <1>4. (100 * (d + 1)) \div t \in 0..100  BY <1>1, <1>2, <1>3
  <1>5. QED  BY <1>4 DEF Percent, d, t
-----------------------------------------------------------------------------
(* How a step keeps the invariant, by what it does to the messages. *)
LeftKept ==
  LeftOK' /\ left'.timeout = left.timeout /\ left'.handler <= left.handler
Undisturbed == left.timeout = MaxTimeouts /\ left.handler = MaxHandlerFaults

LEMMA WasUndisturbed ==
  ASSUME IInv, LeftKept, Undisturbed'
  PROVE  Undisturbed
  <1>1. /\ left'.timeout = left.timeout /\ left'.timeout = MaxTimeouts
        /\ left'.handler <= left.handler /\ left'.handler = MaxHandlerFaults
        BY DEF LeftKept, Undisturbed
  <1>2. left.handler \in Nat /\ left.handler <= MaxHandlerFaults
        BY DEF IInv, Typed, LeftOK, Delivered
  <1>3. MaxHandlerFaults \in Nat  BY BoundsAssumption
  <1>4. left.handler = MaxHandlerFaults  BY <1>1, <1>2, <1>3
  <1>5. QED  BY <1>1, <1>4 DEF Undisturbed

LEMMA DeliveredKept ==
  ASSUME IInv, LeftKept, OneCopy => OneCopy'
  PROVE  Delivered'
  <1>1. /\ left.timeout <= MaxTimeouts /\ left.handler <= MaxHandlerFaults
        /\ left'.timeout = left.timeout /\ left'.handler <= left.handler
        BY DEF IInv, Delivered, LeftKept
  <1>2. left.handler \in Nat /\ left'.handler \in Nat /\ MaxHandlerFaults \in Nat
        BY BoundsAssumption DEF IInv, Typed, LeftOK, LeftKept
  <1>3. left'.handler <= MaxHandlerFaults  BY <1>1, <1>2
  <1>4. QED  BY <1>1, <1>3 DEF IInv, Delivered

LEMMA MsgKeeps ==
  ASSUME IInv, JobsMove, sent' \in Nat, sent' >= sent
  PROVE  \A m \in Messages : MsgOK(m) => MsgOK(m)'
  <1> SUFFICES ASSUME NEW m \in Messages, MsgOK(m)  PROVE MsgOK(m)'
      OBVIOUS
  <1>1. m.job \in JobIds  BY DEF Messages
  <1>2. sent \in Nat  BY DEF IInv, Typed, BrokerOK
  <1>3. Follows(jobs[m.job], jobs'[m.job])  BY <1>1 DEF JobsMove
  <1>4. jobs'[m.job].type \in {IF m.task = "llm" THEN "llm" ELSE "ocr", "gone"}
        BY <1>3 DEF Follows, MsgOK
  <1>5. m.id \in 1..sent'  BY <1>2 DEF MsgOK
  <1>6. QED  BY <1>4, <1>5 DEF MsgOK

LEMMA MsgTyped ==
  ASSUME IInv
  PROVE  /\ \A w \in Workers : Msg(w) \in Messages /\ JobOf(w) \in JobIds /\ worker[w] \in WorkerRow
         /\ queue \subseteq Messages /\ unacked \subseteq Messages
  <1>1. \A w \in Workers : worker[w] \in WorkerRow  BY DEF IInv, Typed, WorkersOK
  <1>2. \A w \in Workers : worker[w].msg \in Messages  BY <1>1 DEF WorkerRow
  <1>3. \A w \in Workers : worker[w].msg.job \in JobIds  BY <1>2 DEF Messages
  <1>4. QED  BY <1>1, <1>2, <1>3 DEF IInv, Typed, BrokerOK, Msg, JobOf

\* The worker goes on with its message.
LEMMA StepKeeps ==
  ASSUME IInv, NEW w \in Workers, Busy(w), NEW pc \in PCsOf(Msg(w).task), StepOf(w, pc),
         UNCHANGED <<queue, unacked, sent, req>>, BookOK', LeftKept, JobsMove,
         \A j \in JobIds : LlmRun(j)' => LlmRun(j) \/ j = JobOf(w),
         pc = "ack" /\ Undisturbed' => ~LlmRun(JobOf(w))'
  PROVE  Good
  <1> USE DEF Msg, JobOf
  <1>1. PICK r \in WorkerRow :
          /\ r.pc = pc /\ r.msg = Msg(w)
          /\ pc \in InLoop => r.done < r.total
          /\ worker' = [worker EXCEPT ![w] = r]
        BY DEF StepOf
  <1>2. worker \in [Workers -> WorkerRow]  BY DEF IInv, Typed, WorkersOK
  <1>3. /\ worker' \in [Workers -> WorkerRow] /\ worker'[w] = r
        /\ \A v \in Workers \ {w} : worker'[v] = worker[v]
        BY <1>1, <1>2
  <1>4. pc # "idle"  BY DEF PCsOf, PrepPCs, OcrPCs, LlmPCs
  <1>5. \A v \in Workers : (Busy(v)' <=> Busy(v)) /\ worker'[v].msg = worker[v].msg
        BY <1>1, <1>3, <1>4 DEF Busy
  <1>6. WorkersOK'
    <2>1. \A v \in Workers : worker[v].pc \in InLoop => worker[v].done < worker[v].total
          BY DEF IInv, Typed, WorkersOK
    <2>2. \A v \in Workers : worker'[v].pc \in InLoop => worker'[v].done < worker'[v].total
          BY <1>1, <1>3, <2>1
    <2>3. QED  BY <1>3, <2>2 DEF WorkersOK
  <1>7. Typed'
    <2>1. BrokerOK' /\ ReqOK'  BY DEF IInv, Typed, BrokerOK, ReqOK
    <2>2. QED  BY <1>6, <2>1 DEF Typed, LeftKept, JobsMove
  <1>8. Routed'
    <2>1. sent \in Nat /\ sent' = sent  BY DEF IInv, Typed, BrokerOK
    <2>2. \A m \in Messages : MsgOK(m) => MsgOK(m)'  BY <2>1, MsgKeeps
    <2>3. \A m \in (queue \cup unacked)' : MsgOK(m)'  BY <2>2, MsgTyped DEF IInv, Routed
    <2>4. ASSUME NEW v \in Workers, Busy(v)'
          PROVE  MsgOK(Msg(v))' /\ worker'[v].pc \in PCsOf(Msg(v).task)'
      <3>1. worker[v].msg \in Messages  BY MsgTyped
      <3>2. MsgOK(worker[v].msg) /\ worker[v].pc \in PCsOf(worker[v].msg.task)
            BY <1>5, <2>4 DEF IInv, Routed
      <3>3. MsgOK(Msg(v))'  BY <1>5, <2>2, <3>1, <3>2
      <3>4. worker'[v].pc \in PCsOf(worker[v].msg.task)  BY <1>1, <1>3, <3>2
      <3>5. QED  BY <1>5, <3>3, <3>4
    <2>5. QED  BY <2>3, <2>4 DEF Routed
  <1>9. Delivered'
    <2>1. OneCopy => OneCopy'  BY <1>5 DEF OneCopy
    <2>2. QED  BY <2>1, DeliveredKept
  <1>10. RunningLlmJobCarried'
    <2> SUFFICES ASSUME Undisturbed', NEW j \in JobIds, LlmRun(j)'
                 PROVE  Carried(j)'
        BY DEF RunningLlmJobCarried, LlmRun, Undisturbed
    <2>1. CASE j = JobOf(w)
      <3>1. worker'[w].pc # "idle" /\ worker'[w].pc # "ack" /\ worker'[w].msg.job = j
            BY <1>1, <1>3, <1>4, <2>1
      <3>2. QED  BY <3>1 DEF Carried, At
    <2>2. CASE j # JobOf(w)
      <3>1. Carried(j)
            BY <2>2, WasUndisturbed DEF IInv, RunningLlmJobCarried, Undisturbed, LlmRun
      <3>2. CASE \E m \in queue : m.job = j  BY <3>2 DEF Carried
      <3>3. CASE \E v \in Workers : ~At(v, "idle") /\ ~At(v, "ack") /\ JobOf(v) = j
        <4>1. PICK v \in Workers : ~At(v, "idle") /\ ~At(v, "ack") /\ JobOf(v) = j  BY <3>3
        <4>2. v # w  BY <2>2, <4>1
        <4>3. worker'[v] = worker[v]  BY <1>3, <4>2
        <4>4. QED  BY <4>1, <4>3 DEF Carried, At
      <3>4. QED  BY <3>1, <3>2, <3>3 DEF Carried
    <2>3. QED  BY <2>1, <2>2
  <1>11. QED  BY <1>7, <1>8, <1>9, <1>10, MoveNeverBack DEF Good, IInv

\* A request reads or commits.
LEMMA RequestKeeps ==
  ASSUME IInv, UNCHANGED <<queue, unacked, sent, worker>>, BookOK', ReqOK', LeftKept, JobsMove,
         \A j \in JobIds : LlmRun(j)' => LlmRun(j)
  PROVE  Good
  <1> USE DEF Msg, JobOf
  <1>1. Typed'
    <2>1. BrokerOK' /\ WorkersOK'  BY DEF IInv, Typed, BrokerOK, WorkersOK
    <2>2. QED  BY <2>1 DEF Typed, LeftKept, JobsMove
  <1>2. Routed'
    <2>1. sent \in Nat /\ sent' = sent  BY DEF IInv, Typed, BrokerOK
    <2>2. \A m \in Messages : MsgOK(m) => MsgOK(m)'  BY <2>1, MsgKeeps
    <2>3. \A m \in (queue \cup unacked)' : MsgOK(m)'  BY <2>2, MsgTyped DEF IInv, Routed
    <2>4. ASSUME NEW v \in Workers, Busy(v)'
          PROVE  MsgOK(Msg(v))' /\ worker'[v].pc \in PCsOf(Msg(v).task)'
      <3>1. worker[v].msg \in Messages  BY MsgTyped
      <3>2. MsgOK(worker[v].msg) /\ worker[v].pc \in PCsOf(worker[v].msg.task)
            BY <2>4 DEF IInv, Routed, Busy
      <3>3. QED  BY <2>2, <3>1, <3>2
    <2>5. QED  BY <2>3, <2>4 DEF Routed
  <1>3. Delivered'
    <2>1. OneCopy => OneCopy'  BY DEF OneCopy, Busy
    <2>2. QED  BY <2>1, DeliveredKept
  <1>4. RunningLlmJobCarried'
    <2> SUFFICES ASSUME Undisturbed', NEW j \in JobIds, LlmRun(j)'
                 PROVE  Carried(j)'
        BY DEF RunningLlmJobCarried, LlmRun, Undisturbed
    <2>1. Carried(j)
          BY WasUndisturbed DEF IInv, RunningLlmJobCarried, Undisturbed, LlmRun
    <2>2. QED  BY <2>1 DEF Carried, At
  <1>5. QED  BY <1>1, <1>2, <1>3, <1>4, MoveNeverBack DEF Good, IInv

LEMMA IdleRow ==
  /\ Idle \in WorkerRow /\ Idle.pc = "idle" /\ Idle.msg = NoMessage
  /\ NoMessage \in Messages
  BY Ids DEF Idle, WorkerRow, NoMessage, Message, Messages, PCs

\* The worker is done with its message; the same message may wait again.
LEMMA LeaveKeeps ==
  ASSUME IInv, NEW w \in Workers, Busy(w),
         NEW Q \in SUBSET Messages,
         \A n \in Q : n.id = Msg(w).id /\ n.task = Msg(w).task /\ n.job = Msg(w).job,
         \A m, n \in Q : m = n,
         OneCopy /\ Q = {} => worker[w].pc = "ack" \/ ~LlmRun(JobOf(w)),
         queue' = queue \cup Q, unacked' = unacked \ {Msg(w)},
         worker' = [worker EXCEPT ![w] = Idle],
         UNCHANGED <<data, sent, born, req>>, LeftKept
  PROVE  Good
  <1> USE DEF Msg, JobOf
  <1>1. worker \in [Workers -> WorkerRow]  BY DEF IInv, Typed, WorkersOK
  <1>2. /\ worker' \in [Workers -> WorkerRow] /\ worker'[w] = Idle
        /\ \A v \in Workers \ {w} : worker'[v] = worker[v]
        BY <1>1, IdleRow
  <1>3. ~Busy(w)' /\ \A v \in Workers : Busy(v)' => Busy(v) /\ v # w /\ worker'[v] = worker[v]
        BY <1>2, IdleRow DEF Busy
  <1>4. JobsMove /\ \A j \in JobIds : LlmRun(j)' <=> LlmRun(j)
        BY JobsSame DEF IInv, Typed, data, LlmRun
  <1>5. Typed'
    <2>1. \A v \in Workers : worker[v].pc \in InLoop => worker[v].done < worker[v].total
          BY DEF IInv, Typed, WorkersOK
    <2>2. \A v \in Workers : worker'[v].pc \in InLoop => worker'[v].done < worker'[v].total
          BY <1>2, <2>1, IdleRow DEF InLoop
    <2>3. WorkersOK'  BY <1>2, <2>2 DEF WorkersOK
    <2>4. BrokerOK'  BY DEF IInv, Typed, BrokerOK
    <2>5. BookOK' /\ ReqOK'  BY DEF IInv, Typed, BookOK, ReqOK, data
    <2>6. QED  BY <1>4, <2>3, <2>4, <2>5 DEF Typed, LeftKept, JobsMove
  <1>6. MsgOK(Msg(w)) /\ worker[w].msg \in Messages  BY MsgTyped DEF IInv, Routed
  <1>7. Routed'
    <2>1. sent \in Nat /\ sent' = sent  BY DEF IInv, Typed, BrokerOK
    <2>2. \A m \in Messages : MsgOK(m) => MsgOK(m)'  BY <1>4, <2>1, MsgKeeps
    <2>3. \A n \in Q : MsgOK(n)  BY <1>6 DEF MsgOK
    <2>4. \A m \in (queue \cup unacked)' : MsgOK(m) /\ m \in Messages
          BY <2>3, MsgTyped DEF IInv, Routed
    <2>5. ASSUME NEW v \in Workers, Busy(v)'
          PROVE  MsgOK(Msg(v))' /\ worker'[v].pc \in PCsOf(Msg(v).task)'
      <3>1. worker[v].msg \in Messages  BY MsgTyped
      <3>2. MsgOK(worker[v].msg) /\ worker[v].pc \in PCsOf(worker[v].msg.task)
            BY <1>3, <2>5 DEF IInv, Routed
      <3>3. QED  BY <1>3, <2>2, <2>5, <3>1, <3>2
    <2>6. QED  BY <2>2, <2>4, <2>5 DEF Routed
  <1>8. OneCopy => OneCopy'
    <2> SUFFICES ASSUME OneCopy  PROVE OneCopy'
        OBVIOUS
    <2>1. \A m \in queue \cup unacked : m.id = worker[w].msg.id => m = worker[w].msg
          BY DEF OneCopy
    <2>2. worker[w].msg \notin queue  BY DEF OneCopy
    <2>3. \A m, n \in (queue \cup unacked)' : m.id = n.id => m = n
          BY <2>1, <2>2 DEF OneCopy
    <2>4. (queue \cap unacked)' = {}  BY <2>1, <2>2 DEF OneCopy
    <2>5. \A v \in Workers : Busy(v)' => worker'[v].msg \in unacked'
          BY <1>3 DEF OneCopy
    <2>6. \A v, u \in Workers : Busy(v)' /\ Busy(u)' /\ worker'[v].msg.id = worker'[u].msg.id
            => v = u
          BY <1>3 DEF OneCopy
    <2>7. QED  BY <2>3, <2>4, <2>5, <2>6 DEF OneCopy
  <1>9. Delivered'  BY <1>8, DeliveredKept
  <1>10. RunningLlmJobCarried'
    <2> SUFFICES ASSUME Undisturbed', NEW j \in JobIds, LlmRun(j)'
                 PROVE  Carried(j)'
        BY DEF RunningLlmJobCarried, LlmRun, Undisturbed
    <2>1. LlmRun(j) /\ Carried(j) /\ OneCopy
          BY <1>4, WasUndisturbed
          DEF IInv, RunningLlmJobCarried, Undisturbed, LlmRun, Delivered
    <2>2. CASE \E m \in queue : m.job = j  BY <2>2 DEF Carried
    <2>3. CASE \E v \in Workers : ~At(v, "idle") /\ ~At(v, "ack") /\ JobOf(v) = j
      <3>1. PICK v \in Workers : ~At(v, "idle") /\ ~At(v, "ack") /\ JobOf(v) = j  BY <2>3
      <3>2. CASE v = w
        <4>1. Q # {}  BY <2>1, <3>1, <3>2 DEF At
        <4>2. QED  BY <3>1, <3>2, <4>1 DEF Carried
      <3>3. CASE v # w
        <4>1. worker'[v] = worker[v]  BY <1>2, <3>3
        <4>2. QED  BY <3>1, <4>1 DEF Carried, At
      <3>4. QED  BY <3>2, <3>3
    <2>4. QED  BY <2>1, <2>2, <2>3 DEF Carried
  <1>11. QED  BY <1>4, <1>5, <1>7, <1>9, <1>10, MoveNeverBack DEF Good, IInv

LEMMA DataSame ==
  ASSUME IInv, UNCHANGED <<data, sent>>
  PROVE  /\ JobsMove /\ \A j \in JobIds : LlmRun(j)' => LlmRun(j)
         /\ \A m \in Messages : MsgOK(m) => MsgOK(m)'
  <1>1. JobsMove /\ \A j \in JobIds : LlmRun(j)' => LlmRun(j)
        BY JobsSame DEF IInv, Typed, data
  <1>2. sent \in Nat /\ sent' = sent  BY DEF IInv, Typed, BrokerOK
  <1>3. QED  BY <1>1, <1>2, MsgKeeps

LEMMA TakeKeeps ==
  ASSUME IInv, NEW w \in Workers, Take(w)
  PROVE  Good
  <1> USE DEF Msg, JobOf
  <1>1. PICK m \in queue :
          /\ queue' = queue \ {m} /\ unacked' = unacked \cup {m}
          /\ worker' = [worker EXCEPT ![w] = [Idle EXCEPT !.pc = m.task, !.msg = m]]
        BY DEF Take
  <1> DEFINE r == [Idle EXCEPT !.pc = m.task, !.msg = m]
  <1>2. m \in Messages /\ MsgOK(m) /\ m.task \in {"prep", "ocr", "llm"}
        BY MsgTyped DEF IInv, Routed, MsgOK
  <1>3. r \in WorkerRow /\ r.pc = m.task /\ r.msg = m
        BY <1>2, IdleRow DEF WorkerRow, PCs, Idle
  <1>4. worker' = [worker EXCEPT ![w] = r]  BY <1>1
  <1> HIDE DEF r
  <1>5. worker \in [Workers -> WorkerRow]  BY DEF IInv, Typed, WorkersOK
  <1>6. /\ worker' \in [Workers -> WorkerRow] /\ worker'[w] = r
        /\ \A v \in Workers \ {w} : worker'[v] = worker[v]
        BY <1>3, <1>4, <1>5
  <1>7. ~Busy(w)  BY DEF Take, At, Busy
  <1>8. UNCHANGED <<data, sent, born, req, left>>  BY DEF Take
  <1>9. /\ JobsMove /\ \A j \in JobIds : LlmRun(j)' => LlmRun(j)
        /\ \A n \in Messages : MsgOK(n) => MsgOK(n)'
        BY <1>8, DataSame
  <1>10. Typed'
    <2>1. \A v \in Workers : worker[v].pc \in InLoop => worker[v].done < worker[v].total
          BY DEF IInv, Typed, WorkersOK
    <2>2. \A v \in Workers : worker'[v].pc \in InLoop => worker'[v].done < worker'[v].total
          BY <1>2, <1>3, <1>6, <2>1 DEF InLoop
    <2>3. WorkersOK'  BY <1>6, <2>2 DEF WorkersOK
    <2>4. BrokerOK'  BY <1>1, <1>2, <1>8 DEF IInv, Typed, BrokerOK
    <2>5. BookOK' /\ ReqOK' /\ LeftOK'
          BY <1>8 DEF IInv, Typed, BookOK, ReqOK, LeftOK, data
    <2>6. QED  BY <1>9, <2>3, <2>4, <2>5 DEF Typed, JobsMove
  <1>11. Routed'
    <2>1. \A n \in (queue \cup unacked)' : MsgOK(n)'
          BY <1>1, <1>9, MsgTyped DEF IInv, Routed
    <2>2. ASSUME NEW v \in Workers, Busy(v)'
          PROVE  MsgOK(Msg(v))' /\ worker'[v].pc \in PCsOf(Msg(v).task)'
      <3>1. CASE v = w
        <4>1. worker'[v].msg = m /\ worker'[v].pc = m.task  BY <1>3, <1>6, <3>1
        <4>2. m.task \in PCsOf(m.task)  BY <1>2 DEF PCsOf, PrepPCs, OcrPCs, LlmPCs
        <4>3. QED  BY <1>2, <1>9, <4>1, <4>2
      <3>2. CASE v # w
        <4>1. worker'[v] = worker[v] /\ worker[v].msg \in Messages  BY <1>6, <3>2, MsgTyped
        <4>2. MsgOK(worker[v].msg) /\ worker[v].pc \in PCsOf(worker[v].msg.task)
              BY <2>2, <4>1 DEF IInv, Routed, Busy
        <4>3. QED  BY <1>9, <4>1, <4>2
      <3>3. QED  BY <3>1, <3>2
    <2>3. QED  BY <2>1, <2>2 DEF Routed
  <1>12. Delivered'
    <2> SUFFICES ASSUME OneCopy  PROVE OneCopy'
        BY <1>8 DEF IInv, Delivered
    <2>1. \A k, n \in (queue \cup unacked)' : k.id = n.id => k = n  BY <1>1 DEF OneCopy
    <2>2. (queue \cap unacked)' = {}  BY <1>1 DEF OneCopy
    <2>3. \A v \in Workers : v # w /\ Busy(v)' => Busy(v) /\ worker'[v] = worker[v]
          BY <1>6 DEF Busy
    <2>4. \A v \in Workers : Busy(v)' => worker'[v].msg \in unacked'
          BY <1>1, <1>3, <1>6, <2>3 DEF OneCopy
    <2>5. \A v \in Workers : v # w /\ Busy(v)' => worker'[v].msg.id # m.id
          BY <1>1, <2>3 DEF OneCopy
    <2>6. \A v, u \in Workers : Busy(v)' /\ Busy(u)' /\ worker'[v].msg.id = worker'[u].msg.id
            => v = u
          BY <1>3, <1>6, <2>3, <2>5 DEF OneCopy
    <2>7. QED  BY <2>1, <2>2, <2>4, <2>6 DEF OneCopy
  <1>13. RunningLlmJobCarried'
    <2> SUFFICES ASSUME Undisturbed', NEW j \in JobIds, LlmRun(j)'
                 PROVE  Carried(j)'
        BY DEF RunningLlmJobCarried, LlmRun, Undisturbed
    <2>1. Carried(j)  BY <1>8, <1>9 DEF IInv, RunningLlmJobCarried, Undisturbed, LlmRun
    <2>2. CASE m.job = j
      <3>1. worker'[w].pc \notin {"idle", "ack"} /\ worker'[w].msg.job = j
            BY <1>2, <1>3, <1>6, <2>2
      <3>2. QED  BY <3>1 DEF Carried, At
    <2>3. CASE m.job # j /\ \E n \in queue : n.job = j  BY <1>1, <2>3 DEF Carried
    <2>4. CASE \E v \in Workers : ~At(v, "idle") /\ ~At(v, "ack") /\ JobOf(v) = j
      <3>1. PICK v \in Workers : ~At(v, "idle") /\ ~At(v, "ack") /\ JobOf(v) = j  BY <2>4
      <3>2. worker'[v] = worker[v]  BY <1>6, <1>7, <3>1 DEF Busy, At
      <3>3. QED  BY <3>1, <3>2 DEF Carried, At
    <2>5. QED  BY <2>1, <2>2, <2>3, <2>4 DEF Carried
  <1>14. QED  BY <1>9, <1>10, <1>11, <1>12, <1>13, MoveNeverBack DEF Good, IInv

LEMMA SpendSame ==
  ASSUME IInv, NEW what \in {"request", "crash", "fault", "handler"}, Spend(what)
  PROVE  LeftKept /\ left'[what] < left[what]
  <1>1. left'[what] = left[what] - 1 /\ left[what] \in Nat /\ left[what] > 0
        BY DEF IInv, Typed, LeftOK, Spend
  <1>2. LeftKept  BY DEF IInv, Typed, LeftOK, Spend, LeftKept
  <1>3. QED  BY <1>1, <1>2

LEMMA LeftUnchanged == ASSUME IInv, UNCHANGED left PROVE LeftKept
  BY DEF IInv, Typed, LeftOK, LeftKept

\* From here on a message may be worked on twice: Delivered asks no more.
LEMMA TimeoutKeeps ==
  ASSUME IInv, VisibilityTimeout
  PROVE  Good
  <1> USE DEF Msg, JobOf
  <1>1. PICK m \in unacked :
          /\ Spend("timeout") /\ queue' = queue \cup {m} /\ unacked' = unacked \ {m}
          /\ UNCHANGED <<data, sent, born, worker, req>>
        BY DEF VisibilityTimeout
  <1>2. LeftOK' /\ left'.timeout < MaxTimeouts
    <2>1. LeftOK /\ left.timeout <= MaxTimeouts  BY DEF IInv, Typed, Delivered
    <2>2. LeftOK' /\ left'.timeout = left.timeout - 1  BY <1>1, <2>1 DEF LeftOK, Spend
    <2>3. left.timeout \in Nat /\ MaxTimeouts \in Nat  BY <2>1, BoundsAssumption DEF LeftOK
    <2>4. QED  BY <2>1, <2>2, <2>3
  <1>3. /\ left'.timeout <= MaxTimeouts /\ left'.timeout # MaxTimeouts
        /\ left'.handler <= MaxHandlerFaults
    <2>1. left'.timeout \in Nat /\ MaxTimeouts \in Nat  BY <1>2, BoundsAssumption DEF LeftOK
    <2>2. left'.handler = left.handler /\ left.handler <= MaxHandlerFaults
          BY <1>1 DEF IInv, Typed, LeftOK, Spend, Delivered
    <2>3. QED  BY <1>2, <2>1, <2>2
  <1>4. /\ JobsMove /\ \A n \in Messages : MsgOK(n) => MsgOK(n)'
        BY <1>1, DataSame
  <1>5. Typed'
    <2>1. WorkersOK' /\ BrokerOK' /\ BookOK' /\ ReqOK'
          BY <1>1 DEF IInv, Typed, WorkersOK, BrokerOK, BookOK, ReqOK, data
    <2>2. QED  BY <1>2, <1>4, <2>1 DEF Typed, JobsMove
  <1>6. Routed'
    <2>1. \A n \in (queue \cup unacked)' : MsgOK(n)'
          BY <1>1, <1>4, MsgTyped DEF IInv, Routed
    <2>2. ASSUME NEW v \in Workers, Busy(v)'
          PROVE  MsgOK(Msg(v))' /\ worker'[v].pc \in PCsOf(Msg(v).task)'
      <3>1. worker'[v] = worker[v] /\ worker[v].msg \in Messages  BY <1>1, MsgTyped
      <3>2. MsgOK(worker[v].msg) /\ worker[v].pc \in PCsOf(worker[v].msg.task)
            BY <2>2, <3>1 DEF IInv, Routed, Busy
      <3>3. QED  BY <1>4, <3>1, <3>2
    <2>3. QED  BY <2>1, <2>2 DEF Routed
  <1>7. Delivered'  BY <1>3 DEF Delivered
  <1>8. RunningLlmJobCarried'  BY <1>3 DEF RunningLlmJobCarried
  <1>9. QED  BY <1>4, <1>5, <1>6, <1>7, <1>8, MoveNeverBack DEF Good, IInv

LEMMA DispatchKeeps ==
  ASSUME IInv, NEW w \in Workers, At(w, "prep_dispatch"), Dispatch(w)
  PROVE  Good
  <1> USE DEF Msg, JobOf
  <1>1. /\ At(w, "prep_dispatch")
        /\ sent' = sent + 1 /\ queue' = queue \cup {Message("ocr", JobOf(w), sent + 1, 0)}
        /\ Goto(w, "ack")
        /\ UNCHANGED <<data, unacked, born, req, left>>
        BY DEF Dispatch
  <1>2. sent \in Nat  BY DEF IInv, Typed, BrokerOK
  <1>3. PICK n \in Messages :
          /\ queue' = queue \cup {n}
          /\ n.id = sent + 1 /\ n.task = "ocr" /\ n.job = worker[w].msg.job
    <2> DEFINE x == Message("ocr", JobOf(w), sent + 1, 0)
    <2>1. x \in Messages /\ x.id = sent + 1 /\ x.task = "ocr" /\ x.job = worker[w].msg.job
          BY <1>2, MsgTyped DEF Message, Messages
    <2>2. queue' = queue \cup {x}  BY <1>1
    <2> HIDE DEF x
    <2>3. QED  BY <2>1, <2>2
  <1>4. worker \in [Workers -> WorkerRow]  BY DEF IInv, Typed, WorkersOK
  <1>5. StepOf(w, "ack")
        BY GotoStep, <1>1 DEF IInv, Typed, PCs, InLoop
  <1>6. PICK r \in WorkerRow :
          r.pc = "ack" /\ r.msg = worker[w].msg /\ worker' = [worker EXCEPT ![w] = r]
        BY <1>5 DEF StepOf
  <1>7. /\ worker' \in [Workers -> WorkerRow] /\ worker'[w] = r
        /\ \A v \in Workers \ {w} : worker'[v] = worker[v]
        BY <1>4, <1>6
  <1>8. Busy(w)  BY <1>1 DEF Busy, At
  <1>9. \A v \in Workers : (Busy(v)' <=> Busy(v)) /\ worker'[v].msg = worker[v].msg
        BY <1>6, <1>7, <1>8 DEF Busy
  <1>10. MsgOK(worker[w].msg) /\ worker[w].pc \in PCsOf(worker[w].msg.task)
         BY <1>8 DEF IInv, Routed
  <1>11. worker[w].msg.task = "prep"
         BY <1>1, <1>10 DEF At, PCsOf, OcrPCs, LlmPCs, MsgOK
  <1>12. JobsMove /\ \A j \in JobIds : LlmRun(j)' => LlmRun(j)
         BY <1>1, JobsSame DEF IInv, Typed, data
  <1>13. \A m \in Messages : MsgOK(m) => MsgOK(m)'  BY <1>1, <1>2, <1>12, MsgKeeps
  <1>14. ~LlmRun(JobOf(w))  BY <1>10, <1>11 DEF MsgOK, LlmRun
  <1>15. Typed'
    <2>1. \A v \in Workers : worker[v].pc \in InLoop => worker[v].done < worker[v].total
          BY DEF IInv, Typed, WorkersOK
    <2>2. \A v \in Workers : worker'[v].pc \in InLoop => worker'[v].done < worker'[v].total
          BY <1>6, <1>7, <2>1 DEF InLoop
    <2>3. WorkersOK'  BY <1>7, <2>2 DEF WorkersOK
    <2>4. BrokerOK'  BY <1>1, <1>2, <1>3 DEF IInv, Typed, BrokerOK
    <2>5. BookOK' /\ ReqOK' /\ LeftOK'
          BY <1>1 DEF IInv, Typed, BookOK, ReqOK, LeftOK, data
    <2>6. QED  BY <1>12, <2>3, <2>4, <2>5 DEF Typed, JobsMove
  <1>16. Routed'
    <2>1. MsgOK(n)'
      <3>1. jobs'[n.job].type \in {"ocr", "gone"}  BY <1>1, <1>3, <1>10, <1>11 DEF MsgOK, data
      <3>2. n.id \in 1..sent'  BY <1>1, <1>2, <1>3
      <3>3. QED  BY <1>3, <3>1, <3>2 DEF MsgOK
    <2>2. \A m \in (queue \cup unacked)' : MsgOK(m)'
          BY <1>1, <1>3, <1>13, <2>1, MsgTyped DEF IInv, Routed
    <2>3. ASSUME NEW v \in Workers, Busy(v)'
          PROVE  MsgOK(Msg(v))' /\ worker'[v].pc \in PCsOf(Msg(v).task)'
      <3>1. worker[v].msg \in Messages  BY MsgTyped
      <3>2. MsgOK(worker[v].msg) /\ worker[v].pc \in PCsOf(worker[v].msg.task)
            BY <1>9, <2>3 DEF IInv, Routed
      <3>3. "ack" \in PCsOf(worker[v].msg.task)  BY DEF PCsOf
      <3>4. worker'[v].pc \in PCsOf(worker[v].msg.task)  BY <1>6, <1>7, <3>2, <3>3
      <3>5. QED  BY <1>9, <1>13, <3>1, <3>2, <3>4
    <2>4. QED  BY <2>2, <2>3 DEF Routed
  <1>17. Delivered'
    <2> SUFFICES ASSUME OneCopy  PROVE OneCopy'
        BY <1>1 DEF IInv, Delivered
    <2>1. \A m \in queue \cup unacked : m.id # n.id
      <3>1. \A m \in queue \cup unacked : m.id \in 1..sent  BY DEF IInv, Routed, MsgOK
      <3>2. QED  BY <1>2, <1>3, <3>1
    <2>2. \A k, m \in (queue \cup unacked)' : k.id = m.id => k = m
          BY <1>1, <1>3, <2>1 DEF OneCopy
    <2>3. (queue \cap unacked)' = {}  BY <1>1, <1>3, <2>1 DEF OneCopy
    <2>4. QED  BY <1>1, <1>9, <2>2, <2>3 DEF OneCopy
  <1>18. RunningLlmJobCarried'
    <2> SUFFICES ASSUME Undisturbed', NEW j \in JobIds, LlmRun(j)'
                 PROVE  Carried(j)'
        BY DEF RunningLlmJobCarried, LlmRun, Undisturbed
    <2>1. LlmRun(j) /\ Carried(j)
          BY <1>1, <1>12 DEF IInv, RunningLlmJobCarried, Undisturbed, LlmRun
    <2>2. CASE \E m \in queue : m.job = j  BY <1>3, <2>2 DEF Carried
    <2>3. CASE \E v \in Workers : ~At(v, "idle") /\ ~At(v, "ack") /\ JobOf(v) = j
      <3>1. PICK v \in Workers : ~At(v, "idle") /\ ~At(v, "ack") /\ JobOf(v) = j  BY <2>3
      <3>2. v # w  BY <1>14, <2>1, <3>1
      <3>3. worker'[v] = worker[v]  BY <1>7, <3>2
      <3>4. QED  BY <3>1, <3>3 DEF Carried, At
    <2>4. QED  BY <2>1, <2>2, <2>3 DEF Carried
  <1>19. QED  BY <1>12, <1>15, <1>16, <1>17, <1>18, MoveNeverBack DEF Good, IInv
-----------------------------------------------------------------------------
(* The steps of the tasks. *)

\* What a worker's program point says of its message and its job.
LEMMA AtTask ==
  ASSUME IInv, NEW w \in Workers, Busy(w)
  PROVE  /\ JobOf(w) \in JobIds /\ JobsOK
         /\ Msg(w).task \in {"prep", "ocr", "llm"}
         /\ worker[w].pc \in PCsOf(Msg(w).task)
         /\ Msg(w).task = "llm" => Msg(w).id = 1 /\ JobOf(w) = 1
         /\ Msg(w).task # "llm" => jobs[JobOf(w)].type # "llm" /\ ~LlmRun(JobOf(w))
         /\ Msg(w).task = "llm" => jobs[JobOf(w)].type # "ocr"
         /\ Msg(w).id \in Nat
  <1>1. MsgOK(Msg(w)) /\ worker[w].pc \in PCsOf(Msg(w).task)  BY DEF IInv, Routed
  <1>2. JobOf(w) \in JobIds /\ JobsOK  BY MsgTyped DEF IInv, Typed
  <1>3. Msg(w).id \in Nat  BY MsgTyped DEF Messages
  <1>4. QED  BY <1>1, <1>2, <1>3 DEF MsgOK, LlmRun, Msg, JobOf

LEMMA TaskIs ==
  ASSUME IInv, NEW w \in Workers
  PROVE  /\ worker[w].pc \in PrepPCs => Busy(w) /\ Msg(w).task = "prep"
         /\ worker[w].pc \in OcrPCs => Busy(w) /\ Msg(w).task = "ocr"
         /\ worker[w].pc \in LlmPCs => Busy(w) /\ Msg(w).task = "llm"
  <1>1. worker[w].pc \in PrepPCs \cup OcrPCs \cup LlmPCs => Busy(w)
        BY DEF PrepPCs, OcrPCs, LlmPCs, Busy
  <1>2. QED  BY <1>1, AtTask DEF PCsOf, PrepPCs, OcrPCs, LlmPCs

\* A step that changes no table.
LEMMA LocalKeeps ==
  ASSUME IInv, NEW w \in Workers, Busy(w), NEW pc \in PCsOf(Msg(w).task), StepOf(w, pc),
         UNCHANGED <<data, broker, born, req>>, LeftKept,
         pc = "ack" /\ Undisturbed' => ~LlmRun(JobOf(w))
  PROVE  Good
  <1>1. JobsMove /\ \A j \in JobIds : LlmRun(j)' => LlmRun(j)
        BY JobsSame DEF IInv, Typed, data
  <1>2. BookOK'  BY DEF IInv, Typed, BookOK, data
  <1>3. pc = "ack" /\ Undisturbed' => ~LlmRun(JobOf(w))'
    <2>1. JobOf(w) \in JobIds  BY MsgTyped
    <2>2. StepOf(w, pc) => JobOf(w)' = JobOf(w)
      <3>1. worker \in [Workers -> WorkerRow]  BY DEF IInv, Typed, WorkersOK
      <3>2. QED  BY <3>1 DEF StepOf, JobOf, Msg
    <2>3. QED  BY <1>1, <2>1, <2>2 DEF LlmRun, data
  <1>4. QED  BY <1>1, <1>2, <1>3, StepKeeps DEF broker

LEMMA GotoKeeps ==
  ASSUME IInv, NEW w \in Workers, Busy(w), NEW pc \in PCsOf(Msg(w).task),
         pc \in InLoop => worker[w].pc \in InLoop, Goto(w, pc),
         UNCHANGED <<broker, req>>, BookOK', LeftKept, JobsMove,
         \A j \in JobIds : LlmRun(j)' => LlmRun(j) \/ j = JobOf(w),
         pc = "ack" /\ Undisturbed' => ~LlmRun(JobOf(w))'
  PROVE  Good
  <1>1. pc \in PCs  BY DEF PCsOf, PCs, PrepPCs, OcrPCs, LlmPCs
  <1>2. WorkersOK  BY DEF IInv, Typed
  <1>3. StepOf(w, pc)  BY <1>1, <1>2, GotoStep
  <1>4. QED  BY <1>3, StepKeeps DEF broker

LEMMA GotoLocalKeeps ==
  ASSUME IInv, NEW w \in Workers, Busy(w), NEW pc \in PCsOf(Msg(w).task),
         pc \in InLoop => worker[w].pc \in InLoop, Goto(w, pc),
         UNCHANGED <<data, broker, born, req>>, LeftKept,
         pc = "ack" /\ Undisturbed' => ~LlmRun(JobOf(w))
  PROVE  Good
  <1>1. pc \in PCs  BY DEF PCsOf, PCs, PrepPCs, OcrPCs, LlmPCs
  <1>2. WorkersOK  BY DEF IInv, Typed
  <1>3. StepOf(w, pc)  BY <1>1, <1>2, GotoStep
  <1>4. QED  BY <1>3, LocalKeeps

LEMMA RetryKeeps ==
  ASSUME IInv, NEW w \in Workers, Busy(w), Retry(w), LeftKept
  PROVE  Good
  <1>1. CASE /\ queue' = queue \cup {[Msg(w) EXCEPT !.tries = @ + 1]}
             /\ unacked' = unacked \ {Msg(w)}
             /\ worker' = [worker EXCEPT ![w] = Idle]
    <2> DEFINE x == [Msg(w) EXCEPT !.tries = @ + 1]
    <2>1. /\ x \in Messages /\ x.id = Msg(w).id /\ x.task = Msg(w).task
          /\ x.job = Msg(w).job
          BY MsgTyped DEF Messages
    <2>2. queue' = queue \cup {x}  BY <1>1
    <2> HIDE DEF x
    <2>3. PICK Q \in SUBSET Messages : Q = {x}  BY <2>1
    <2>4. UNCHANGED <<data, sent, born, req>>  BY DEF Retry
    <2>5. /\ \A n \in Q : n.id = Msg(w).id /\ n.task = Msg(w).task /\ n.job = Msg(w).job
          /\ \A m, n \in Q : m = n
          /\ Q # {} /\ queue' = queue \cup Q
          BY <2>1, <2>2, <2>3
    <2>6. QED  BY <1>1, <2>4, <2>5, LeaveKeeps
  <1>2. CASE UNCHANGED <<queue, unacked>> /\ Goto(w, "task_failure")
    <2>1. UNCHANGED <<data, broker, born, req>>  BY <1>2 DEF Retry, broker
    <2>2. "task_failure" \in PCsOf(Msg(w).task) /\ "task_failure" \notin InLoop
          BY DEF PCsOf, InLoop
    <2>3. QED  BY <1>2, <2>1, <2>2, GotoLocalKeeps
  <1>3. QED  BY <1>1, <1>2 DEF Retry

LEMMA TransientKeeps ==
  ASSUME IInv, NEW w \in Workers, Busy(w), Transient(w)
  PROVE  Good
  <1>1. LeftKept  BY SpendSame DEF Transient
  <1>2. QED  BY <1>1, RetryKeeps DEF Transient

LEMMA CrashKeeps ==
  ASSUME IInv, NEW w \in Workers, Crash(w)
  PROVE  Good
  <1>1. Busy(w) /\ LeftKept  BY SpendSame DEF Crash, At, Busy
  <1>2. unacked \subseteq Messages /\ Msg(w) \in Messages  BY MsgTyped
  <1>3. PICK Q \in SUBSET Messages : Q = unacked \cap {Msg(w)}  BY <1>2
  <1>4. OneCopy => Q # {}  BY <1>1, <1>3 DEF OneCopy
  <1>5. /\ queue' = queue \cup Q /\ unacked' = unacked \ {Msg(w)}
        /\ worker' = [worker EXCEPT ![w] = Idle]
        /\ UNCHANGED <<data, sent, born, req>>
        BY <1>3 DEF Crash
  <1>6. QED  BY <1>1, <1>3, <1>4, <1>5, LeaveKeeps

LEMMA AckKeeps ==
  ASSUME IInv, NEW w \in Workers, Ack(w)
  PROVE  Good
  <1>1. Busy(w) /\ worker[w].pc = "ack"  BY DEF Ack, At, Busy
  <1>2. LeftKept  BY LeftUnchanged DEF Ack
  <1>3. PICK Q \in SUBSET Messages : Q = {}  OBVIOUS
  <1>4. /\ queue' = queue \cup Q /\ unacked' = unacked \ {Msg(w)}
        /\ worker' = [worker EXCEPT ![w] = Idle]
        /\ UNCHANGED <<data, sent, born, req>>
        BY <1>3 DEF Ack
  <1>5. QED  BY <1>1, <1>2, <1>3, <1>4, LeaveKeeps

\* A handler that fails changes nothing, and the invariant expects no more of it.
LEMMA HandlerKeeps ==
  ASSUME IInv, NEW w \in Workers, Busy(w), NEW pc \in {"ack", "task_failure"},
         HandlerFails(w, pc)
  PROVE  Good
  <1>1. Spend("handler") /\ Goto(w, pc) /\ UNCHANGED <<data, broker, born, req>>
        BY DEF HandlerFails
  <1>2. LeftKept /\ left'.handler < left.handler  BY <1>1, SpendSame
  <1>3. ~Undisturbed'
    <2>1. left.handler \in Nat /\ left.handler <= MaxHandlerFaults
          BY DEF IInv, Typed, LeftOK, Delivered
    <2>2. left'.handler \in Nat /\ MaxHandlerFaults \in Nat
          BY <1>2, BoundsAssumption DEF LeftKept, LeftOK
    <2>3. left'.handler # MaxHandlerFaults  BY <1>2, <2>1, <2>2
    <2>4. QED  BY <2>3 DEF Undisturbed
  <1>4. pc \in PCsOf(Msg(w).task) /\ pc \notin InLoop  BY DEF PCsOf, InLoop
  <1>5. QED  BY <1>1, <1>2, <1>3, <1>4, GotoLocalKeeps

\* The failure signal finds the running job of its task, as RowOK gives it its id.
LEMMA SignalKeeps ==
  ASSUME IInv, NEW w \in Workers, Busy(w), SignalFails(w)
  PROVE  Good
  <1>1. Busy(w)  OBVIOUS
  <1>2. PICK S \in SUBSET JobIds :
          S = {j \in JobIds : jobs[j].task = Msg(w).id
                              /\ jobs[j].status \in Active \cup {"cancelled"}}
        OBVIOUS
  <1>3. jobs' = [j \in JobIds |-> IF j \in S THEN [jobs[j] EXCEPT !.status = "failed"]
                                  ELSE jobs[j]]
        BY <1>2 DEF SignalFails, FailsOnSignal
  <1>4. \A j \in S : Row(j)  BY <1>2 DEF Row, NoRow, Active
  <1>5. JobsOK  BY DEF IInv, Typed
  <1>6. JobsMove /\ \A j \in JobIds : LlmRun(j)' => LlmRun(j) /\ j \notin S
        BY <1>3, <1>4, <1>5, JobsMany DEF JobStatus
  <1>7. JobOf(w) \in JobIds  BY <1>1, AtTask
  <1>8. LlmRun(JobOf(w)) => JobOf(w) \in S
    <2> SUFFICES ASSUME LlmRun(JobOf(w))  PROVE JobOf(w) \in S
        OBVIOUS
    <2>1. JobOf(w) = 1 /\ Msg(w).id = 1  BY <1>1, AtTask
    <2>2. jobs[JobOf(w)].task = 1  BY <1>5, <1>7, <2>1 DEF JobsOK, RowOK, LlmRun
    <2>3. QED  BY <1>2, <1>7, <2>1, <2>2 DEF LlmRun, Active
  <1>9. JobOf(w)' = JobOf(w)
    <2>1. worker \in [Workers -> WorkerRow] /\ Goto(w, "ack")
          BY DEF IInv, Typed, WorkersOK, SignalFails
    <2>2. QED  BY <2>1 DEF Goto, JobOf, WorkerRow
  <1>10. \A j \in JobIds : j = JobOf(w) => ~LlmRun(j)'  BY <1>6, <1>8
  <1>11. ~LlmRun(JobOf(w))'  BY <1>7, <1>9, <1>10
  <1>12. BookOK' /\ LeftKept /\ UNCHANGED <<broker, req>> /\ Goto(w, "ack")
         BY LeftUnchanged DEF SignalFails, IInv, Typed, BookOK
  <1>13. "ack" \in PCsOf(Msg(w).task) /\ "ack" \notin InLoop  BY DEF PCsOf, InLoop
  <1>14. QED  BY <1>1, <1>6, <1>11, <1>12, <1>13, GotoKeeps

LEMMA TaskFailureKeeps ==
  ASSUME IInv, NEW w \in Workers, TaskFailure(w)
  PROVE  Good
  <1>1. Busy(w)  BY DEF TaskFailure, At, Busy
  <1>2. QED  BY <1>1, SignalKeeps, HandlerKeeps DEF TaskFailure

LEMMA EndJobKeeps ==
  ASSUME IInv, NEW w \in Workers, Busy(w), NEW pc \in PCsOf(Msg(w).task) \ InLoop,
         EndJob(w, pc)
  PROVE  Good
  <1>1. JobsOK /\ JobOf(w) \in JobIds  BY AtTask
  <1>2. /\ JobsMove /\ \A j \in JobIds : LlmRun(j)' => LlmRun(j)
        /\ \A j \in JobIds : j = JobOf(w) => ~LlmRun(j)'
    <2>1. CASE Row(JobOf(w))
      <3>1. jobs' = [jobs EXCEPT ![JobOf(w)].status = "failed"]  BY <2>1 DEF EndJob
      <3>2. PICK k \in JobIds : k = JobOf(w)  BY <1>1
      <3>3. QED  BY <1>1, <2>1, <3>1, <3>2, JobsStatus DEF JobStatus
    <2>2. CASE ~Row(JobOf(w))
      <3>1. jobs' = jobs  BY <2>2 DEF EndJob
      <3>2. JobsMove /\ \A j \in JobIds : LlmRun(j)' => LlmRun(j)  BY <1>1, <3>1, JobsSame
      <3>3. ~LlmRun(JobOf(w))  BY <2>2 DEF Row, LlmRun, NoRow
      <3>4. QED  BY <3>2, <3>3
    <2>3. QED  BY <2>1, <2>2
  <1>3. JobOf(w)' = JobOf(w)
    <2>1. worker \in [Workers -> WorkerRow] /\ Goto(w, pc)
          BY DEF IInv, Typed, WorkersOK, EndJob
    <2>2. QED  BY <2>1 DEF Goto, JobOf, WorkerRow
  <1>4. ~LlmRun(JobOf(w))'  BY <1>1, <1>2, <1>3
  <1>5. BookOK' /\ LeftKept /\ UNCHANGED <<broker, req>> /\ Goto(w, pc)
        BY LeftUnchanged DEF EndJob, Tick, IInv, Typed, BookOK
  <1>6. QED  BY <1>2, <1>4, <1>5, GotoKeeps

LEMMA StartKeeps ==
  ASSUME IInv, NEW w \in Workers, Busy(w), NEW pc \in PCsOf(Msg(w).task) \ InLoop,
         pc # "ack", NEW t \in Nat, Row(JobOf(w)), StartJob(w, t),
         Msg(w).task = "llm" => t = 1, Goto(w, pc), Tick
  PROVE  Good
  <1>1. PICK k \in JobIds : k = JobOf(w)  BY AtTask
  <1>2. JobsOK /\ (jobs[k].type = "llm" => k = 1 /\ t = 1)  BY <1>1, AtTask
  <1>3. jobs' = [jobs EXCEPT ![k].status = "running", ![k].task = t]
        BY <1>1 DEF StartJob
  <1>4. /\ JobsMove
        /\ \A j \in JobIds : LlmRun(j)' => LlmRun(j) \/ (j = k /\ jobs[k].type = "llm")
        BY <1>1, <1>2, <1>3, JobsStart
  <1>5. BookOK' /\ LeftKept /\ UNCHANGED <<broker, req>>
        BY LeftUnchanged DEF StartJob, Tick, IInv, Typed, BookOK
  <1>6. QED  BY <1>1, <1>4, <1>5, GotoKeeps

LEMMA PrepKeeps ==
  ASSUME IInv, NEW w \in Workers,
         PrepCheck(w) \/ PrepStart(w) \/ PrepPages(w) \/ PrepFailed(w) \/ PrepDispatch(w)
  PROVE  Good
  <1>1. worker[w].pc \in PrepPCs
        BY DEF PrepCheck, PrepStart, PrepPages, PrepFailed, PrepDispatch, At, PrepPCs
  <1>2. Busy(w) /\ Msg(w).task = "prep" /\ ~LlmRun(JobOf(w)) /\ JobOf(w) \in JobIds
        BY <1>1, TaskIs, AtTask
  <1>3. PCsOf(Msg(w).task) = {"ack", "task_failure"} \cup PrepPCs  BY <1>2 DEF PCsOf
  <1>4. \A pc \in PCsOf(Msg(w).task) : pc \notin InLoop  BY <1>3 DEF PrepPCs, InLoop
  <1>5. ASSUME NEW pc \in PCsOf(Msg(w).task), Local(w, pc)  PROVE Good
    <2>1. LeftKept  BY <1>5, LeftUnchanged DEF Local
    <2>2. QED  BY <1>2, <1>4, <1>5, <2>1, GotoLocalKeeps DEF Local
  <1>6. ASSUME PrepCheck(w)  PROVE Good
    <2>1. CASE Local(w, "ack") \/ Local(w, "prep_start")
          BY <1>3, <1>5, <2>1 DEF PrepPCs
    <2>2. CASE Spend("fault") /\ Goto(w, "prep_start") /\ UNCHANGED <<data, broker, born, req>>
      <3>1. LeftKept  BY <2>2, SpendSame
      <3>2. QED  BY <1>2, <1>3, <1>4, <2>2, <3>1, GotoLocalKeeps DEF PrepPCs
    <2>3. QED  BY <1>6, <2>1, <2>2 DEF PrepCheck
  <1>7. ASSUME PrepStart(w)  PROVE Good
    <2>1. CASE Row(JobOf(w)) /\ StartJob(w, TaskId(w)) /\ Goto(w, "prep_pages") /\ Tick
      <3>1. PICK t \in Nat : t = TaskId(w)
            BY <1>2, AtTask DEF TaskId, JobsOK, JobRow
      <3>2. QED  BY <1>2, <1>3, <1>4, <2>1, <3>1, StartKeeps DEF PrepPCs
    <2>2. CASE UNCHANGED data /\ Goto(w, "prep_pages") /\ Tick
          BY <1>3, <1>5, <2>2 DEF Local, Tick, PrepPCs
    <2>3. CASE Transient(w)  BY <1>2, <2>3, TransientKeeps
    <2>4. QED  BY <1>7, <2>1, <2>2, <2>3 DEF PrepStart
  <1>8. ASSUME PrepPages(w)  PROVE Good
    <2>1. CASE Local(w, "prep_dispatch") \/ Local(w, "prep_failed")
          BY <1>3, <1>5, <2>1 DEF PrepPCs
    <2>2. CASE Transient(w)  BY <1>2, <2>2, TransientKeeps
    <2>3. QED  BY <1>8, <2>1, <2>2 DEF PrepPages
  <1>9. ASSUME PrepFailed(w)  PROVE Good
        BY <1>2, <1>3, <1>4, <1>9, EndJobKeeps, HandlerKeeps DEF PrepFailed, MarkJobFailed
  <1>10. ASSUME PrepDispatch(w)  PROVE Good
    <2>1. CASE Dispatch(w)  BY <1>10, <2>1, DispatchKeeps DEF PrepDispatch
    <2>2. CASE Spend("fault") /\ Goto(w, "task_failure")
               /\ UNCHANGED <<data, broker, born, req>>
      <3>1. LeftKept  BY <2>2, SpendSame
      <3>2. QED  BY <1>2, <1>3, <1>4, <2>2, <3>1, GotoLocalKeeps
    <2>3. QED  BY <1>10, <2>1, <2>2 DEF PrepDispatch
  <1>11. QED  BY <1>6, <1>7, <1>8, <1>9, <1>10

\* OcrPage and OcrProgress change other tables than jobs alone, or a loop.
LEMMA OcrPageKeeps ==
  ASSUME IInv, NEW w \in Workers, OcrPage(w)
  PROVE  Good
  <1>1. worker[w].pc = "ocr_page"  BY DEF OcrPage, At
  <1>2. Busy(w) /\ Msg(w).task = "ocr"  BY <1>1, TaskIs DEF OcrPCs
  <1>3. "ocr_progress" \in PCsOf(Msg(w).task)  BY <1>2 DEF PCsOf, OcrPCs
  <1>4. UNCHANGED <<book, pages, jobs, broker, born, req, left>>  BY DEF OcrPage, Tick
  <1>5. JobsMove /\ \A j \in JobIds : LlmRun(j)' => LlmRun(j)
        BY <1>4, JobsSame DEF IInv, Typed
  <1>6. LeftKept  BY <1>4, LeftUnchanged
  <1>7. CASE /\ Next1(w) \in pages /\ text' = text \cup {Next1(w)} /\ Goto(w, "ocr_progress")
    <2>1. BookOK'  BY <1>4, <1>7 DEF IInv, Typed, BookOK
    <2>2. QED  BY <1>1, <1>2, <1>3, <1>4, <1>5, <1>6, <1>7, <2>1, GotoKeeps DEF InLoop
  <1>8. CASE /\ worker' = [worker EXCEPT ![w].bad = @ + 1, ![w].pc = "ocr_progress"]
             /\ UNCHANGED text
    <2> DEFINE r == [worker[w] EXCEPT !.bad = @ + 1, !.pc = "ocr_progress"]
    <2>1. worker[w] \in WorkerRow /\ worker[w].done < worker[w].total
          BY <1>1 DEF IInv, Typed, WorkersOK, InLoop
    <2>2. /\ r \in WorkerRow /\ r.pc = "ocr_progress" /\ r.msg = Msg(w)
          /\ r.done = worker[w].done /\ r.total = worker[w].total
      <3>1. "ocr_progress" \in PCs  BY DEF PCs
      <3>2. worker[w].bad \in Nat  BY <2>1 DEF WorkerRow
      <3>3. worker[w].bad + 1 \in Nat  BY <3>2
      <3>4. QED  BY <2>1, <3>1, <3>3 DEF WorkerRow, Msg
    <2>3. worker' = [worker EXCEPT ![w] = r]
      <3>1. worker \in [Workers -> WorkerRow]  BY DEF IInv, Typed, WorkersOK
      <3>2. QED  BY <1>8, <3>1
    <2> HIDE DEF r
    <2>4. StepOf(w, "ocr_progress")  BY <2>1, <2>2, <2>3 DEF StepOf
    <2>5. BookOK'  BY <1>4, <1>8 DEF IInv, Typed, BookOK
    <2>6. QED  BY <1>2, <1>3, <1>4, <1>5, <1>6, <2>4, <2>5, StepKeeps DEF broker
  <1>9. QED  BY <1>7, <1>8 DEF OcrPage

LEMMA OcrProgressKeeps ==
  ASSUME IInv, NEW w \in Workers, OcrProgress(w)
  PROVE  Good
  <1>1. worker[w].pc = "ocr_progress" /\ Advance(w, "ocr_page", "ocr_finalize")
        /\ UNCHANGED <<book, pages, text, broker, born, req>>
        BY DEF OcrProgress, At
  <1>2. Busy(w) /\ Msg(w).task = "ocr"  BY <1>1, TaskIs DEF OcrPCs
  <1>3. WorkersOK /\ JobsOK /\ JobOf(w) \in JobIds  BY <1>2, AtTask DEF IInv, Typed
  <1>4. Percent(w) \in 0..100  BY <1>1, <1>3, PercentOK DEF InLoop
  <1>5. JobsMove /\ \A j \in JobIds : LlmRun(j)' => LlmRun(j)
    <2>1. CASE UNCHANGED jobs  BY <1>3, <2>1, JobsSame
    <2>2. CASE Percent(w) > jobs[JobOf(w)].progress
               /\ jobs' = [jobs EXCEPT ![JobOf(w)].progress = Percent(w)]
      <3>1. jobs[JobOf(w)].progress \in 0..100  BY <1>3 DEF JobsOK, JobRow
      <3>2. PICK p \in 0..100, k \in JobIds : p = Percent(w) /\ k = JobOf(w)  BY <1>3, <1>4
      <3>3. p >= jobs[k].progress  BY <2>2, <3>1, <3>2
      <3>4. jobs' = [jobs EXCEPT ![k].progress = p]  BY <2>2, <3>2
      <3>5. QED  BY <1>3, <3>3, <3>4, JobsProgress
    <2>3. QED  BY <2>1, <2>2 DEF OcrProgress, Report
  <1>6. LeftKept  BY LeftUnchanged, SpendSame DEF OcrProgress
  <1>7. BookOK'  BY <1>1 DEF IInv, Typed, BookOK
  <1>8. StepOf(w, "ocr_page") \/ StepOf(w, "ocr_finalize")
    <2>1. "ocr_page" \in PCs /\ "ocr_finalize" \in PCs \ InLoop  BY DEF PCs, InLoop
    <2>2. worker[w].pc \in InLoop  BY <1>1 DEF InLoop
    <2>3. QED  BY <1>1, <1>3, <2>1, <2>2, AdvanceStep
  <1>9. {"ocr_page", "ocr_finalize"} \subseteq PCsOf(Msg(w).task)  BY <1>2 DEF PCsOf, OcrPCs
  <1>10. UNCHANGED <<queue, unacked, sent, req>>  BY <1>1 DEF broker
  <1>11. CASE StepOf(w, "ocr_page")
         BY <1>2, <1>5, <1>6, <1>7, <1>9, <1>10, <1>11, StepKeeps
  <1>12. CASE StepOf(w, "ocr_finalize")
         BY <1>2, <1>5, <1>6, <1>7, <1>9, <1>10, <1>12, StepKeeps
  <1>13. QED  BY <1>8, <1>11, <1>12

LEMMA OcrKeeps ==
  ASSUME IInv, NEW w \in Workers, OcrSetup(w) \/ OcrPages(w) \/ OcrFinalize(w)
  PROVE  Good
  <1>1. worker[w].pc \in OcrPCs
        BY DEF OcrSetup, OcrPages, OcrFinalize, At, OcrPCs
  <1>2. Busy(w) /\ Msg(w).task = "ocr" /\ ~LlmRun(JobOf(w)) /\ JobOf(w) \in JobIds
        /\ Msg(w).id \in Nat /\ JobsOK
        BY <1>1, TaskIs, AtTask
  <1>3. PCsOf(Msg(w).task) = {"ack", "task_failure"} \cup OcrPCs  BY <1>2 DEF PCsOf
  <1>4. {"ack", "task_failure", "ocr_pages", "ocr_finalize"} \cap InLoop = {}
        /\ {"ack", "task_failure", "ocr_pages", "ocr_page"} \subseteq PCsOf(Msg(w).task)
        BY <1>3 DEF InLoop, OcrPCs
  <1>5. ASSUME OcrSetup(w)  PROVE Good
    <2>1. CASE Row(JobOf(w)) /\ StartJob(w, Msg(w).id) /\ Goto(w, "ocr_pages") /\ Tick
      <3>1. PICK t \in Nat : t = Msg(w).id  BY <1>2
      <3>2. QED  BY <1>2, <1>4, <2>1, <3>1, StartKeeps
    <2>2. CASE Local(w, "task_failure")
      <3>1. LeftKept  BY <2>2, LeftUnchanged DEF Local
      <3>2. QED  BY <1>2, <1>4, <2>2, <3>1, GotoLocalKeeps DEF Local
    <2>3. CASE Transient(w)  BY <1>2, <2>3, TransientKeeps
    <2>4. QED  BY <1>5, <2>1, <2>2, <2>3 DEF OcrSetup
  <1>6. ASSUME OcrPages(w)  PROVE Good
    <2>1. CASE pages # {} /\ StartLoop(w, pages, "ocr_page") /\ UNCHANGED data
      <3>1. pages \in SUBSET Nat /\ IsFiniteSet(pages)  BY DEF IInv, Typed, BookOK
      <3>2. PICK S \in SUBSET Nat : S = pages  BY <3>1
      <3>3. /\ worker' = [worker EXCEPT ![w].todo = S, ![w].total = Cardinality(S),
                                        ![w].done = 0, ![w].pc = "ocr_page"]
            /\ Tick
            BY <2>1, <3>2 DEF StartLoop
      <3>4. WorkersOK /\ "ocr_page" \in PCs  BY DEF IInv, Typed, PCs
      <3>5. StepOf(w, "ocr_page")  BY <2>1, <3>1, <3>2, <3>3, <3>4, LoopStep
      <3>6. LeftKept  BY <3>3, LeftUnchanged DEF Tick
      <3>7. QED  BY <1>2, <1>4, <2>1, <3>3, <3>5, <3>6, LocalKeeps DEF Tick
    <2>2. CASE EndJob(w, IF Row(JobOf(w)) THEN "ack" ELSE "task_failure")
      <3>1. EndJob(w, "ack") \/ EndJob(w, "task_failure")  BY <2>2
      <3>2. "ack" \in PCsOf(Msg(w).task) \ InLoop /\ "task_failure" \in PCsOf(Msg(w).task) \ InLoop
            BY <1>4
      <3>3. QED  BY <1>2, <3>1, <3>2, EndJobKeeps
    <2>3. CASE Transient(w)  BY <1>2, <2>3, TransientKeeps
    <2>4. QED  BY <1>6, <2>1, <2>2, <2>3 DEF OcrPages
  <1>7. ASSUME OcrFinalize(w)  PROVE Good
    <2>1. CASE EndJob(w, "ack")  BY <1>2, <1>4, <2>1, EndJobKeeps
    <2>2. CASE HandlerFails(w, "ack")  BY <1>2, <2>2, HandlerKeeps
    <2>3. QED  BY <1>7, <2>1, <2>2 DEF OcrFinalize, MarkJobFailed
  <1>8. QED  BY <1>5, <1>6, <1>7

LEMMA LlmReadKeeps ==
  ASSUME IInv, NEW w \in Workers, worker[w].pc = "llm_read",
         worker' = [worker EXCEPT ![w].seen = book, ![w].pc = "llm_context"],
         Tick, UNCHANGED data
  PROVE  Good
  <1>1. Busy(w) /\ Msg(w).task = "llm"  BY TaskIs DEF LlmPCs
  <1>2. "llm_context" \in PCsOf(Msg(w).task) /\ "llm_context" \notin InLoop
        /\ "llm_context" \in PCs
        BY <1>1 DEF PCsOf, LlmPCs, InLoop, PCs
  <1> DEFINE r == [worker[w] EXCEPT !.seen = book, !.pc = "llm_context"]
  <1>3. worker \in [Workers -> WorkerRow] /\ worker[w] \in WorkerRow
        BY DEF IInv, Typed, WorkersOK
  <1>4. book \in BookStatus \cup {Deleted}  BY DEF IInv, Typed, BookOK
  <1>5. r \in WorkerRow /\ r.pc = "llm_context" /\ r.msg = Msg(w)
        BY <1>2, <1>3, <1>4 DEF WorkerRow, Msg
  <1>6. worker' = [worker EXCEPT ![w] = r]  BY <1>3
  <1> HIDE DEF r
  <1>7. StepOf(w, "llm_context")  BY <1>2, <1>5, <1>6 DEF StepOf
  <1>8. LeftKept  BY LeftUnchanged DEF Tick
  <1>9. QED  BY <1>1, <1>2, <1>7, <1>8, LocalKeeps DEF Tick

LEMMA LlmContextKeeps ==
  ASSUME IInv, NEW w \in Workers, worker[w].pc = "llm_context",
         book' = (IF worker[w].seen = "llm_running" THEN book ELSE "llm_running"),
         StartLoop(w, 1..Batches, "llm_batch"), UNCHANGED <<pages, text, jobs>>
  PROVE  Good
  <1>1. Busy(w) /\ Msg(w).task = "llm"  BY TaskIs DEF LlmPCs
  <1>2. PICK S \in SUBSET Nat : S = 1..Batches /\ IsFiniteSet(S) /\ S # {}
    <2>1. Batches \in Nat \ {0}  BY BoundsAssumption
    <2>2. 1..Batches \in SUBSET Nat /\ 1..Batches # {}  BY <2>1
    <2>3. IsFiniteSet(1..Batches)  BY <2>1, FS_Interval
    <2>4. QED  BY <2>2, <2>3
  <1>3. /\ worker' = [worker EXCEPT ![w].todo = S, ![w].total = Cardinality(S),
                                    ![w].done = 0, ![w].pc = "llm_batch"]
        /\ UNCHANGED <<broker, born, req, left>>
        BY <1>2 DEF StartLoop, Tick
  <1>4. WorkersOK /\ "llm_batch" \in PCs  BY DEF IInv, Typed, PCs
  <1>5. StepOf(w, "llm_batch")  BY <1>2, <1>3, <1>4, LoopStep
  <1>6. LeftKept  BY <1>3, LeftUnchanged
  <1>7. JobsMove /\ \A j \in JobIds : LlmRun(j)' => LlmRun(j)
        BY JobsSame DEF IInv, Typed
  <1>8. BookOK'
    <2>1. "llm_running" \in BookStatus  BY DEF BookStatus, Stage!BookStatus
    <2>2. QED  BY <1>3, <2>1 DEF IInv, Typed, BookOK
  <1>9. "llm_batch" \in PCsOf(Msg(w).task)  BY <1>1 DEF PCsOf, LlmPCs
  <1>10. QED  BY <1>1, <1>3, <1>5, <1>6, <1>7, <1>8, <1>9, StepKeeps DEF broker

LEMMA LlmBatchKeeps ==
  ASSUME IInv, NEW w \in Workers, worker[w].pc = "llm_batch",
         jobs' = (IF Row(JobOf(w)) THEN LlmReport(w) ELSE jobs),
         Advance(w, "llm_batch", "llm_persist"),
         Tick, UNCHANGED <<book, pages, text>>
  PROVE  Good
  <1>1. Busy(w) /\ Msg(w).task = "llm"  BY TaskIs DEF LlmPCs
  <1>2. WorkersOK /\ JobsOK /\ JobOf(w) \in JobIds /\ jobs[JobOf(w)].type # "ocr"
        BY <1>1, AtTask DEF IInv, Typed
  <1>3. Percent(w) \in 0..100  BY <1>2, PercentOK DEF InLoop
  <1>4. JobsMove /\ \A j \in JobIds : LlmRun(j)' => LlmRun(j)
    <2>1. CASE UNCHANGED jobs  BY <1>2, <2>1, JobsSame
    <2>2. CASE jobs' = [jobs EXCEPT ![JobOf(w)].progress = Percent(w)]
      <3>1. PICK p \in 0..100, k \in JobIds : p = Percent(w) /\ k = JobOf(w)  BY <1>2, <1>3
      <3>2. jobs' = [jobs EXCEPT ![k].progress = p]  BY <2>2, <3>1
      <3>3. QED  BY <1>2, <3>1, <3>2, JobsProgress
    <2>3. QED  BY <2>1, <2>2 DEF LlmReport
  <1>5. StepOf(w, "llm_batch") \/ StepOf(w, "llm_persist")
    <2>1. "llm_batch" \in PCs /\ "llm_persist" \in PCs \ InLoop  BY DEF PCs, InLoop
    <2>2. worker[w].pc \in InLoop  BY DEF InLoop
    <2>3. QED  BY <1>2, <2>1, <2>2, AdvanceStep
  <1>6. {"llm_batch", "llm_persist"} \subseteq PCsOf(Msg(w).task)  BY <1>1 DEF PCsOf, LlmPCs
  <1>7. BookOK' /\ LeftKept /\ UNCHANGED <<queue, unacked, sent, req>>
        BY LeftUnchanged DEF Tick, broker, IInv, Typed, BookOK
  <1>8. CASE StepOf(w, "llm_batch")  BY <1>1, <1>4, <1>6, <1>7, <1>8, StepKeeps
  <1>9. CASE StepOf(w, "llm_persist")  BY <1>1, <1>4, <1>6, <1>7, <1>9, StepKeeps
  <1>10. QED  BY <1>5, <1>8, <1>9

LEMMA EndExtractionKeeps ==
  ASSUME IInv, NEW w \in Workers, At(w, "llm_failed"), EndExtraction(w)
  PROVE  Good
  <1>1. Busy(w) /\ Msg(w).task = "llm"  BY TaskIs DEF At, LlmPCs
  <1>2. JobsOK /\ JobOf(w) \in JobIds  BY <1>1, AtTask
  <1>3. JobsMove /\ \A j \in JobIds : LlmRun(j)' => LlmRun(j)
    <2>1. CASE Row(JobOf(w)) /\ jobs' = [jobs EXCEPT ![JobOf(w)].status = "failed"]
      <3>1. PICK k \in JobIds : k = JobOf(w)  BY <1>2
      <3>2. QED  BY <1>2, <2>1, <3>1, JobsStatus DEF JobStatus
    <2>2. CASE UNCHANGED jobs  BY <1>2, <2>2, JobsSame
    <2>3. QED  BY <2>1, <2>2 DEF EndExtraction
  <1>4. BookOK'
    <2>1. "ocr_complete" \in BookStatus  BY DEF BookStatus, Stage!BookStatus
    <2>2. QED  BY <2>1 DEF EndExtraction, GivenBack, Tick, IInv, Typed, BookOK
  <1>5. "task_failure" \in PCsOf(Msg(w).task) /\ "task_failure" \notin InLoop
        BY DEF PCsOf, InLoop
  <1>6. LeftKept /\ UNCHANGED <<broker, req>> /\ Goto(w, "task_failure")
        BY LeftUnchanged DEF EndExtraction, Tick
  <1>7. QED  BY <1>1, <1>3, <1>4, <1>5, <1>6, GotoKeeps

LEMMA LlmFailedKeeps ==
  ASSUME IInv, NEW w \in Workers, LlmFailed(w)
  PROVE  Good
  <1>1. Busy(w)  BY DEF LlmFailed, At, Busy
  <1>2. QED  BY <1>1, EndExtractionKeeps, HandlerKeeps DEF LlmFailed

LEMMA LlmKeeps ==
  ASSUME IInv, NEW w \in Workers,
         LlmStart(w) \/ LlmRead(w) \/ LlmContext(w) \/ LlmBatch(w) \/ LlmPersist(w)
  PROVE  Good
  <1>1. worker[w].pc \in LlmPCs
        BY DEF LlmStart, LlmRead, LlmContext, LlmBatch, LlmPersist, At, LlmPCs
  <1>2. Busy(w) /\ Msg(w).task = "llm" /\ JobOf(w) = 1 /\ Msg(w).id = 1
        /\ JobOf(w) \in JobIds /\ JobsOK
        BY <1>1, TaskIs, AtTask
  <1>3. {"llm_read", "llm_failed"} \subseteq PCsOf(Msg(w).task) \ InLoop
        BY <1>2 DEF PCsOf, LlmPCs, InLoop
  <1>4. ASSUME Local(w, "llm_failed")  PROVE Good
    <2>1. LeftKept  BY <1>4, LeftUnchanged DEF Local
    <2>2. QED  BY <1>2, <1>3, <1>4, <2>1, GotoLocalKeeps DEF Local
  <1>5. ASSUME Transient(w)  PROVE Good  BY <1>2, <1>5, TransientKeeps
  <1>6. ASSUME LlmStart(w)  PROVE Good
    <2>1. CASE Row(JobOf(w)) /\ StartJob(w, TaskId(w)) /\ Goto(w, "llm_read") /\ Tick
      <3>1. CASE jobs[JobOf(w)].type = "llm"
        <4>1. jobs[1].task \in {0, 1}  BY <1>2, <3>1, Ids DEF JobsOK, RowOK
        <4>2. TaskId(w) = 1  BY <1>2, <4>1 DEF TaskId, NoTask
        <4>3. PICK t \in Nat : t = TaskId(w) /\ t = 1  BY <4>2
        <4>4. QED  BY <1>2, <1>3, <2>1, <4>3, StartKeeps
      <3>2. CASE jobs[JobOf(w)].type # "llm"
        <4>1. jobs[JobOf(w)].type \in {"llm", "gone"}
              BY <1>2 DEF IInv, Routed, MsgOK, JobOf, Msg
        <4>2. RowOK(JobOf(w), jobs[JobOf(w)])  BY <1>2 DEF JobsOK
        <4>3. QED  BY <2>1, <3>2, <4>1, <4>2 DEF Row, RowOK
      <3>3. QED  BY <3>1, <3>2
    <2>2. CASE Local(w, "llm_failed")  BY <1>4, <2>2
    <2>3. CASE Transient(w)  BY <1>5, <2>3
    <2>4. QED  BY <1>6, <2>1, <2>2, <2>3 DEF LlmStart
  <1>7. ASSUME LlmRead(w)  PROVE Good
    <2>1. CASE EndJob(w, "llm_failed")  BY <1>2, <1>3, <2>1, EndJobKeeps
    <2>2. CASE Transient(w)  BY <1>5, <2>2
    <2>3. CASE /\ worker' = [worker EXCEPT ![w].seen = book, ![w].pc = "llm_context"]
               /\ Tick /\ UNCHANGED data
          BY <1>7, <2>3, LlmReadKeeps DEF LlmRead, At
    <2>4. QED  BY <1>7, <2>1, <2>2, <2>3 DEF LlmRead
  <1>8. ASSUME LlmContext(w)  PROVE Good
    <2>1. CASE Local(w, "llm_failed")  BY <1>4, <2>1
    <2>2. CASE Transient(w)  BY <1>5, <2>2
    <2>3. CASE /\ book' = IF worker[w].seen = "llm_running" THEN book ELSE "llm_running"
               /\ StartLoop(w, 1..Batches, "llm_batch") /\ UNCHANGED <<pages, text, jobs>>
          BY <1>8, <2>3, LlmContextKeeps DEF LlmContext, At
    <2>4. QED  BY <1>8, <2>1, <2>2, <2>3 DEF LlmContext
  <1>9. ASSUME LlmBatch(w)  PROVE Good
        BY <1>5, <1>9, LlmBatchKeeps DEF LlmBatch, At
  <1>10. ASSUME LlmPersist(w)  PROVE Good
    <2>1. CASE UNCHANGED left /\ Retry(w)
      <3>1. LeftKept  BY <2>1, LeftUnchanged
      <3>2. QED  BY <1>2, <2>1, <3>1, RetryKeeps
    <2>2. QED  BY <1>4, <1>5, <1>10, <2>1 DEF LlmPersist
  <1>11. QED  BY <1>6, <1>7, <1>8, <1>9, <1>10

LEMMA WorkKeeps ==
  ASSUME IInv, NEW w \in Workers, Work(w)
  PROVE  Good
  BY AckKeeps, TaskFailureKeeps, PrepKeeps, OcrKeeps, OcrPageKeeps, OcrProgressKeeps,
     LlmKeeps, LlmFailedKeeps DEF Work
-----------------------------------------------------------------------------
(* Requests. *)
LEMMA BeginKeeps ==
  ASSUME IInv, NEW c \in Clients, Begin(c)
  PROVE  Good
  <1>1. PICK op \in Ops, j \in JobIds :
          req' = [req EXCEPT ![c] = [op |-> op, job |-> j, status |-> book,
                                     pages |-> pages, jobs |-> Writes(op, j)]]
        BY Ids DEF Begin
  <1> DEFINE r == [op |-> op, job |-> j, status |-> book, pages |-> pages, jobs |-> Writes(op, j)]
  <1>2. Writes(op, j) \subseteq JobIds  BY DEF Writes, ActiveJobs, Rows
  <1>3. op = "cancel_job" => Writes(op, j) = {j}  BY DEF Writes
  <1>4. ReqOK /\ BookOK  BY DEF IInv, Typed
  <1>5. r \in Request  BY <1>2, <1>4 DEF Request, BookOK
  <1>6. r.op = "cancel_job" => r.jobs = {r.job}  BY <1>3
  <1>7. req' = [req EXCEPT ![c] = r]  BY <1>1
  <1> HIDE DEF r
  <1>8. ReqOK'
    <2>1. /\ req' \in [Clients -> Request] /\ req'[c] = r
          /\ \A d \in Clients \ {c} : req'[d] = req[d]
          BY <1>4, <1>5, <1>7 DEF ReqOK
    <2>2. \A d \in Clients : req'[d].op = "cancel_job" => req'[d].jobs = {req'[d].job}
          BY <1>4, <1>6, <2>1 DEF ReqOK
    <2>3. QED  BY <2>1, <2>2 DEF ReqOK
  <1>9. UNCHANGED <<data, broker, born, worker>> /\ LeftKept
        BY SpendSame DEF Begin
  <1>10. BookOK'  BY <1>4, <1>9 DEF BookOK, data
  <1>11. JobsMove /\ \A k \in JobIds : LlmRun(k)' => LlmRun(k)
         BY <1>9, JobsSame DEF IInv, Typed, data
  <1>12. QED  BY <1>8, <1>9, <1>10, <1>11, RequestKeeps DEF broker

LEMMA EndKeeps ==
  ASSUME IInv, NEW c \in Clients, NEW op, EndRequest(c, op), BookOK', JobsMove,
         \A j \in JobIds : LlmRun(j)' => LlmRun(j)
  PROVE  Good
  <1>1. ReqOK'
    <2>1. NoRequest \in Request /\ NoRequest.op = "none"  BY Ids DEF NoRequest, Request
    <2>2. ReqOK  BY DEF IInv, Typed
    <2>3. /\ req' \in [Clients -> Request] /\ req'[c] = NoRequest
          /\ \A d \in Clients \ {c} : req'[d] = req[d]
          BY <2>1, <2>2 DEF ReqOK, EndRequest
    <2>4. \A d \in Clients : req'[d].op = "cancel_job" => req'[d].jobs = {req'[d].job}
          BY <2>1, <2>2, <2>3 DEF ReqOK
    <2>5. QED  BY <2>3, <2>4 DEF ReqOK
  <1>2. UNCHANGED <<queue, unacked, sent, worker>> /\ LeftKept
        BY LeftUnchanged DEF EndRequest, broker
  <1>3. QED  BY <1>1, <1>2, RequestKeeps

LEMMA ReqJobs ==
  ASSUME IInv, NEW c \in Clients
  PROVE  req[c].jobs \in SUBSET JobIds /\ req[c].job \in JobIds
         /\ (req[c].op = "cancel_job" => req[c].jobs = {req[c].job})
  BY DEF IInv, Typed, ReqOK, Request

LEMMA WriteOK ==
  ASSUME BookOK, NEW r, NEW st \in BookStatus, Write(r, st)
  PROVE  book' \in BookStatus \cup {Deleted}
  BY DEF BookOK, Write

\* What the writes of each handler come to.
LEMMA RunOcrKeeps ==
  ASSUME IInv, NEW c \in Clients, RunOcr(c)
  PROVE  Good
  <1>1. PICK S \in SUBSET JobIds : S = req[c].jobs  BY ReqJobs
  <1>2. JobsMove /\ \A j \in JobIds : LlmRun(j)' => LlmRun(j)
    <2>1. JobsOK /\ (\A j \in S : Row(j)) /\ AddsJob(Cancelled(jobs, S), "ocr")
          BY <1>1 DEF RunOcr, StillThere, IInv, Typed
    <2>2. QED  BY <2>1, JobsAdd
  <1>3. "ocr_running" \in BookStatus  BY DEF BookStatus, Stage!BookStatus
  <1>4. BookOK /\ Write(req[c], "ocr_running") /\ UNCHANGED <<pages, text, born>>
        BY DEF RunOcr, IInv, Typed
  <1>5. book' \in BookStatus \cup {Deleted}  BY <1>3, <1>4, WriteOK
  <1>6. BookOK'  BY <1>4, <1>5 DEF BookOK
  <1>7. QED  BY <1>2, <1>6, EndKeeps DEF RunOcr

LEMMA ExtractionKeeps ==
  ASSUME IInv, NEW c \in Clients, RunExtraction(c) \/ RerunExtraction(c)
  PROVE  Good
  <1>1. JobsMove /\ \A j \in JobIds : LlmRun(j)' => LlmRun(j)
    <2>1. JobsOK /\ AddsJob(jobs, "llm")
          BY DEF RunExtraction, RerunExtraction, IInv, Typed
    <2>2. PICK S \in SUBSET JobIds : S = {}  OBVIOUS
    <2>3. AddsJob(Cancelled(jobs, S), "llm") /\ \A j \in S : Row(j)
          BY <2>1, <2>2, NoneCancelled
    <2>4. QED  BY <2>1, <2>3, JobsAdd
  <1>2. "ocr_complete" \in BookStatus  BY DEF BookStatus, Stage!BookStatus
  <1>3. BookOK /\ UNCHANGED <<pages, text, born>>
        BY DEF RunExtraction, RerunExtraction, IInv, Typed
  <1>4. book' \in BookStatus \cup {Deleted}
        BY <1>2, <1>3, WriteOK DEF RunExtraction, RerunExtraction, BookOK
  <1>5. BookOK'  BY <1>3, <1>4 DEF BookOK
  <1>6. QED  BY <1>1, <1>5, EndKeeps DEF RunExtraction, RerunExtraction

LEMMA RerunOcrKeeps ==
  ASSUME IInv, NEW c \in Clients, RerunOcr(c)
  PROVE  Good
  <1>1. PICK S \in SUBSET JobIds : S = req[c].jobs  BY ReqJobs
  <1>2. JobsMove /\ \A j \in JobIds : LlmRun(j)' => LlmRun(j)
    <2>1. JobsOK /\ (\A j \in S : Row(j)) /\ AddsJob(Cancelled(jobs, S), "ocr")
          BY <1>1 DEF RerunOcr, StillThere, IInv, Typed
    <2>2. QED  BY <2>1, JobsAdd
  <1>3. "ocr_running" \in BookStatus  BY DEF BookStatus, Stage!BookStatus
  <1>4. BookOK /\ Write(req[c], "ocr_running") /\ UNCHANGED <<pages, born>>
        /\ text' = text \ req[c].pages
        BY DEF RerunOcr, IInv, Typed
  <1>5. book' \in BookStatus \cup {Deleted}  BY <1>3, <1>4, WriteOK
  <1>6. BookOK'  BY <1>4, <1>5 DEF BookOK
  <1>7. QED  BY <1>2, <1>6, EndKeeps DEF RerunOcr

LEMMA CancelKeeps ==
  ASSUME IInv, NEW c \in Clients, CancelJob(c)
  PROVE  Good
  <1>1. PICK k \in JobIds, S \in SUBSET JobIds : k = req[c].job /\ S = req[c].jobs
        BY ReqJobs
  <1>2. S = {k} /\ Row(k)  BY <1>1, ReqJobs DEF CancelJob, EndRequest
  <1>3. JobsOK /\ BookOK  BY DEF IInv, Typed
  <1>4. JobsMove /\ \A j \in JobIds : LlmRun(j)' => LlmRun(j)
    <2>1. jobs' = [j \in JobIds |-> IF j \in S THEN [jobs[j] EXCEPT !.status = "cancelled"]
                                    ELSE jobs[j]]
          BY <1>1 DEF CancelJob, Cancelled
    <2>2. "cancelled" \in JobStatus \ {"running"}  BY DEF JobStatus
    <2>3. QED  BY <1>2, <1>3, <2>1, <2>2, JobsMany
  <1>5. book' \in BookStatus \cup {Deleted}
    <2>1. jobs[k].type \in {"ocr", "llm"}  BY <1>2, <1>3 DEF JobsOK, RowOK, Row
    <2>2. Back[jobs[k].type][2] \in BookStatus
          BY <2>1 DEF Back, BookStatus, Stage!BookStatus
    <2>3. book' \in {book, Back[jobs[k].type][2]}  BY <1>1 DEF CancelJob
    <2>4. QED  BY <1>3, <2>2, <2>3 DEF BookOK
  <1>6. BookOK'  BY <1>3, <1>5 DEF BookOK, CancelJob
  <1>7. QED  BY <1>4, <1>6, EndKeeps DEF CancelJob

LEMMA SelectKeeps ==
  ASSUME IInv, NEW c \in Clients, SelectPages(c)
  PROVE  Good
  <1>1. BookOK /\ JobsOK  BY DEF IInv, Typed
  <1>2. JobsMove /\ \A j \in JobIds : LlmRun(j)' => LlmRun(j)
        BY <1>1, JobsSame DEF SelectPages
  <1>3. "pages_selected" \in BookStatus  BY DEF BookStatus, Stage!BookStatus
  <1>4. book' \in BookStatus \cup {Deleted}  BY <1>1, <1>3, WriteOK DEF SelectPages
  <1>5. PICK n \in 1..2 : /\ pages' = (pages \ req[c].pages) \cup (born + 1)..(born + n)
                          /\ born' = born + n
        BY DEF SelectPages
  <1>6. born \in Nat /\ n \in Nat  BY <1>1 DEF BookOK
  <1>7. (born + 1)..(born + n) \subseteq Nat  BY <1>6
  <1>8. IsFiniteSet((born + 1)..(born + n))
    <2>1. born + 1 \in Int /\ born + n \in Int  BY <1>6
    <2>2. QED  BY <2>1, FS_Interval
  <1>9. IsFiniteSet(pages \ req[c].pages)  BY <1>1, FS_Difference DEF BookOK
  <1>10. IsFiniteSet(pages')  BY <1>5, <1>8, <1>9, FS_Union
  <1>11. pages' \subseteq Nat /\ born' \in Nat
    <2>1. born + n \in Nat  BY <1>6
    <2>2. pages \subseteq Nat  BY <1>1 DEF BookOK
    <2>3. QED  BY <1>5, <1>7, <2>1, <2>2
  <1>12. text' \subseteq pages'  BY <1>1, <1>5 DEF BookOK, SelectPages
  <1>13. BookOK'  BY <1>4, <1>10, <1>11, <1>12 DEF BookOK
  <1>14. QED  BY <1>2, <1>13, EndKeeps DEF SelectPages

LEMMA ClearKeeps ==
  ASSUME IInv, NEW c \in Clients, ResetBook(c) \/ DeleteBook(c)
  PROVE  Good
  <1>1. BookOK /\ JobsOK  BY DEF IInv, Typed
  <1>2. PICK S \in SUBSET JobIds : jobs' = Without(S)
    <2>1. Rows \in SUBSET JobIds /\ req[c].jobs \in SUBSET JobIds
          BY ReqJobs DEF Rows
    <2>2. QED  BY <2>1 DEF ResetBook, DeleteBook
  <1>3. JobsMove /\ \A j \in JobIds : LlmRun(j)' => LlmRun(j)
        BY <1>1, <1>2, JobsWithout
  <1>4. "uploaded" \in BookStatus  BY DEF BookStatus, Stage!BookStatus
  <1>5. book' \in BookStatus \cup {Deleted}
        BY <1>1, <1>4, WriteOK DEF ResetBook, DeleteBook
  <1>6. IsFiniteSet({})  BY FS_EmptySet
  <1>7. pages' = {} /\ text' = {} /\ born' = born  BY DEF ResetBook, DeleteBook
  <1>8. BookOK'  BY <1>1, <1>5, <1>6, <1>7 DEF BookOK
  <1>9. QED  BY <1>3, <1>8, EndKeeps DEF ResetBook, DeleteBook

LEMMA RefusedKeeps ==
  ASSUME IInv, NEW c \in Clients, Refused(c)
  PROVE  Good
  <1>1. BookOK /\ JobsOK  BY DEF IInv, Typed
  <1>2. JobsMove /\ \A j \in JobIds : LlmRun(j)' => LlmRun(j)
        BY <1>1, JobsSame DEF Refused, data
  <1>3. BookOK'  BY <1>1 DEF Refused, data, BookOK
  <1>4. PICK op : op = req[c].op  OBVIOUS
  <1>5. EndRequest(c, op)  BY <1>4 DEF Refused
  <1>6. QED  BY <1>2, <1>3, <1>5, EndKeeps

LEMMA StutterKeeps ==
  ASSUME IInv, UNCHANGED vars
  PROVE  Good
  <1>1. UNCHANGED <<data, queue, unacked, sent, born, worker, req, left>>
        BY DEF vars, broker
  <1>2. JobsMove /\ \A j \in JobIds : LlmRun(j)' => LlmRun(j)
        BY <1>1, JobsSame DEF IInv, Typed, data
  <1>3. BookOK' /\ ReqOK' /\ LeftKept
        BY <1>1, LeftUnchanged DEF IInv, Typed, BookOK, ReqOK, data
  <1>4. QED  BY <1>1, <1>2, <1>3, RequestKeeps

LEMMA StepIsGood ==
  ASSUME IInv, [Next]_vars
  PROVE  Good
  BY TakeKeeps, WorkKeeps, CrashKeeps, TimeoutKeeps, BeginKeeps, RunOcrKeeps,
     ExtractionKeeps, RerunOcrKeeps, CancelKeeps, SelectKeeps, ClearKeeps, RefusedKeeps,
     StutterKeeps DEF Next, Commit
-----------------------------------------------------------------------------
\* Every book an earlier release may have left has its message and its job.
LEMMA LeftTyped ==
  ASSUME NEW s \in Scenarios
  PROVE  /\ Left[s].book \in BookStatus
         /\ Left[s].text \subseteq {1, 2}
         /\ Left[s].job \in JobRow /\ RowOK(1, Left[s].job)
         /\ Left[s].task \in {"none", "prep", "ocr", "llm"}
         /\ Left[s].task = "llm" => Left[s].job.type = "llm"
         /\ Left[s].task \in {"prep", "ocr"} => Left[s].job.type = "ocr"
         /\ Left[s].job.type = "llm" /\ Left[s].job.status = "running" => Left[s].task = "llm"
  <1>1. s \in {"selected", "recognised", "prep", "ocr", "llm", "llm_cut", "llm_done"}
        BY ScenariosAssumption DEF Left
  <1>2. {"pages_selected", "ocr_complete", "ocr_running", "llm_running", "awaiting_review"}
          \subseteq BookStatus
        BY DEF BookStatus, Stage!BookStatus
  <1>3. {"queued", "running", "completed", NoRow} \subseteq JobStatus \cup {NoRow}
        BY DEF JobStatus
  <1>4. CASE s = "selected"
    <2>1. /\ Left[s].book = "pages_selected" /\ Left[s].text = {}
          /\ Left[s].job = NoJob /\ Left[s].task = "none"
          BY <1>4 DEF Left
    <2>2. /\ Left[s].job \in JobRow /\ Left[s].job.type = "none"
          /\ Left[s].job.status = NoRow /\ Left[s].job.task = NoTask
          BY <1>3, <2>1 DEF Job, JobRow, NoJob, NoTask
    <2>3. RowOK(1, Left[s].job)  BY <2>2 DEF RowOK, NoRow, NoTask
    <2>4. QED  BY <1>2, <2>1, <2>2, <2>3 DEF NoRow
  <1>5. CASE s = "recognised"
    <2>1. /\ Left[s].book = "ocr_complete" /\ Left[s].text = {1, 2}
          /\ Left[s].job = NoJob /\ Left[s].task = "none"
          BY <1>5 DEF Left
    <2>2. /\ Left[s].job \in JobRow /\ Left[s].job.type = "none"
          /\ Left[s].job.status = NoRow /\ Left[s].job.task = NoTask
          BY <1>3, <2>1 DEF Job, JobRow, NoJob, NoTask
    <2>3. RowOK(1, Left[s].job)  BY <2>2 DEF RowOK, NoRow, NoTask
    <2>4. QED  BY <1>2, <2>1, <2>2, <2>3 DEF NoRow
  <1>6. CASE s = "prep"
    <2>1. /\ Left[s].book = "ocr_running" /\ Left[s].text = {}
          /\ Left[s].job = Job("ocr", "queued", 0, NoTask) /\ Left[s].task = "prep"
          BY <1>6 DEF Left
    <2>2. /\ Left[s].job \in JobRow /\ Left[s].job.type = "ocr"
          /\ Left[s].job.status = "queued" /\ Left[s].job.task = 0
          BY <1>3, <2>1 DEF Job, JobRow, NoJob, NoTask
    <2>3. RowOK(1, Left[s].job)  BY <2>2 DEF RowOK, NoRow, NoTask
    <2>4. QED  BY <1>2, <2>1, <2>2, <2>3 DEF NoRow
  <1>7. CASE s = "ocr"
    <2>1. /\ Left[s].book = "ocr_running" /\ Left[s].text = {1}
          /\ Left[s].job = Job("ocr", "running", 50, 1) /\ Left[s].task = "ocr"
          BY <1>7 DEF Left
    <2>2. /\ Left[s].job \in JobRow /\ Left[s].job.type = "ocr"
          /\ Left[s].job.status = "running" /\ Left[s].job.task = 1
          BY <1>3, <2>1 DEF Job, JobRow, NoJob, NoTask
    <2>3. RowOK(1, Left[s].job)  BY <2>2 DEF RowOK, NoRow, NoTask
    <2>4. QED  BY <1>2, <2>1, <2>2, <2>3 DEF NoRow
  <1>8. CASE s = "llm"
    <2>1. /\ Left[s].book = "ocr_complete" /\ Left[s].text = {1, 2}
          /\ Left[s].job = Job("llm", "queued", 0, NoTask) /\ Left[s].task = "llm"
          BY <1>8 DEF Left
    <2>2. /\ Left[s].job \in JobRow /\ Left[s].job.type = "llm"
          /\ Left[s].job.status = "queued" /\ Left[s].job.task = 0
          BY <1>3, <2>1 DEF Job, JobRow, NoJob, NoTask
    <2>3. RowOK(1, Left[s].job)  BY <2>2 DEF RowOK, NoRow, NoTask
    <2>4. QED  BY <1>2, <2>1, <2>2, <2>3 DEF NoRow
  <1>9. CASE s = "llm_cut"
    <2>1. /\ Left[s].book = "llm_running" /\ Left[s].text = {1, 2}
          /\ Left[s].job = Job("llm", "running", 0, 1) /\ Left[s].task = "llm"
          BY <1>9 DEF Left
    <2>2. /\ Left[s].job \in JobRow /\ Left[s].job.type = "llm"
          /\ Left[s].job.status = "running" /\ Left[s].job.task = 1
          BY <1>3, <2>1 DEF Job, JobRow, NoJob, NoTask
    <2>3. RowOK(1, Left[s].job)  BY <2>2 DEF RowOK, NoRow, NoTask
    <2>4. QED  BY <1>2, <2>1, <2>2, <2>3 DEF NoRow
  <1>10. CASE s = "llm_done"
    <2>1. /\ Left[s].book = "awaiting_review" /\ Left[s].text = {1, 2}
          /\ Left[s].job = Job("llm", "completed", 100, 1) /\ Left[s].task = "llm"
          BY <1>10 DEF Left
    <2>2. /\ Left[s].job \in JobRow /\ Left[s].job.type = "llm"
          /\ Left[s].job.status = "completed" /\ Left[s].job.task = 1
          BY <1>3, <2>1 DEF Job, JobRow, NoJob, NoTask
    <2>3. RowOK(1, Left[s].job)  BY <2>2 DEF RowOK, NoRow, NoTask
    <2>4. QED  BY <1>2, <2>1, <2>2, <2>3 DEF NoRow
  <1>11. QED  BY <1>1, <1>4, <1>5, <1>6, <1>7, <1>8, <1>9, <1>10

LEMMA InitIInv == Init => IInv
  <1> SUFFICES ASSUME Init  PROVE IInv
      OBVIOUS
  <1> USE DEF Msg, JobOf
  <1>1. PICK s \in Scenarios :
          /\ book = Left[s].book /\ pages = {1, 2} /\ text = Left[s].text
          /\ jobs = [j \in JobIds |-> IF j = 1 THEN Left[s].job ELSE NoJob]
          /\ queue = IF Left[s].task = "none" THEN {} ELSE {Message(Left[s].task, 1, 1, 0)}
          /\ unacked = {} /\ sent = 1 /\ born = 2
          /\ worker = [w \in Workers |-> Idle]
          /\ req = [c \in Clients |-> NoRequest]
          /\ left = [request |-> MaxRequests, crash |-> MaxCrashes,
                     timeout |-> MaxTimeouts, fault |-> MaxFaults, handler |-> MaxHandlerFaults]
        BY DEF Init
  <1>2. /\ Left[s].book \in BookStatus
        /\ Left[s].text \subseteq {1, 2}
        /\ Left[s].job \in JobRow /\ RowOK(1, Left[s].job)
        /\ Left[s].task \in {"none", "prep", "ocr", "llm"}
        /\ Left[s].task = "llm" => Left[s].job.type = "llm"
        /\ Left[s].task \in {"prep", "ocr"} => Left[s].job.type = "ocr"
        /\ Left[s].job.type = "llm" /\ Left[s].job.status = "running" => Left[s].task = "llm"
        BY LeftTyped
  <1>3. NoJob \in JobRow /\ NoJob.type = "none" /\ NoJob.status = NoRow
        BY DEF NoJob, Job, JobRow, NoTask
  <1>4. jobs[1] = Left[s].job /\ \A j \in JobIds \ {1} : jobs[j] = NoJob
        BY <1>1, Ids
  <1>5. BookOK
    <2>1. IsFiniteSet({1, 2})
      <3>1. IsFiniteSet({1})  BY FS_Singleton
      <3>2. IsFiniteSet({1} \cup {2})  BY <3>1, FS_AddElement
      <3>3. {1, 2} = {1} \cup {2}  OBVIOUS
      <3>4. QED  BY <3>2, <3>3
    <2>2. QED  BY <1>1, <1>2, <2>1 DEF BookOK
  <1>6. JobsOK
    <2>1. \A j \in JobIds : jobs[j] \in JobRow /\ RowOK(j, jobs[j])
      <3>1. \A j \in JobIds : RowOK(j, NoJob)  BY <1>3 DEF RowOK
      <3>2. QED  BY <1>2, <1>3, <1>4, <3>1
    <2>2. QED  BY <1>1, <2>1 DEF JobsOK
  <1>7. WorkersOK  BY <1>1, IdleRow DEF WorkersOK, InLoop
  <1>8. PICK m \in Messages \cup {NoMessage} :
          /\ queue = {} \/ queue = {m}
          /\ Left[s].task # "none" =>
               m.task = Left[s].task /\ m.job = 1 /\ m.id = 1 /\ queue = {m} /\ m \in Messages
          /\ Left[s].task = "none" => queue = {}
    <2>1. CASE Left[s].task = "none"  BY <1>1, <2>1
    <2>2. CASE Left[s].task # "none"
      <3> DEFINE x == Message(Left[s].task, 1, 1, 0)
      <3>1. x \in Messages /\ x.task = Left[s].task /\ x.job = 1 /\ x.id = 1
            BY <1>2, Ids DEF Message, Messages
      <3>2. queue = {x}  BY <1>1, <2>2
      <3> HIDE DEF x
      <3>3. QED  BY <2>2, <3>1, <3>2
    <2>3. QED  BY <2>1, <2>2
  <1>9. BrokerOK  BY <1>1, <1>2, <1>8 DEF BrokerOK
  <1>10. ReqOK
    <2>1. NoRequest \in Request /\ NoRequest.op = "none"  BY Ids DEF NoRequest, Request
    <2>2. QED  BY <1>1, <2>1 DEF ReqOK
  <1>11. LeftOK  BY <1>1, BoundsAssumption DEF LeftOK
  <1>12. \A w \in Workers : ~Busy(w)  BY <1>1, IdleRow DEF Busy
  <1>13. Routed
    <2>1. \A n \in queue : MsgOK(n)  BY <1>1, <1>2, <1>4, <1>8 DEF MsgOK
    <2>2. QED  BY <1>1, <1>12, <2>1 DEF Routed
  <1>14. Delivered
    <2>1. OneCopy  BY <1>1, <1>8, <1>12 DEF OneCopy
    <2>2. MaxTimeouts <= MaxTimeouts /\ MaxHandlerFaults <= MaxHandlerFaults
          BY BoundsAssumption
    <2>3. QED  BY <1>1, <2>1, <2>2 DEF Delivered
  <1>15. RunningLlmJobCarried
    <2> SUFFICES ASSUME NEW j \in JobIds, jobs[j].type = "llm", jobs[j].status = "running"
                 PROVE  Carried(j)
        BY DEF RunningLlmJobCarried
    <2>1. j = 1 /\ Left[s].task = "llm"  BY <1>2, <1>3, <1>4
    <2>2. QED  BY <1>8, <2>1 DEF Carried
  <1>16. QED
         BY <1>5, <1>6, <1>7, <1>9, <1>10, <1>11, <1>13, <1>14, <1>15 DEF IInv, Typed

\* The invariant is inductive, and no step sets an OCR job back.
THEOREM Invariance == Spec => []IInv
  <1>1. Init => IInv  BY InitIInv
  <1>2. IInv /\ [Next]_vars => IInv'  BY StepIsGood DEF Good
  <1>3. QED  BY <1>1, <1>2, PTL DEF Spec

(* Every table row, message, worker and request keeps its type: progress   *)
(* stays within 0..100 and every OCR result belongs to a page there is.    *)
THEOREM TypeCorrect == Spec => []TypeOK
  <1>1. IInv => TypeOK  BY TypedOK DEF IInv
  <1>2. QED  BY <1>1, Invariance, PTL

(* tasks/celery_app.py task_reject_on_worker_lost, self.retry and the      *)
(* failure signal together: a running extraction job has a worker or a     *)
(* message that goes on with it, until a visibility timeout strikes or a   *)
(* handler of failures fails itself (tasks/celery_app.py:88, 99).          *)
THEOREM RunningCarried == Spec => []RunningLlmJobCarried
  <1>1. IInv => RunningLlmJobCarried  BY DEF IInv
  <1>2. QED  BY <1>1, Invariance, PTL

(* tasks/ocr_tasks.py _update_job_progress: the progress of an OCR job     *)
(* never goes back, with any number of deliveries of its message.          *)
THEOREM ProgressNeverBack == Spec => OcrProgressNeverBack
  <1>1. IInv /\ [Next]_vars => [NeverBack]_vars  BY StepIsGood DEF Good
  <1>2. NeverBack <=> \A j \in JobIds : jobs[j].type = "ocr" /\ jobs'[j].type = "ocr"
                       => jobs'[j].progress >= jobs[j].progress
        BY DEF NeverBack
  <1>3. QED  BY <1>1, <1>2, Invariance, PTL DEF Spec, OcrProgressNeverBack
-----------------------------------------------------------------------------
(***************************************************************************)
(* JobPipeline implements JobLife.  What the types do not say and the      *)
(* refinement needs is LifeInv: under which task ids the failure signal    *)
(* may find a job (IdsOwned), who is about a completed job (DoneAlone),    *)
(* and that without a repeated delivery one message or worker at a time    *)
(* is about a job, and none that could start it once it has failed.        *)
(***************************************************************************)
Live(w) == worker[w].pc \notin {"idle", "ack"}
Around == queue \cup unacked \cup {Msg(w) : w \in {v \in Workers : Busy(v)}}
IdsOwned ==
  /\ \A m, n \in Around : m.id = n.id => m.job = n.job
  /\ \A j \in JobIds : /\ jobs[j].task <= sent
                       /\ \A m \in Around : jobs[j].task = m.id => m.job = j
DoneAlone ==
  \A j \in JobIds : jobs[j].status = "completed" =>
    /\ jobs[j].type = "llm"
    /\ \A w \in Workers :
         Busy(w) /\ JobOf(w) = j => worker[w].pc \in {"llm", "task_failure", "ack"}
    /\ \A c \in Clients : req[c].op # "delete_book" => j \notin req[c].jobs
ReqRows == \A c \in Clients : \A j \in req[c].jobs : jobs[j].type # "none"
OneCarrier ==
  /\ \A m, n \in queue : m.job = n.job => m = n
  /\ \A v, w \in Workers : Live(v) /\ Live(w) /\ JobOf(v) = JobOf(w) => v = w
  /\ \A m \in queue : \A w \in Workers : Live(w) => m.job # JobOf(w)
AfterFailure == {"llm_failed", "task_failure"}
FailedLeft ==
  \A j \in JobIds : jobs[j].status = "failed" =>
    /\ \A m \in queue : m.job # j
    /\ \A w \in Workers : Live(w) /\ JobOf(w) = j => worker[w].pc \in AfterFailure
LifeInv ==
  /\ IdsOwned /\ DoneAlone /\ ReqRows /\ left.crash <= MaxCrashes
  /\ ~Redelivered => OneCarrier /\ FailedLeft

LifeStep == Life!LifeNext \/ UNCHANGED Life!life
Lives == LifeInv' /\ LifeStep

(* The steps of JobLife, by what happens to the rows. *)
LEMMA LifeRows ==
  ASSUME JobsOK
  PROVE  /\ DOMAIN LifeStatus = JobIds
         /\ \A j \in JobIds : /\ LifeStatus[j] = StatusOf(jobs[j])
                              /\ jobs[j].type # "none" => LifeStatus[j] # "unborn"
                              /\ Row(j) => /\ LifeStatus[j] = jobs[j].status
                                           /\ LifeStatus[j] \notin {"unborn", "gone"}
<1>1. \A j \in JobIds : RowOK(j, jobs[j]) /\ jobs[j] \in JobRow  BY DEF JobsOK
<1>2. \A j \in JobIds : Row(j) => jobs[j].type \in {"ocr", "llm"}  BY <1>1 DEF RowOK, Row
<1>3. \A j \in JobIds : jobs[j].status \in JobStatus \cup {NoRow}  BY <1>1 DEF JobRow
<1>4. \A j \in JobIds : jobs[j].type \in {"none", "gone", "ocr", "llm"}  BY <1>1 DEF JobRow
<1>5. QED  BY <1>2, <1>3, <1>4 DEF LifeStatus, StatusOf, JobStatus, NoRow

LEMMA LifeStays ==
  ASSUME JobsOK, JobsOK', \A j \in JobIds : StatusOf(jobs'[j]) = StatusOf(jobs[j]),
         Redelivered' <=> Redelivered
  PROVE  LifeStep
<1>1. LifeStatus' = LifeStatus  BY DEF LifeStatus
<1>2. Redelivered' = Redelivered  BY Zenon DEF Redelivered
<1>3. QED  BY <1>1, <1>2 DEF LifeStep, Life!life

\* Of the rows in S, and only of them, the status becomes st.
Becoming(S, st) ==
  \A j \in JobIds : StatusOf(jobs'[j]) = IF j \in S THEN st ELSE StatusOf(jobs[j])

LEMMA BecomesOK ==
  ASSUME JobsOK, NEW S \in SUBSET JobIds, NEW st, Becoming(S, st)
  PROVE  LifeStatus' = Life!Becomes(S, st)
  BY DEF Becoming, LifeStatus, Life!Becomes

LEMMA LifeStarts ==
  ASSUME JobsOK, NEW k \in JobIds, Row(k), Becoming({k}, "running"),
         jobs[k].status = "failed" => Redelivered, Redelivered' <=> Redelivered
  PROVE  LifeStep
<1>1. LifeStatus' = Life!Becomes({k}, "running")  BY BecomesOK
<1>2. LifeStatus[k] = jobs[k].status /\ LifeStatus[k] \notin {"unborn", "gone"}  BY LifeRows
<1>3. Redelivered' = Redelivered  BY Zenon DEF Redelivered
<1>4. Life!Starts(k)  BY <1>1, <1>2 DEF Life!Starts, Life!HasRow
<1>5. QED  BY <1>3, <1>4 DEF LifeStep, Life!LifeNext

LEMMA CanStop ==
  ASSUME JobsOK, NEW j \in JobIds, Row(j), jobs[j].status # "completed"
  PROVE  j \in Life!Stoppable
<1>1. LifeStatus[j] = jobs[j].status /\ LifeStatus[j] \notin {"unborn", "gone"}  BY LifeRows
<1>2. QED  BY <1>1 DEF Life!Stoppable, Life!HasRow

LEMMA LifeFails ==
  ASSUME JobsOK, NEW k \in JobIds, Row(k), Becoming({k}, "failed"),
         jobs[k].status # "completed", Redelivered' <=> Redelivered
  PROVE  LifeStep
<1>1. LifeStatus' = Life!Becomes({k}, "failed")  BY BecomesOK
<1>2. Redelivered' = Redelivered  BY Zenon DEF Redelivered
<1>3. Life!Fails(k)  BY <1>1, CanStop DEF Life!Fails
<1>4. QED  BY <1>2, <1>3 DEF LifeStep, Life!LifeNext

LEMMA LifeCancels ==
  ASSUME JobsOK, NEW S \in SUBSET JobIds, Becoming(S, "cancelled"),
         \A j \in S : Row(j) /\ jobs[j].status # "completed", Redelivered' <=> Redelivered
  PROVE  LifeStep
<1>1. LifeStatus' = Life!Becomes(S, "cancelled")  BY BecomesOK
<1>2. Redelivered' = Redelivered  BY Zenon DEF Redelivered
<1>3. S \subseteq Life!Stoppable  BY CanStop
<1>4. Life!Cancels(S)  BY <1>1, <1>3 DEF Life!Cancels
<1>5. QED  BY <1>2, <1>4 DEF LifeStep, Life!LifeNext

LEMMA LifeDeletes ==
  ASSUME JobsOK, NEW S \in SUBSET JobIds, Becoming(S, "gone"),
         \A j \in S : jobs[j].type # "none", Redelivered' <=> Redelivered
  PROVE  LifeStep
<1>1. LifeStatus' = Life!Becomes(S, "gone")  BY BecomesOK
<1>2. Redelivered' = Redelivered  BY Zenon DEF Redelivered
<1>3. \A j \in S : LifeStatus[j] # "unborn"  BY LifeRows
<1>4. Life!Deletes(S)  BY <1>1, <1>3 DEF Life!Deletes
<1>5. QED  BY <1>2, <1>4 DEF LifeStep, Life!LifeNext

LEMMA LifeQueues ==
  ASSUME JobsOK, NEW k \in JobIds, jobs[k].type = "none", NEW S \in SUBSET JobIds,
         \A j \in S : Row(j) /\ jobs[j].status # "completed",
         \A j \in JobIds \ {k} :
           StatusOf(jobs'[j]) = IF j \in S THEN "cancelled" ELSE StatusOf(jobs[j]),
         StatusOf(jobs'[k]) = "queued", Redelivered' <=> Redelivered
  PROVE  LifeStep
<1>1. LifeStatus' = [Life!Becomes(S, "cancelled") EXCEPT ![k] = "queued"]
      BY DEF LifeStatus, Life!Becomes
<1>2. Redelivered' = Redelivered  BY Zenon DEF Redelivered
<1>3. S \subseteq Life!Stoppable  BY CanStop
<1>4. LifeStatus[k] = "unborn"  BY DEF LifeStatus, StatusOf
<1>5. Life!Queues(k, S)  BY <1>1, <1>3, <1>4 DEF Life!Queues
<1>6. QED  BY <1>2, <1>5 DEF LifeStep, Life!LifeNext

(* How LifeInv is kept. *)
SameDeliveries == left'.crash = left.crash /\ left'.timeout = left.timeout
LEMMA Deliveries ==
  ASSUME IInv,
         UNCHANGED left \/ Spend("fault") \/ Spend("request") \/ Spend("handler")
  PROVE  SameDeliveries
  BY DEF IInv, Typed, LeftOK, Spend, SameDeliveries

LEMMA AroundOK ==
  ASSUME IInv
  PROVE  \A m \in Around : m \in Messages /\ m.id \in 1..sent /\ sent \in Nat
<1>1. \A m \in queue \cup unacked : m \in Messages /\ m.id \in 1..sent
      BY MsgTyped DEF IInv, Routed, MsgOK
<1>2. \A w \in Workers : Busy(w) => Msg(w) \in Messages /\ Msg(w).id \in 1..sent
      BY MsgTyped DEF IInv, Routed, MsgOK
<1>3. sent \in Nat  BY DEF IInv, Typed, BrokerOK
<1>4. QED  BY <1>1, <1>2, <1>3 DEF Around

LEMMA IdsKept ==
  ASSUME IInv, IdsOwned, sent' = sent,
         \A m \in Around' : \E n \in Around : n.id = m.id /\ n.job = m.job,
         \A j \in JobIds : \/ jobs'[j].task \in {jobs[j].task, 0}
                           \/ \E m \in Around : m.job = j /\ m.id = jobs'[j].task
  PROVE  IdsOwned'
<1>1. sent \in Nat  BY DEF IInv, Typed, BrokerOK
<1>2. \A m \in Around : m.id \in 1..sent  BY AroundOK
<1>3. \A m, n \in Around' : m.id = n.id => m.job = n.job
  <2> TAKE m, n \in Around'
  <2>1. PICK k \in Around : k.id = m.id /\ k.job = m.job  OBVIOUS
  <2>2. PICK l \in Around : l.id = n.id /\ l.job = n.job  OBVIOUS
  <2>3. QED  BY <2>1, <2>2 DEF IdsOwned
<1>4. ASSUME NEW j \in JobIds
      PROVE  jobs'[j].task <= sent' /\ \A m \in Around' : jobs'[j].task = m.id => m.job = j
  <2>1. jobs[j].task <= sent /\ \A m \in Around : jobs[j].task = m.id => m.job = j
        BY DEF IdsOwned
  <2>2. jobs'[j].task <= sent  BY <1>1, <1>2, <2>1
  <2>3. ASSUME NEW m \in Around', jobs'[j].task = m.id  PROVE m.job = j
    <3>1. PICK n \in Around : n.id = m.id /\ n.job = m.job  BY <2>3
    <3>2. CASE jobs'[j].task \in {jobs[j].task, 0}  BY <1>2, <2>1, <2>3, <3>1, <3>2
    <3>3. CASE \E k \in Around : k.job = j /\ k.id = jobs'[j].task
          BY <2>3, <3>1, <3>3 DEF IdsOwned
    <3>4. QED  BY <3>2, <3>3
  <2>4. QED  BY <2>2, <2>3
<1>5. QED  BY <1>3, <1>4 DEF IdsOwned

\* A worker goes on with its message, and with its job's row at most.
Moves(w, pc) ==
  /\ worker'[w].pc = pc /\ worker'[w].msg = worker[w].msg
  /\ \A v \in Workers \ {w} : worker'[v] = worker[v]
RowMoves(w, k, pc) ==
  /\ \A j \in JobIds \ {k} : jobs'[j] = jobs[j]
  /\ jobs'[k].type = jobs[k].type /\ jobs'[k].task \in {jobs[k].task, Msg(w).id}
  /\ \/ jobs'[k].status = jobs[k].status
     \/ /\ Row(k) /\ jobs'[k].status = "running"
        /\ worker[w].pc \notin AfterFailure
     \/ /\ Row(k) /\ jobs'[k].status = "failed" /\ jobs[k].status # "completed"
        /\ pc \in AfterFailure \cup {"ack"}

LEMMA StepLives ==
  ASSUME IInv, LifeInv, NEW w \in Workers, Live(w), NEW pc, pc # "idle", Moves(w, pc),
         NEW k \in JobIds, k = JobOf(w), RowMoves(w, k, pc), JobsOK',
         UNCHANGED <<queue, unacked, sent, req>>, SameDeliveries,
         worker[w].pc \in AfterFailure => pc \in {"task_failure", "ack"},
         worker[w].pc = "llm" /\ jobs'[k].status = "completed" => pc \in {"task_failure", "ack"}
  PROVE  Lives
<1> USE DEF Msg, JobOf
<1>1. JobsOK /\ Busy(w)  BY DEF IInv, Typed, Live, Busy
<1>2. Redelivered' <=> Redelivered  BY DEF Redelivered, SameDeliveries
<1>3. \A v \in Workers : (Busy(v)' <=> Busy(v)) /\ (Live(v)' => Live(v))
                         /\ worker'[v].msg = worker[v].msg
      BY <1>1 DEF Moves, Busy, Live
<1>4. \A m \in Around' : m \in Around
      BY <1>3 DEF Around
<1>5. Msg(w) \in Around  BY <1>1 DEF Around
<1>6. IdsOwned'
  <2>1. \A j \in JobIds : \/ jobs'[j].task \in {jobs[j].task, 0}
                          \/ \E m \in Around : m.job = j /\ m.id = jobs'[j].task
        BY <1>5 DEF RowMoves
  <2>2. QED  BY <1>4, <2>1, IdsKept DEF LifeInv
<1>7. DoneAlone'
  <2> SUFFICES ASSUME NEW j \in JobIds, jobs'[j].status = "completed"
               PROVE  /\ jobs'[j].type = "llm"
                      /\ \A v \in Workers : Busy(v)' /\ worker'[v].msg.job = j
                           => worker'[v].pc \in {"llm", "task_failure", "ack"}
                      /\ \A c \in Clients : req'[c].op # "delete_book" => j \notin req'[c].jobs
      BY DEF DoneAlone
  <2>1. jobs[j].status = "completed" /\ jobs'[j].type = jobs[j].type  BY DEF RowMoves
  <2>2. /\ jobs[j].type = "llm"
        /\ \A v \in Workers : Busy(v) /\ worker[v].msg.job = j
             => worker[v].pc \in {"llm", "task_failure", "ack"}
        /\ \A c \in Clients : req[c].op # "delete_book" => j \notin req[c].jobs
        BY <2>1 DEF LifeInv, DoneAlone
  <2>3. ASSUME NEW v \in Workers, Busy(v)', worker'[v].msg.job = j
        PROVE  worker'[v].pc \in {"llm", "task_failure", "ack"}
    <3>1. worker[v].pc \in {"llm", "task_failure", "ack"}  BY <1>3, <2>2, <2>3
    <3>2. CASE v # w  BY <3>1, <3>2 DEF Moves
    <3>3. CASE v = w
      <4>1. j = k  BY <1>3, <2>3, <3>3
      <4>2. QED  BY <3>1, <3>3, <4>1 DEF Moves, Live, AfterFailure
    <3>4. QED  BY <3>2, <3>3
  <2>4. QED  BY <2>1, <2>2, <2>3
<1>8. ReqRows'  BY ReqJobs DEF LifeInv, ReqRows, RowMoves
<1>9. left'.crash <= MaxCrashes  BY DEF LifeInv, SameDeliveries
<1>10. OneCarrier => OneCarrier'  BY <1>3 DEF OneCarrier
<1>11. ASSUME ~Redelivered  PROVE FailedLeft'
  <2> SUFFICES ASSUME NEW j \in JobIds, jobs'[j].status = "failed"
               PROVE  /\ \A m \in queue : m.job # j
                      /\ \A v \in Workers : Live(v)' /\ worker'[v].msg.job = j
                           => worker'[v].pc \in AfterFailure
      BY DEF FailedLeft
  <2>1. OneCarrier /\ FailedLeft  BY <1>11 DEF LifeInv
  <2>2. CASE j # k
    <3>1. jobs[j].status = "failed"  BY <2>2 DEF RowMoves
    <3>2. \A v \in Workers : Live(v)' /\ worker'[v].msg.job = j => v # w /\ Live(v)
          BY <1>3, <2>2
    <3>3. QED  BY <2>1, <3>1, <3>2 DEF FailedLeft, Moves
  <2>3. CASE j = k
    <3>1. \A m \in queue : m.job # k  BY <2>1 DEF OneCarrier
    <3>2. \A v \in Workers : Live(v)' /\ worker'[v].msg.job = j => v = w
          BY <1>3, <2>1, <2>3 DEF OneCarrier
    <3>3. CASE jobs[k].status = "failed" /\ jobs'[k].status = jobs[k].status
      <4>1. worker[w].pc \in AfterFailure  BY <2>1, <3>3 DEF FailedLeft
      <4>2. QED  BY <2>3, <3>1, <3>2, <4>1 DEF Moves, Live, AfterFailure
    <3>4. CASE pc \in AfterFailure \cup {"ack"}
          BY <2>3, <3>1, <3>2, <3>4 DEF Moves, Live, AfterFailure
    <3>5. QED  BY <2>3, <3>3, <3>4 DEF RowMoves
  <2>4. QED  BY <2>2, <2>3
<1>12. LifeInv'
       BY <1>2, <1>6, <1>7, <1>8, <1>9, <1>10, <1>11 DEF LifeInv
<1>13. LifeStep
  <2>1. \A j \in JobIds \ {k} : StatusOf(jobs'[j]) = StatusOf(jobs[j])  BY DEF RowMoves
  <2>2. CASE jobs'[k].status = jobs[k].status
    <3>1. \A j \in JobIds : StatusOf(jobs'[j]) = StatusOf(jobs[j])
          BY <2>1, <2>2 DEF RowMoves, StatusOf
    <3>2. QED  BY <1>1, <1>2, <3>1, LifeStays
  <2>3. Row(k) => jobs'[k].type \in {"ocr", "llm"}
    <3>1. RowOK(k, jobs[k])  BY <1>1 DEF JobsOK
    <3>2. QED  BY <3>1 DEF RowOK, Row, RowMoves
  <2>4. CASE Row(k) /\ jobs'[k].status = "running" /\ worker[w].pc \notin AfterFailure
    <3>1. Becoming({k}, "running")  BY <2>1, <2>3, <2>4 DEF Becoming, StatusOf
    <3>2. jobs[k].status = "failed" => Redelivered  BY <2>4 DEF LifeInv, FailedLeft
    <3>3. QED  BY <1>1, <1>2, <2>4, <3>1, <3>2, LifeStarts
  <2>5. CASE Row(k) /\ jobs'[k].status = "failed" /\ jobs[k].status # "completed"
    <3>1. Becoming({k}, "failed")  BY <2>1, <2>3, <2>5 DEF Becoming, StatusOf
    <3>2. QED  BY <1>1, <1>2, <2>5, <3>1, LifeFails
  <2>6. QED  BY <2>2, <2>4, <2>5 DEF RowMoves
<1>14. QED  BY <1>12, <1>13 DEF Lives

\* The rows stay as they are, and a delivery may be repeated.
LEMMA LifeAgain ==
  ASSUME UNCHANGED jobs, Redelivered => Redelivered'
  PROVE  LifeStep
<1>1. LifeStatus' = LifeStatus  BY DEF LifeStatus
<1>2. CASE Redelivered'
  <2>1. Redelivered' = TRUE  BY <1>2, Zenon DEF Redelivered
  <2>2. Life!Redelivers  BY <1>1, <2>1 DEF Life!Redelivers
  <2>3. QED  BY <2>2 DEF LifeStep, Life!LifeNext
<1>3. CASE ~Redelivered'
  <2>1. Redelivered' = Redelivered  BY <1>3, Zenon DEF Redelivered
  <2>2. QED  BY <1>1, <2>1 DEF LifeStep, Life!life
<1>4. QED  BY <1>2, <1>3

\* The worker is done with its message; the same message may wait again.
LEMMA LeaveLives ==
  ASSUME IInv, LifeInv, NEW w \in Workers, Busy(w), NEW Q,
         \A n \in Q : n.id = Msg(w).id /\ n.job = JobOf(w),
         \A m, n \in Q : m = n,
         queue' = queue \cup Q, unacked' = unacked \ {Msg(w)},
         worker' = [worker EXCEPT ![w] = Idle],
         UNCHANGED <<data, sent, born, req>>,
         Redelivered => Redelivered', left'.crash <= MaxCrashes,
         Redelivered' \/ Q = {} \/ (Live(w) /\ worker[w].pc \notin AfterFailure)
  PROVE  Lives
<1> USE DEF Msg, JobOf
<1>1. /\ worker'[w] = Idle /\ \A v \in Workers \ {w} : worker'[v] = worker[v]
      BY DEF IInv, Typed, WorkersOK
<1>2. UNCHANGED jobs /\ sent' = sent /\ req' = req  BY DEF data
<1>3. \A v \in Workers : Busy(v)' => v # w /\ Busy(v) /\ worker'[v] = worker[v]
      BY <1>1, IdleRow DEF Busy
<1>4. \A v \in Workers : Live(v)' => v # w /\ Live(v) /\ worker'[v] = worker[v]
      BY <1>1, IdleRow DEF Live
<1>5. worker[w].msg \in Around  BY DEF Around
<1>6. \A m \in Around' : \E n \in Around : n.id = m.id /\ n.job = m.job
  <2> TAKE m \in Around'
  <2>1. CASE m \in queue' \cup unacked'
    <3>1. m \in Around \/ m \in Q  BY <2>1 DEF Around
    <3>2. QED  BY <1>5, <3>1
  <2>2. CASE \E v \in Workers : Busy(v)' /\ m = worker'[v].msg
    <3>1. m \in Around  BY <1>3, <2>2 DEF Around
    <3>2. QED  BY <3>1
  <2>3. QED  BY <2>1, <2>2 DEF Around
<1>7. IdsOwned'
  <2>1. \A j \in JobIds : jobs'[j].task \in {jobs[j].task, 0}  BY <1>2
  <2>2. QED  BY <1>2, <1>6, <2>1, IdsKept DEF LifeInv
<1>8. DoneAlone'  BY <1>2, <1>3 DEF LifeInv, DoneAlone
<1>9. ReqRows'  BY <1>2 DEF LifeInv, ReqRows
<1>10. ASSUME ~Redelivered'  PROVE OneCarrier' /\ FailedLeft'
  <2>1. OneCarrier /\ FailedLeft  BY <1>10 DEF LifeInv
  <2>2. Q = {} \/ (Live(w) /\ worker[w].pc \notin AfterFailure)  BY <1>10
  <2>3. \A n \in Q : /\ \A m \in queue : m.job # n.job
                     /\ \A v \in Workers : Live(v)' => n.job # worker'[v].msg.job
                     /\ jobs[n.job].status = "failed" /\ n.job \in JobIds => FALSE
        BY <1>4, <2>1, <2>2 DEF OneCarrier, FailedLeft
  <2>4. OneCarrier'
    <3>1. \A m, n \in queue' : m.job = n.job => m = n  BY <2>1, <2>3 DEF OneCarrier
    <3>2. \A u, v \in Workers : Live(u)' /\ Live(v)' /\ worker'[u].msg.job = worker'[v].msg.job
            => u = v
          BY <1>4, <2>1 DEF OneCarrier
    <3>3. \A m \in queue' : \A v \in Workers : Live(v)' => m.job # worker'[v].msg.job
          BY <1>4, <2>1, <2>3 DEF OneCarrier
    <3>4. QED  BY <3>1, <3>2, <3>3 DEF OneCarrier
  <2>5. FailedLeft'
    <3> SUFFICES ASSUME NEW j \in JobIds, jobs[j].status = "failed"
                 PROVE  /\ \A m \in queue' : m.job # j
                        /\ \A v \in Workers : Live(v)' /\ worker'[v].msg.job = j
                             => worker'[v].pc \in AfterFailure
        BY <1>2 DEF FailedLeft
    <3>1. \A m \in queue' : m.job # j  BY <2>1, <2>3 DEF FailedLeft
    <3>2. QED  BY <1>4, <2>1, <3>1 DEF FailedLeft
  <2>6. QED  BY <2>4, <2>5
<1>11. LifeInv'  BY <1>7, <1>8, <1>9, <1>10 DEF LifeInv
<1>12. QED  BY <1>2, <1>11, LifeAgain DEF Lives

LEMMA TakeLives ==
  ASSUME IInv, LifeInv, NEW w \in Workers, Take(w)
  PROVE  Lives
<1> USE DEF Msg, JobOf
<1>1. PICK m \in queue :
        /\ queue' = queue \ {m} /\ unacked' = unacked \cup {m}
        /\ worker' = [worker EXCEPT ![w] = [Idle EXCEPT !.pc = m.task, !.msg = m]]
      BY DEF Take
<1> DEFINE r == [Idle EXCEPT !.pc = m.task, !.msg = m]
<1>2. m \in Messages /\ MsgOK(m)  BY MsgTyped DEF IInv, Routed
<1>3. r.pc = m.task /\ r.msg = m  BY DEF Idle
<1>4. worker' = [worker EXCEPT ![w] = r]  BY <1>1
<1> HIDE DEF r
<1>5. /\ worker'[w] = r /\ \A v \in Workers \ {w} : worker'[v] = worker[v]
      BY <1>4 DEF IInv, Typed, WorkersOK
<1>6. UNCHANGED <<data, sent, born, req, left>> /\ UNCHANGED jobs /\ ~Busy(w)
      BY DEF Take, data, At, Busy
<1>7. \A v \in Workers \ {w} : (Busy(v)' <=> Busy(v)) /\ (Live(v)' <=> Live(v))
      BY <1>5 DEF Busy, Live
<1>8. \A n \in Around' : n \in Around
  <2> TAKE n \in Around'
  <2>1. CASE n \in queue' \cup unacked'  BY <1>1, <2>1 DEF Around
  <2>2. CASE \E v \in Workers : Busy(v)' /\ n = worker'[v].msg
    <3>1. PICK v \in Workers : Busy(v)' /\ n = worker'[v].msg  BY <2>2
    <3>2. CASE v = w  BY <1>3, <1>5, <3>1, <3>2 DEF Around
    <3>3. CASE v # w  BY <1>5, <1>7, <3>1, <3>3 DEF Around
    <3>4. QED  BY <3>2, <3>3
  <2>3. QED  BY <2>1, <2>2 DEF Around
<1>9. IdsOwned'
  <2>1. \A j \in JobIds : jobs'[j].task \in {jobs[j].task, 0}  BY <1>6
  <2>2. QED  BY <1>6, <1>8, <2>1, IdsKept DEF LifeInv
<1>10. DoneAlone'
  <2> SUFFICES ASSUME NEW j \in JobIds, jobs[j].status = "completed", NEW v \in Workers,
                      Busy(v)', worker'[v].msg.job = j
               PROVE  worker'[v].pc \in {"llm", "task_failure", "ack"}
      BY <1>6 DEF LifeInv, DoneAlone
  <2>1. jobs[j].type = "llm"  BY DEF LifeInv, DoneAlone
  <2>2. CASE v = w
    <3>1. m.job = j  BY <1>3, <1>5, <2>2
    <3>2. m.task = "llm"  BY <1>2, <2>1, <3>1 DEF MsgOK
    <3>3. QED  BY <1>3, <1>5, <2>2, <3>2
  <2>3. CASE v # w  BY <1>5, <1>7, <2>3 DEF LifeInv, DoneAlone
  <2>4. QED  BY <2>2, <2>3
<1>11. ReqRows' /\ left'.crash <= MaxCrashes  BY <1>6 DEF LifeInv, ReqRows
<1>12. Redelivered' <=> Redelivered  BY <1>6 DEF Redelivered
<1>13. ASSUME ~Redelivered  PROVE OneCarrier' /\ FailedLeft'
  <2>1. OneCarrier /\ FailedLeft  BY <1>13 DEF LifeInv
  <2>2. OneCarrier'  BY <1>1, <1>3, <1>5, <1>7, <2>1 DEF OneCarrier
  <2>3. FailedLeft'
    <3> SUFFICES ASSUME NEW j \in JobIds, jobs[j].status = "failed"
                 PROVE  /\ \A n \in queue' : n.job # j
                        /\ \A v \in Workers : Live(v)' /\ worker'[v].msg.job = j
                             => worker'[v].pc \in AfterFailure
        BY <1>6 DEF FailedLeft
    <3>1. m.job # j  BY <2>1 DEF FailedLeft
    <3>2. QED  BY <1>1, <1>3, <1>5, <1>7, <2>1, <3>1 DEF FailedLeft
  <2>4. QED  BY <2>2, <2>3
<1>14. LifeInv'  BY <1>9, <1>10, <1>11, <1>12, <1>13 DEF LifeInv
<1>15. QED  BY <1>6, <1>12, <1>14, LifeAgain DEF Lives

\* A message is delivered again while its worker goes on.
LEMMA TimeoutLives ==
  ASSUME IInv, LifeInv, VisibilityTimeout
  PROVE  Lives
<1> USE DEF Msg, JobOf
<1>1. PICK m \in unacked :
        /\ Spend("timeout") /\ queue' = queue \cup {m} /\ unacked' = unacked \ {m}
        /\ UNCHANGED <<data, sent, born, worker, req>>
      BY DEF VisibilityTimeout
<1>2. left'.timeout # MaxTimeouts /\ left'.crash = left.crash
  <2>1. LeftOK /\ left.timeout <= MaxTimeouts  BY DEF IInv, Typed, Delivered
  <2>2. left'.timeout = left.timeout - 1 /\ left'.crash = left.crash
        BY <1>1, <2>1 DEF LeftOK, Spend
  <2>3. left.timeout \in Nat /\ MaxTimeouts \in Nat  BY <2>1, BoundsAssumption DEF LeftOK
  <2>4. QED  BY <2>1, <2>2, <2>3
<1>3. UNCHANGED jobs /\ sent' = sent /\ worker' = worker /\ req' = req  BY <1>1 DEF data
<1>4. \A n \in Around' : n \in Around  BY <1>1, <1>3 DEF Around, Busy
<1>5. IdsOwned'
  <2>1. \A j \in JobIds : jobs'[j].task \in {jobs[j].task, 0}  BY <1>3
  <2>2. QED  BY <1>3, <1>4, <2>1, IdsKept DEF LifeInv
<1>6. DoneAlone' /\ ReqRows'  BY <1>3 DEF LifeInv, DoneAlone, ReqRows, Busy
<1>7. Redelivered' /\ left'.crash <= MaxCrashes  BY <1>2 DEF Redelivered, LifeInv
<1>8. LifeInv'  BY <1>5, <1>6, <1>7 DEF LifeInv
<1>9. QED  BY <1>3, <1>7, <1>8, LifeAgain DEF Lives

\* The message of the OCR task takes over from the one that is acknowledged next.
LEMMA DispatchLives ==
  ASSUME IInv, LifeInv, NEW w \in Workers, At(w, "prep_dispatch"), Dispatch(w)
  PROVE  Lives
<1> USE DEF Msg, JobOf
<1> DEFINE x == Message("ocr", JobOf(w), sent + 1, 0)
<1>1. /\ worker[w].pc = "prep_dispatch" /\ sent' = sent + 1 /\ queue' = queue \cup {x}
      /\ worker' = [worker EXCEPT ![w].pc = "ack"]
      /\ UNCHANGED <<data, unacked, born, req, left>> /\ UNCHANGED jobs
      BY DEF Dispatch, Goto, At, data
<1>2. x.id = sent + 1 /\ x.job = worker[w].msg.job  BY DEF Message
<1> HIDE DEF x
<1>3. Busy(w) /\ Live(w) /\ sent \in Nat  BY <1>1 DEF Busy, Live, IInv, Typed, BrokerOK
<1>4. /\ worker'[w].pc = "ack" /\ worker'[w].msg = worker[w].msg
      /\ \A v \in Workers \ {w} : worker'[v] = worker[v]
      BY <1>1 DEF IInv, Typed, WorkersOK, WorkerRow
<1>5. \A v \in Workers : /\ (Busy(v)' <=> Busy(v)) /\ worker'[v].msg = worker[v].msg
                         /\ Live(v)' => v # w /\ Live(v)
      BY <1>3, <1>4 DEF Busy, Live
<1>6. \A m \in Around' : m \in Around \/ m = x  BY <1>1, <1>5 DEF Around
<1>7. IdsOwned'
  <2>1. \A m \in Around : m.id \in 1..sent  BY AroundOK
  <2>2. \A j \in JobIds : jobs[j].task <= sent  BY DEF LifeInv, IdsOwned
  <2>3. \A j \in JobIds : jobs[j].task \in Nat  BY DEF IInv, Typed, JobsOK, JobRow
  <2>4. \A m, n \in Around' : m.id = n.id => m.job = n.job
        BY <1>2, <1>3, <1>6, <2>1 DEF LifeInv, IdsOwned
  <2>5. \A j \in JobIds : jobs'[j].task <= sent'  BY <1>1, <1>3, <2>2, <2>3
  <2>6. \A j \in JobIds : \A m \in Around' : jobs'[j].task = m.id => m.job = j
        BY <1>1, <1>2, <1>3, <1>6, <2>2, <2>3 DEF LifeInv, IdsOwned
  <2>7. QED  BY <2>4, <2>5, <2>6 DEF IdsOwned
<1>8. DoneAlone'  BY <1>1, <1>4, <1>5 DEF LifeInv, DoneAlone
<1>9. ReqRows' /\ left'.crash <= MaxCrashes  BY <1>1 DEF LifeInv, ReqRows
<1>10. Redelivered' <=> Redelivered  BY <1>1 DEF Redelivered
<1>11. ASSUME ~Redelivered  PROVE OneCarrier' /\ FailedLeft'
  <2>1. OneCarrier /\ FailedLeft  BY <1>11 DEF LifeInv
  <2>2. OneCarrier'  BY <1>1, <1>2, <1>3, <1>5, <2>1 DEF OneCarrier
  <2>3. worker[w].pc \notin AfterFailure  BY <1>1 DEF AfterFailure
  <2>4. \A j \in JobIds : jobs[j].status = "failed" => x.job # j
        BY <1>2, <1>3, <2>1, <2>3 DEF FailedLeft
  <2>5. FailedLeft'
    <3> SUFFICES ASSUME NEW j \in JobIds, jobs[j].status = "failed"
                 PROVE  /\ \A n \in queue' : n.job # j
                        /\ \A v \in Workers : Live(v)' /\ worker'[v].msg.job = j
                             => worker'[v].pc \in AfterFailure
        BY <1>1 DEF FailedLeft
    <3>1. QED  BY <1>1, <1>4, <1>5, <2>1, <2>4 DEF FailedLeft
  <2>6. QED  BY <2>2, <2>5
<1>12. LifeInv'  BY <1>7, <1>8, <1>9, <1>10, <1>11 DEF LifeInv
<1>13. QED  BY <1>1, <1>10, <1>12, LifeAgain DEF Lives

(* What each step of a worker does to it and to its job's row. *)
LEMMA Going ==
  ASSUME IInv, NEW w \in Workers
  PROVE  /\ \A pc : Goto(w, pc) => Moves(w, pc)
         /\ \A S, pc : StartLoop(w, S, pc) => Moves(w, pc)
         /\ \A a, b : Advance(w, a, b) => Moves(w, a) \/ Moves(w, b)
<1>1. worker \in [Workers -> WorkerRow]  BY DEF IInv, Typed, WorkersOK
<1>2. \A pc : Goto(w, pc) => Moves(w, pc)  BY <1>1 DEF Goto, Moves, WorkerRow
<1>3. \A S, pc : StartLoop(w, S, pc) => Moves(w, pc)
      BY <1>1 DEF StartLoop, Moves, WorkerRow
<1>4. \A a, b : Advance(w, a, b) => Moves(w, a) \/ Moves(w, b)
      BY <1>1 DEF Advance, Moves, WorkerRow
<1>5. QED  BY <1>2, <1>3, <1>4

\* Neither the row nor what waits changes.
LEMMA LocalLives ==
  ASSUME IInv, LifeInv, NEW w \in Workers, Live(w), NEW pc, pc # "idle", Moves(w, pc),
         UNCHANGED <<jobs, queue, unacked, sent, req>>, SameDeliveries,
         worker[w].pc \notin AfterFailure,
         worker[w].pc # "llm" \/ pc = "task_failure" \/ ~Row(JobOf(w))
  PROVE  Lives
<1>1. JobsOK /\ JobsOK' /\ JobOf(w) \in JobIds  BY MsgTyped DEF IInv, Typed, JobsOK
<1>2. PICK k \in JobIds : k = JobOf(w)  BY <1>1
<1>3. RowMoves(w, k, pc)  BY DEF RowMoves
<1>4. ~Row(k) => jobs'[k].status # "completed"  BY DEF Row, NoRow
<1>5. QED  BY <1>1, <1>2, <1>3, <1>4, StepLives

\* Its progress changes.
LEMMA ProgressLives ==
  ASSUME IInv, LifeInv, NEW w \in Workers, Live(w), NEW pc, pc # "idle", Moves(w, pc),
         jobs' = jobs \/ \E p : jobs' = [jobs EXCEPT ![JobOf(w)].progress = p], JobsOK',
         UNCHANGED <<queue, unacked, sent, req>>, SameDeliveries,
         worker[w].pc \notin AfterFailure \cup {"llm"}
  PROVE  Lives
<1>1. JobsOK /\ JobOf(w) \in JobIds  BY MsgTyped DEF IInv, Typed
<1>2. PICK k \in JobIds : k = JobOf(w)  BY <1>1
<1>3. RowMoves(w, k, pc)  BY <1>1, <1>2 DEF RowMoves, JobsOK, JobRow
<1>4. QED  BY <1>1, <1>2, <1>3, StepLives

LEMMA StartLives ==
  ASSUME IInv, LifeInv, NEW w \in Workers, Live(w), NEW pc, pc # "idle", Goto(w, pc), Tick,
         Row(JobOf(w)), NEW t, StartJob(w, t), t \in {jobs[JobOf(w)].task, Msg(w).id},
         JobsOK', worker[w].pc \notin AfterFailure
  PROVE  Lives
<1>1. JobsOK /\ JobOf(w) \in JobIds  BY MsgTyped DEF IInv, Typed
<1>2. PICK k \in JobIds : k = JobOf(w)  BY <1>1
<1>3. jobs' = [jobs EXCEPT ![k].status = "running", ![k].task = t]  BY <1>2 DEF StartJob
<1>4. /\ jobs'[k].status = "running" /\ jobs'[k].task = t /\ jobs'[k].type = jobs[k].type
      /\ \A j \in JobIds \ {k} : jobs'[j] = jobs[j]
      BY <1>1, <1>3 DEF JobsOK, JobRow
<1>5. RowMoves(w, k, pc)  BY <1>2, <1>4 DEF RowMoves
<1>6. Moves(w, pc) /\ SameDeliveries /\ UNCHANGED <<queue, unacked, sent, req>>
      BY Going, Deliveries DEF Tick, broker
<1>7. QED  BY <1>1, <1>2, <1>4, <1>5, <1>6, StepLives

LEMMA NotDone ==
  ASSUME IInv, LifeInv, NEW w \in Workers, Live(w),
         worker[w].pc \notin {"llm", "task_failure"}
  PROVE  jobs[JobOf(w)].status # "completed"
<1>1. JobOf(w) \in JobIds /\ Busy(w)  BY MsgTyped DEF Live, Busy
<1>2. QED  BY <1>1 DEF LifeInv, DoneAlone, Live

LEMMA EndLives ==
  ASSUME IInv, LifeInv, NEW w \in Workers, Live(w), NEW pc \in AfterFailure \cup {"ack"},
         Moves(w, pc), JobsOK',
         jobs' = IF Row(JobOf(w)) THEN [jobs EXCEPT ![JobOf(w)].status = "failed"] ELSE jobs,
         UNCHANGED <<queue, unacked, sent, req>>, SameDeliveries,
         worker[w].pc \notin {"llm", "task_failure"},
         worker[w].pc = "llm_failed" => pc = "task_failure"
  PROVE  Lives
<1>1. JobsOK /\ JobOf(w) \in JobIds  BY MsgTyped DEF IInv, Typed
<1>2. PICK k \in JobIds : k = JobOf(w)  BY <1>1
<1>3. jobs[k].status # "completed"  BY <1>2, NotDone
<1>4. RowMoves(w, k, pc)  BY <1>1, <1>2, <1>3 DEF RowMoves, JobsOK, JobRow
<1>5. pc # "idle"  BY DEF AfterFailure
<1>6. worker[w].pc \in AfterFailure => pc \in {"task_failure", "ack"}  BY DEF AfterFailure
<1>7. QED  BY <1>1, <1>2, <1>4, <1>5, <1>6, StepLives

LEMMA RetryLives ==
  ASSUME IInv, LifeInv, NEW w \in Workers, Live(w), worker[w].pc \notin AfterFailure,
         Retry(w), SameDeliveries
  PROVE  Lives
<1>1. CASE /\ queue' = queue \cup {[Msg(w) EXCEPT !.tries = @ + 1]}
           /\ unacked' = unacked \ {Msg(w)}
           /\ worker' = [worker EXCEPT ![w] = Idle]
  <2> DEFINE x == [Msg(w) EXCEPT !.tries = @ + 1]
             Q == {x}
  <2>1. x.id = Msg(w).id /\ x.job = JobOf(w)  BY MsgTyped DEF Messages, JobOf, Msg
  <2> HIDE DEF x
  <2>2. /\ \A n \in Q : n.id = Msg(w).id /\ n.job = JobOf(w)
        /\ \A m, n \in Q : m = n
        BY <2>1
  <2>3. queue' = queue \cup Q /\ UNCHANGED <<data, sent, born, req>>
        BY <1>1 DEF Retry, x
  <2>4. /\ Redelivered => Redelivered'
        /\ left'.crash <= MaxCrashes
        BY DEF Redelivered, SameDeliveries, LifeInv
  <2>5. Busy(w)  BY DEF Live, Busy
  <2> HIDE DEF Q
  <2>6. QED  BY <1>1, <2>2, <2>3, <2>4, <2>5, LeaveLives
<1>2. CASE UNCHANGED <<queue, unacked>> /\ Goto(w, "task_failure")
  <2>1. Moves(w, "task_failure")  BY <1>2, Going
  <2>2. UNCHANGED <<jobs, queue, unacked, sent, req>>  BY <1>2 DEF Retry, data
  <2>3. QED  BY <2>1, <2>2, LocalLives
<1>3. QED  BY <1>1, <1>2 DEF Retry

LEMMA TransientLives ==
  ASSUME IInv, LifeInv, NEW w \in Workers, Live(w), worker[w].pc \notin AfterFailure,
         Transient(w)
  PROVE  Lives
  BY Deliveries, RetryLives DEF Transient

LEMMA AckLives ==
  ASSUME IInv, LifeInv, NEW w \in Workers, Ack(w)
  PROVE  Lives
<1>1. PICK Q : Q = {}  OBVIOUS
<1>2. /\ queue' = queue \cup Q /\ unacked' = unacked \ {Msg(w)}
      /\ worker' = [worker EXCEPT ![w] = Idle]
      /\ UNCHANGED <<data, sent, born, req>> /\ UNCHANGED left /\ Busy(w)
      BY <1>1 DEF Ack, At, Busy
<1>3. /\ \A n \in Q : n.id = Msg(w).id /\ n.job = JobOf(w)
      /\ \A m, n \in Q : m = n
      BY <1>1
<1>4. (Redelivered => Redelivered') /\ left'.crash <= MaxCrashes
      BY <1>2 DEF Redelivered, LifeInv
<1>5. QED  BY <1>1, <1>2, <1>3, <1>4, LeaveLives

LEMMA CrashLives ==
  ASSUME IInv, LifeInv, NEW w \in Workers, Crash(w)
  PROVE  Lives
<1>1. PICK Q : Q = unacked \cap {Msg(w)}  OBVIOUS
<1>2. /\ queue' = queue \cup Q /\ unacked' = unacked \ {Msg(w)}
      /\ worker' = [worker EXCEPT ![w] = Idle]
      /\ UNCHANGED <<data, sent, born, req>> /\ Busy(w) /\ Spend("crash")
      BY <1>1 DEF Crash, At, Busy
<1>3. left'.crash <= MaxCrashes /\ left'.crash # MaxCrashes
  <2>1. left.crash \in Nat /\ left.crash <= MaxCrashes /\ left'.crash = left.crash - 1
        BY <1>2 DEF IInv, Typed, LeftOK, Spend, LifeInv
  <2>2. MaxCrashes \in Nat  BY BoundsAssumption
  <2>3. QED  BY <2>1, <2>2
<1>4. Redelivered'  BY <1>3 DEF Redelivered
<1>5. /\ \A n \in Q : n.id = Msg(w).id /\ n.job = JobOf(w)
      /\ \A m, n \in Q : m = n
      BY <1>1 DEF Msg, JobOf
<1>6. QED  BY <1>2, <1>3, <1>4, <1>5, LeaveLives

\* A handler that fails itself leaves the rows alone.
LEMMA HandlerLives ==
  ASSUME IInv, LifeInv, NEW w \in Workers, Live(w), NEW pc \in {"ack", "task_failure"},
         HandlerFails(w, pc), worker[w].pc # "llm"
  PROVE  Lives
<1>1. /\ Moves(w, pc) /\ UNCHANGED <<jobs, queue, unacked, sent, req>> /\ SameDeliveries
      BY Going, Deliveries DEF HandlerFails, data, broker
<1>2. JobsOK /\ JobsOK' /\ JobOf(w) \in JobIds  BY <1>1, MsgTyped DEF IInv, Typed, JobsOK
<1>3. PICK k \in JobIds : k = JobOf(w)  BY <1>2
<1>4. RowMoves(w, k, pc)  BY <1>1 DEF RowMoves
<1>5. QED  BY <1>1, <1>2, <1>3, <1>4, StepLives

\* The failure signal finds its own job, or none.
LEMMA SignalLives ==
  ASSUME IInv, LifeInv, NEW w \in Workers, At(w, "task_failure"), SignalFails(w), JobsOK'
  PROVE  Lives
<1>1. /\ worker[w].pc = "task_failure" /\ Live(w) /\ Busy(w) /\ Moves(w, "ack")
      /\ UNCHANGED <<queue, unacked, sent, req>> /\ SameDeliveries
      BY Going, Deliveries DEF SignalFails, At, Live, Busy, broker
<1>2. JobsOK /\ JobOf(w) \in JobIds  BY MsgTyped DEF IInv, Typed
<1>3. PICK k \in JobIds : k = JobOf(w)  BY <1>2
<1>4. Msg(w) \in Around /\ Msg(w).job = k  BY <1>1, <1>3 DEF Around, Msg, JobOf
<1>5. \A j \in JobIds \ {k} : jobs[j].task # Msg(w).id  BY <1>4 DEF LifeInv, IdsOwned
<1>6. \A j \in JobIds \ {k} : jobs'[j] = jobs[j]  BY <1>5 DEF SignalFails, FailsOnSignal
<1>7. \/ jobs'[k] = jobs[k]
      \/ /\ jobs'[k] = [jobs[k] EXCEPT !.status = "failed"]
         /\ jobs[k].status \in Active \cup {"cancelled"}
      BY DEF SignalFails, FailsOnSignal
<1>8. RowMoves(w, k, "ack")
      BY <1>2, <1>6, <1>7 DEF RowMoves, JobsOK, JobRow, Row, NoRow, Active
<1>9. QED  BY <1>1, <1>3, <1>8, StepLives

LEMMA TaskFailureLives ==
  ASSUME IInv, LifeInv, NEW w \in Workers, TaskFailure(w), JobsOK'
  PROVE  Lives
<1>1. Live(w) /\ worker[w].pc # "llm"  BY DEF TaskFailure, At, Live
<1>2. QED  BY <1>1, SignalLives, HandlerLives DEF TaskFailure

LEMMA PrepLives ==
  ASSUME IInv, LifeInv, NEW w \in Workers, JobsOK',
         PrepCheck(w) \/ PrepStart(w) \/ PrepPages(w) \/ PrepFailed(w) \/ PrepDispatch(w)
  PROVE  Lives
<1>1. worker[w].pc \notin AfterFailure \cup {"llm"} /\ Live(w)
      BY DEF PrepCheck, PrepStart, PrepPages, PrepFailed, PrepDispatch, At, AfterFailure, Live
<1>2. ASSUME NEW pc \in {"ack", "task_failure", "prep_start", "prep_pages", "prep_failed",
                         "prep_dispatch"},
             Goto(w, pc), UNCHANGED <<data, broker, born, req>>, SameDeliveries
      PROVE  Lives
      BY <1>1, <1>2, Going, LocalLives DEF data, broker
<1>3. UNCHANGED left \/ Spend("fault") => SameDeliveries  BY Deliveries
<1>4. Transient(w) => Lives  BY <1>1, TransientLives
<1>5. ASSUME PrepCheck(w)  PROVE Lives
      BY <1>2, <1>3, <1>5 DEF PrepCheck, Local
<1>6. ASSUME PrepStart(w)  PROVE Lives
  <2>1. CASE Row(JobOf(w)) /\ StartJob(w, TaskId(w)) /\ Goto(w, "prep_pages") /\ Tick
    <3>1. PICK t : t = TaskId(w)  OBVIOUS
    <3>2. t \in {jobs[JobOf(w)].task, Msg(w).id}  BY <3>1 DEF TaskId
    <3>3. QED  BY <1>1, <2>1, <3>1, <3>2, StartLives
  <2>2. CASE UNCHANGED data /\ Goto(w, "prep_pages") /\ Tick
        BY <1>2, <1>3, <2>2 DEF Tick
  <2>3. QED  BY <1>4, <1>6, <2>1, <2>2 DEF PrepStart
<1>7. ASSUME PrepPages(w)  PROVE Lives
      BY <1>2, <1>3, <1>4, <1>7 DEF PrepPages, Local
<1>8. ASSUME PrepFailed(w)  PROVE Lives
  <2>1. CASE EndJob(w, "ack")
    <3>1. Moves(w, "ack") /\ SameDeliveries /\ UNCHANGED <<queue, unacked, sent, req>>
          BY <2>1, Going, Deliveries DEF EndJob, Tick, broker
    <3>2. QED  BY <1>1, <2>1, <3>1, EndLives DEF EndJob, AfterFailure
  <2>2. CASE HandlerFails(w, "ack")  BY <1>1, <2>2, HandlerLives
  <2>3. QED  BY <1>8, <2>1, <2>2 DEF PrepFailed, MarkJobFailed
<1>9. ASSUME PrepDispatch(w)  PROVE Lives
      BY <1>2, <1>3, <1>9, DispatchLives DEF PrepDispatch
<1>10. QED  BY <1>5, <1>6, <1>7, <1>8, <1>9

LEMMA OcrLives ==
  ASSUME IInv, LifeInv, NEW w \in Workers, JobsOK',
         OcrSetup(w) \/ OcrPages(w) \/ OcrPage(w) \/ OcrProgress(w) \/ OcrFinalize(w)
  PROVE  Lives
<1>1. worker[w].pc \notin AfterFailure \cup {"llm"} /\ Live(w)
      BY DEF OcrSetup, OcrPages, OcrPage, OcrProgress, OcrFinalize, At, AfterFailure, Live
<1>2. UNCHANGED left \/ Spend("fault") => SameDeliveries  BY Deliveries
<1>3. Transient(w) => Lives  BY <1>1, TransientLives
<1>4. ASSUME NEW pc \in AfterFailure \cup {"ack"}, EndJob(w, pc)  PROVE Lives
  <2>1. Moves(w, pc) /\ SameDeliveries /\ UNCHANGED <<queue, unacked, sent, req>>
        BY <1>4, Going, Deliveries DEF EndJob, Tick, broker
  <2>2. worker[w].pc \notin {"llm", "task_failure", "llm_failed"}  BY <1>1 DEF AfterFailure
  <2>3. QED  BY <1>1, <1>4, <2>1, <2>2, EndLives DEF EndJob
<1>5. ASSUME OcrSetup(w)  PROVE Lives
  <2>1. CASE Row(JobOf(w)) /\ StartJob(w, Msg(w).id) /\ Goto(w, "ocr_pages") /\ Tick
    <3>1. PICK t : t = Msg(w).id  OBVIOUS
    <3>2. QED  BY <1>1, <2>1, <3>1, StartLives
  <2>2. CASE Local(w, "task_failure")
    <3>1. Moves(w, "task_failure") /\ UNCHANGED <<jobs, queue, unacked, sent, req>>
          BY <2>2, Going DEF Local, data, broker
    <3>2. QED  BY <1>1, <1>2, <2>2, <3>1, LocalLives DEF Local
  <2>3. QED  BY <1>3, <1>5, <2>1, <2>2 DEF OcrSetup
<1>6. ASSUME OcrPages(w)  PROVE Lives
  <2>1. CASE StartLoop(w, pages, "ocr_page") /\ UNCHANGED data
    <3>1. Moves(w, "ocr_page") /\ UNCHANGED <<jobs, queue, unacked, sent, req>>
          BY <2>1, Going DEF StartLoop, Tick, data, broker
    <3>2. QED  BY <1>1, <1>2, <2>1, <3>1, LocalLives DEF StartLoop, Tick
  <2>2. CASE EndJob(w, IF Row(JobOf(w)) THEN "ack" ELSE "task_failure")
    <3>1. EndJob(w, "ack") \/ EndJob(w, "task_failure")  BY <2>2
    <3>2. {"ack", "task_failure"} \subseteq AfterFailure \cup {"ack"}  BY DEF AfterFailure
    <3>3. QED  BY <1>4, <3>1, <3>2
  <2>3. QED  BY <1>3, <1>6, <2>1, <2>2 DEF OcrPages
<1>7. ASSUME OcrPage(w)  PROVE Lives
  <2>1. Moves(w, "ocr_progress")
    <3>1. worker \in [Workers -> WorkerRow]  BY DEF IInv, Typed, WorkersOK
    <3>2. CASE Goto(w, "ocr_progress")  BY <3>2, Going
    <3>3. CASE worker' = [worker EXCEPT ![w].bad = @ + 1, ![w].pc = "ocr_progress"]
          BY <3>1, <3>3 DEF Moves, WorkerRow
    <3>4. QED  BY <1>7, <3>2, <3>3 DEF OcrPage
  <2>2. UNCHANGED <<jobs, queue, unacked, sent, req>> /\ SameDeliveries
        BY <1>2, <1>7 DEF OcrPage, Tick, broker
  <2>3. QED  BY <1>1, <2>1, <2>2, LocalLives
<1>8. ASSUME OcrProgress(w)  PROVE Lives
  <2>1. PICK pc \in {"ocr_page", "ocr_finalize"} : Moves(w, pc)
        BY <1>8, Going DEF OcrProgress
  <2>2. jobs' = jobs \/ \E p : jobs' = [jobs EXCEPT ![JobOf(w)].progress = p]
        BY <1>8 DEF OcrProgress, Report
  <2>3. UNCHANGED <<queue, unacked, sent, req>> /\ SameDeliveries
        BY <1>2, <1>8 DEF OcrProgress, broker
  <2>4. QED  BY <1>1, <2>1, <2>2, <2>3, ProgressLives
<1>9. ASSUME OcrFinalize(w)  PROVE Lives
  <2>1. CASE HandlerFails(w, "ack")  BY <1>1, <2>1, HandlerLives
  <2>2. QED  BY <1>4, <1>9, <2>1 DEF OcrFinalize, MarkJobFailed
<1>10. QED  BY <1>5, <1>6, <1>7, <1>8, <1>9

LEMMA LlmLives ==
  ASSUME IInv, LifeInv, NEW w \in Workers, JobsOK',
         \/ LlmStart(w) \/ LlmRead(w) \/ LlmContext(w) \/ LlmBatch(w)
         \/ LlmPersist(w) \/ LlmFailed(w)
  PROVE  Lives
<1>1. Live(w)
      BY DEF LlmStart, LlmRead, LlmContext, LlmBatch, LlmPersist, LlmFailed, At, Live
<1>2. UNCHANGED left \/ Spend("fault") => SameDeliveries  BY Deliveries
<1>3. worker[w].pc \notin AfterFailure /\ Transient(w) => Lives  BY <1>1, TransientLives
<1>4. ASSUME Local(w, "llm_failed"), worker[w].pc \notin AfterFailure,
             worker[w].pc # "llm" \/ ~Row(JobOf(w))
      PROVE  Lives
  <2>1. Moves(w, "llm_failed") /\ UNCHANGED <<jobs, queue, unacked, sent, req>>
        BY <1>4, Going DEF Local, data, broker
  <2>2. SameDeliveries  BY <1>2, <1>4 DEF Local
  <2>3. QED  BY <1>1, <1>4, <2>1, <2>2, LocalLives
<1>5. ASSUME LlmStart(w)  PROVE Lives
  <2>1. worker[w].pc = "llm" /\ worker[w].pc \notin AfterFailure
        BY <1>5 DEF LlmStart, At, AfterFailure
  <2>2. CASE Row(JobOf(w)) /\ StartJob(w, TaskId(w)) /\ Goto(w, "llm_read") /\ Tick
    <3>1. PICK t : t = TaskId(w)  OBVIOUS
    <3>2. t \in {jobs[JobOf(w)].task, Msg(w).id}  BY <3>1 DEF TaskId
    <3>3. QED  BY <1>1, <2>1, <2>2, <3>1, <3>2, StartLives
  <2>3. QED  BY <1>3, <1>4, <1>5, <2>1, <2>2 DEF LlmStart
<1>6. ASSUME LlmRead(w)  PROVE Lives
  <2>1. worker[w].pc = "llm_read" /\ worker[w].pc \notin AfterFailure
        BY <1>6 DEF LlmRead, At, AfterFailure
  <2>2. CASE /\ worker' = [worker EXCEPT ![w].seen = book, ![w].pc = "llm_context"]
             /\ Tick /\ UNCHANGED data
    <3>1. worker \in [Workers -> WorkerRow]  BY DEF IInv, Typed, WorkersOK
    <3>2. Moves(w, "llm_context")  BY <2>2, <3>1 DEF Moves, WorkerRow
    <3>3. UNCHANGED <<jobs, queue, unacked, sent, req>> /\ SameDeliveries
          BY <1>2, <2>2 DEF Tick, data, broker
    <3>4. QED  BY <1>1, <2>1, <3>2, <3>3, LocalLives
  <2>3. CASE EndJob(w, "llm_failed")
    <3>1. Moves(w, "llm_failed") /\ SameDeliveries /\ UNCHANGED <<queue, unacked, sent, req>>
          BY <2>3, Going, Deliveries DEF EndJob, Tick, broker
    <3>2. "llm_failed" \in AfterFailure \cup {"ack"}  BY DEF AfterFailure
    <3>3. QED  BY <1>1, <2>1, <2>3, <3>1, <3>2, EndLives DEF EndJob
  <2>4. QED  BY <1>3, <1>6, <2>1, <2>2, <2>3 DEF LlmRead
<1>7. ASSUME LlmContext(w)  PROVE Lives
  <2>1. worker[w].pc = "llm_context" /\ worker[w].pc \notin AfterFailure
        BY <1>7 DEF LlmContext, At, AfterFailure
  <2>2. CASE StartLoop(w, 1..Batches, "llm_batch") /\ UNCHANGED <<pages, text, jobs>>
    <3>1. Moves(w, "llm_batch") /\ UNCHANGED <<jobs, queue, unacked, sent, req>>
          BY <2>2, Going DEF StartLoop, Tick, broker
    <3>2. SameDeliveries  BY <1>2, <2>2 DEF StartLoop, Tick
    <3>3. QED  BY <1>1, <2>1, <3>1, <3>2, LocalLives
  <2>3. QED  BY <1>3, <1>4, <1>7, <2>1, <2>2 DEF LlmContext
<1>8. ASSUME LlmBatch(w)  PROVE Lives
  <2>1. worker[w].pc = "llm_batch" /\ worker[w].pc \notin AfterFailure \cup {"llm"}
        BY <1>8 DEF LlmBatch, At, AfterFailure
  <2>2. CASE /\ jobs' = IF Row(JobOf(w)) THEN LlmReport(w) ELSE jobs
             /\ Advance(w, "llm_batch", "llm_persist") /\ Tick
    <3>1. PICK pc \in {"llm_batch", "llm_persist"} : Moves(w, pc)  BY <2>2, Going
    <3>2. jobs' = jobs \/ \E p : jobs' = [jobs EXCEPT ![JobOf(w)].progress = p]
          BY <2>2 DEF LlmReport
    <3>3. UNCHANGED <<queue, unacked, sent, req>> /\ SameDeliveries
          BY <1>2, <2>2 DEF Tick, broker
    <3>4. QED  BY <1>1, <2>1, <3>1, <3>2, <3>3, ProgressLives
  <2>3. QED  BY <1>3, <1>8, <2>1, <2>2 DEF LlmBatch
<1>9. ASSUME LlmPersist(w)  PROVE Lives
  <2>1. worker[w].pc = "llm_persist" /\ worker[w].pc \notin AfterFailure
        BY <1>9 DEF LlmPersist, At, AfterFailure
  <2>2. UNCHANGED left /\ Retry(w) => Lives  BY <1>1, <1>2, <2>1, RetryLives
  <2>3. QED  BY <1>3, <1>4, <1>9, <2>1, <2>2 DEF LlmPersist
<1>10. ASSUME LlmFailed(w)  PROVE Lives
  <2>1. worker[w].pc = "llm_failed"  BY <1>10 DEF LlmFailed, At
  <2>2. CASE HandlerFails(w, "task_failure")  BY <1>1, <2>1, <2>2, HandlerLives
  <2>3. CASE EndExtraction(w)
    <3>1. Moves(w, "task_failure")  BY <2>3, Going DEF EndExtraction
    <3>2. UNCHANGED <<queue, unacked, sent, req>> /\ SameDeliveries
          BY <1>2, <2>3 DEF EndExtraction, Tick, broker
    <3>3. jobs' = IF Row(JobOf(w)) THEN [jobs EXCEPT ![JobOf(w)].status = "failed"] ELSE jobs
          BY <2>3 DEF EndExtraction
    <3>4. "task_failure" \in AfterFailure \cup {"ack"}  BY DEF AfterFailure
    <3>5. QED  BY <1>1, <2>1, <3>1, <3>2, <3>3, <3>4, EndLives
  <2>4. QED  BY <1>10, <2>2, <2>3 DEF LlmFailed
<1>11. QED  BY <1>5, <1>6, <1>7, <1>8, <1>9, <1>10
-----------------------------------------------------------------------------
(* Requests end no job as failed or completed, and start none. *)
LEMMA RequestLives ==
  ASSUME IInv, LifeInv, UNCHANGED <<queue, unacked, sent, worker>>, SameDeliveries,
         \A j \in JobIds : /\ jobs'[j].task \in {jobs[j].task, 0}
                           /\ jobs'[j].status \in {"completed", "failed"}
                                => jobs'[j].status = jobs[j].status /\ jobs'[j].type = jobs[j].type,
         \A c \in Clients : \A j \in req'[c].jobs : jobs'[j].type # "none",
         \A c \in Clients : \A j \in JobIds :
           jobs'[j].status = "completed" /\ req'[c].op # "delete_book" => j \notin req'[c].jobs
  PROVE  LifeInv'
<1> USE DEF Msg, JobOf
<1>1. \A v \in Workers : (Busy(v)' <=> Busy(v)) /\ (Live(v)' <=> Live(v))  BY DEF Busy, Live
<1>2. \A m \in Around' : m \in Around  BY <1>1 DEF Around
<1>3. IdsOwned'
  <2>1. \A j \in JobIds : jobs'[j].task \in {jobs[j].task, 0}  OBVIOUS
  <2>2. QED  BY <1>2, <2>1, IdsKept DEF LifeInv
<1>4. DoneAlone'  BY <1>1 DEF LifeInv, DoneAlone
<1>5. ReqRows' /\ left'.crash <= MaxCrashes  BY DEF LifeInv, ReqRows, SameDeliveries
<1>6. Redelivered' <=> Redelivered  BY DEF Redelivered, SameDeliveries
<1>7. OneCarrier => OneCarrier'  BY <1>1 DEF OneCarrier
<1>8. FailedLeft => FailedLeft'  BY <1>1 DEF FailedLeft
<1>9. QED  BY <1>3, <1>4, <1>5, <1>6, <1>7, <1>8 DEF LifeInv

LEMMA BeginLives ==
  ASSUME IInv, LifeInv, NEW c \in Clients, Begin(c)
  PROVE  Lives
<1>1. /\ UNCHANGED <<jobs, queue, unacked, sent, worker>> /\ SameDeliveries
      BY Deliveries DEF Begin, data, broker
<1>2. PICK op \in Ops, j \in JobIds :
        /\ Allowed(op, j)
        /\ req' = [req EXCEPT ![c] = [op |-> op, job |-> j, status |-> book,
                                      pages |-> pages, jobs |-> Writes(op, j)]]
      BY Ids DEF Begin
<1> DEFINE r == [op |-> op, job |-> j, status |-> book, pages |-> pages, jobs |-> Writes(op, j)]
<1>3. \A k \in Writes(op, j) : k \in JobIds /\ jobs[k].status # NoRow
      BY <1>2 DEF Writes, Allowed, ActiveJobs, Rows, Row, Active, NoRow
<1>4. op # "delete_book" => \A k \in Writes(op, j) : jobs[k].status # "completed"
      BY <1>2 DEF Writes, Allowed, ActiveJobs, Active
<1>5. \A k \in Writes(op, j) : jobs[k].type # "none"
      BY <1>3 DEF IInv, Typed, JobsOK, RowOK
<1>6. r.jobs = Writes(op, j) /\ r.op = op /\ req' = [req EXCEPT ![c] = r]  BY <1>2
<1> HIDE DEF r
<1>7. /\ req'[c] = r /\ \A d \in Clients \ {c} : req'[d] = req[d]
      BY <1>6 DEF IInv, Typed, ReqOK
<1>8. \A d \in Clients : \A k \in req'[d].jobs : jobs'[k].type # "none"
      BY <1>1, <1>5, <1>6, <1>7 DEF LifeInv, ReqRows
<1>9. \A d \in Clients : \A k \in JobIds :
        jobs'[k].status = "completed" /\ req'[d].op # "delete_book" => k \notin req'[d].jobs
      BY <1>1, <1>4, <1>6, <1>7 DEF LifeInv, DoneAlone
<1>10. LifeInv'  BY <1>1, <1>8, <1>9, RequestLives
<1>11. Redelivered => Redelivered'  BY <1>1 DEF Redelivered, SameDeliveries
<1>12. QED  BY <1>1, <1>10, <1>11, LifeAgain DEF Lives

\* A request that ends, by what it did to the rows.
LEMMA EndRequestLives ==
  ASSUME IInv, LifeInv, NEW c \in Clients, NEW op, EndRequest(c, op),
         \A j \in JobIds : /\ jobs'[j].task \in {jobs[j].task, 0}
                           /\ jobs'[j].status \in {"completed", "failed"}
                                => jobs'[j].status = jobs[j].status /\ jobs'[j].type = jobs[j].type
                           /\ jobs[j].type # "none" => jobs'[j].type # "none"
  PROVE  LifeInv' /\ (Redelivered' <=> Redelivered)
<1>1. /\ req'[c] = NoRequest /\ \A d \in Clients \ {c} : req'[d] = req[d]
      BY DEF IInv, Typed, ReqOK, EndRequest
<1>2. NoRequest.jobs = {}  BY DEF NoRequest
<1>3. \A d \in Clients : req'[d].jobs = {} \/ req'[d] = req[d]  BY <1>1, <1>2
<1>4. UNCHANGED <<queue, unacked, sent, worker>> /\ SameDeliveries
      BY Deliveries DEF EndRequest, broker
<1>5. \A d \in Clients : req[d].jobs \subseteq JobIds  BY ReqJobs
<1>6. \A d \in Clients : \A j \in req'[d].jobs : jobs'[j].type # "none"
      BY <1>3, <1>5 DEF LifeInv, ReqRows
<1>7. \A d \in Clients : \A j \in JobIds :
        jobs'[j].status = "completed" /\ req'[d].op # "delete_book" => j \notin req'[d].jobs
      BY <1>3 DEF LifeInv, DoneAlone
<1>8. QED  BY <1>4, <1>6, <1>7, RequestLives DEF Redelivered, SameDeliveries

LEMMA SameLives ==
  ASSUME IInv, LifeInv, NEW c \in Clients, NEW op, EndRequest(c, op), UNCHANGED jobs
  PROVE  Lives
  BY EndRequestLives, LifeAgain DEF Lives

\* What a request read is there and not completed, unless it deletes the book.
LEMMA ReadJobs ==
  ASSUME IInv, LifeInv, NEW c \in Clients, req[c].op # "delete_book"
  PROVE  /\ req[c].jobs \in SUBSET JobIds
         /\ \A j \in req[c].jobs : jobs[j].status # "completed"
  BY ReqJobs DEF LifeInv, DoneAlone

LEMMA AddLives ==
  ASSUME IInv, LifeInv, NEW c \in Clients, NEW op, EndRequest(c, op),
         NEW S \in SUBSET JobIds, \A j \in S : Row(j) /\ jobs[j].status # "completed",
         NEW type \in {"ocr", "llm"}, AddsJob(Cancelled(jobs, S), type)
  PROVE  Lives
<1> DEFINE x == Job(type, "queued", 0, NoTask)
<1>1. PICK k \in JobIds : Unused(k) /\ jobs' = [Cancelled(jobs, S) EXCEPT ![k] = x]
      BY DEF AddsJob
<1>2. x.type = type /\ x.status = "queued" /\ x.task = 0  BY DEF Job, NoTask
<1> HIDE DEF x
<1>3. jobs[k].type = "none" /\ jobs[k].status = NoRow  BY <1>1 DEF Unused, NoJob, Job
<1>4. k \notin S  BY <1>3 DEF Row
<1>5. /\ jobs'[k] = x
      /\ \A j \in JobIds \ {k} :
           jobs'[j] = IF j \in S THEN [jobs[j] EXCEPT !.status = "cancelled"] ELSE jobs[j]
      BY <1>1 DEF Cancelled
<1>6. JobsOK  BY DEF IInv, Typed
<1>7. \A j \in JobIds \ {k} :
        /\ jobs'[j].type = jobs[j].type /\ jobs'[j].task = jobs[j].task
        /\ jobs'[j].status = IF j \in S THEN "cancelled" ELSE jobs[j].status
      BY <1>5, <1>6 DEF JobsOK, JobRow
<1>8. LifeInv' /\ (Redelivered' <=> Redelivered)
  <2>1. \A j \in JobIds : /\ jobs'[j].task \in {jobs[j].task, 0}
                          /\ jobs'[j].status \in {"completed", "failed"}
                               => jobs'[j].status = jobs[j].status /\ jobs'[j].type = jobs[j].type
                          /\ jobs[j].type # "none" => jobs'[j].type # "none"
        BY <1>2, <1>3, <1>5, <1>7
  <2>2. QED  BY <2>1, EndRequestLives
<1>9. LifeStep
  <2>1. \A j \in S : jobs[j].type \in {"ocr", "llm"}  BY <1>6 DEF JobsOK, RowOK, Row
  <2>2. \A j \in JobIds \ {k} :
          StatusOf(jobs'[j]) = IF j \in S THEN "cancelled" ELSE StatusOf(jobs[j])
        BY <1>7, <2>1 DEF StatusOf
  <2>3. StatusOf(jobs'[k]) = "queued"  BY <1>2, <1>5 DEF StatusOf
  <2>4. QED  BY <1>3, <1>6, <1>8, <2>2, <2>3, LifeQueues
<1>10. QED  BY <1>8, <1>9 DEF Lives

LEMMA DeleteLives ==
  ASSUME IInv, LifeInv, NEW c \in Clients, NEW op, EndRequest(c, op),
         NEW S \in SUBSET JobIds, \A j \in S : jobs[j].type # "none", jobs' = Without(S)
  PROVE  Lives
<1>1. GoneJob.type = "gone" /\ GoneJob.status = NoRow /\ GoneJob.task = 0
      BY DEF GoneJob, Job, NoTask
<1>2. \A j \in JobIds : jobs'[j] = IF j \in S THEN GoneJob ELSE jobs[j]  BY DEF Without
<1>3. LifeInv' /\ (Redelivered' <=> Redelivered)
  <2>1. \A j \in JobIds : /\ jobs'[j].task \in {jobs[j].task, 0}
                          /\ jobs'[j].status \in {"completed", "failed"}
                               => jobs'[j].status = jobs[j].status /\ jobs'[j].type = jobs[j].type
                          /\ jobs[j].type # "none" => jobs'[j].type # "none"
        BY <1>1, <1>2 DEF NoRow
  <2>2. QED  BY <2>1, EndRequestLives
<1>4. Becoming(S, "gone")  BY <1>1, <1>2 DEF Becoming, StatusOf
<1>5. JobsOK  BY DEF IInv, Typed
<1>6. QED  BY <1>3, <1>4, <1>5, LifeDeletes DEF Lives

LEMMA CancelLives ==
  ASSUME IInv, LifeInv, NEW c \in Clients, CancelJob(c)
  PROVE  Lives
<1>1. EndRequest(c, "cancel_job") /\ Row(req[c].job) /\ jobs' = Cancelled(jobs, req[c].jobs)
      BY DEF CancelJob
<1>2. req[c].op = "cancel_job"  BY <1>1 DEF EndRequest
<1>3. PICK S \in SUBSET JobIds : S = req[c].jobs  BY ReqJobs
<1>4. \A j \in S : Row(j) /\ jobs[j].status # "completed"
      BY <1>1, <1>2, <1>3, ReqJobs, ReadJobs
<1>5. JobsOK  BY DEF IInv, Typed
<1>6. \A j \in JobIds :
        /\ jobs'[j].type = jobs[j].type /\ jobs'[j].task = jobs[j].task
        /\ jobs'[j].status = IF j \in S THEN "cancelled" ELSE jobs[j].status
      BY <1>1, <1>3, <1>5 DEF Cancelled, JobsOK, JobRow
<1>7. LifeInv' /\ (Redelivered' <=> Redelivered)
  <2>1. \A j \in JobIds : /\ jobs'[j].task \in {jobs[j].task, 0}
                          /\ jobs'[j].status \in {"completed", "failed"}
                               => jobs'[j].status = jobs[j].status /\ jobs'[j].type = jobs[j].type
                          /\ jobs[j].type # "none" => jobs'[j].type # "none"
        BY <1>6
  <2>2. QED  BY <1>1, <2>1, EndRequestLives
<1>8. \A j \in S : jobs[j].type \in {"ocr", "llm"}  BY <1>4, <1>5 DEF JobsOK, RowOK, Row
<1>9. Becoming(S, "cancelled")  BY <1>6, <1>8 DEF Becoming, StatusOf
<1>10. QED  BY <1>4, <1>5, <1>7, <1>9, LifeCancels DEF Lives

LEMMA CommitLives ==
  ASSUME IInv, LifeInv, NEW c \in Clients, Commit(c)
  PROVE  Lives
<1>1. JobsOK  BY DEF IInv, Typed
<1>2. PICK S \in SUBSET JobIds : S = req[c].jobs  BY ReqJobs
<1>3. ASSUME NEW op \in {"run_ocr", "rerun_ocr"}, EndRequest(c, op), StillThere(req[c]),
             AddsJob(Cancelled(jobs, req[c].jobs), "ocr")
      PROVE  Lives
  <2>1. \A j \in S : Row(j) /\ jobs[j].status # "completed"
        BY <1>2, <1>3, ReadJobs DEF StillThere, EndRequest
  <2>2. QED  BY <1>2, <1>3, <2>1, AddLives
<1>4. ASSUME NEW op, EndRequest(c, op), AddsJob(jobs, "llm")  PROVE Lives
  <2>1. PICK N \in SUBSET JobIds : N = {}  OBVIOUS
  <2>2. AddsJob(Cancelled(jobs, N), "llm")  BY <1>1, <1>4, <2>1, NoneCancelled
  <2>3. QED  BY <1>4, <2>1, <2>2, AddLives
<1>5. ASSUME RunOcr(c) \/ RerunOcr(c)  PROVE Lives
      BY <1>3, <1>5 DEF RunOcr, RerunOcr
<1>6. ASSUME RunExtraction(c) \/ RerunExtraction(c)  PROVE Lives
      BY <1>4, <1>6 DEF RunExtraction, RerunExtraction
<1>7. ASSUME SelectPages(c)  PROVE Lives
      BY <1>7, SameLives DEF SelectPages
<1>8. ASSUME ResetBook(c)  PROVE Lives
  <2>1. PICK R \in SUBSET JobIds : R = Rows  BY DEF Rows
  <2>2. \A j \in R : jobs[j].type # "none"  BY <1>1, <2>1 DEF Rows, Row, JobsOK, RowOK
  <2>3. QED  BY <1>8, <2>1, <2>2, DeleteLives DEF ResetBook
<1>9. ASSUME DeleteBook(c)  PROVE Lives
  <2>1. \A j \in S : jobs[j].type # "none"  BY <1>2 DEF LifeInv, ReqRows
  <2>2. QED  BY <1>2, <1>9, <2>1, DeleteLives DEF DeleteBook
<1>10. ASSUME Refused(c)  PROVE Lives
  <2>1. PICK op : op = req[c].op  OBVIOUS
  <2>2. EndRequest(c, op) /\ UNCHANGED jobs  BY <1>10, <2>1 DEF Refused, data
  <2>3. QED  BY <2>2, SameLives
<1>11. QED  BY <1>5, <1>6, <1>7, <1>8, <1>9, <1>10, CancelLives DEF Commit
-----------------------------------------------------------------------------
LEMMA StepIsALifeStep ==
  ASSUME IInv, LifeInv, [Next]_vars
  PROVE  Lives
<1>1. JobsOK'  BY StepIsGood DEF Good, IInv, Typed
<1>2. CASE UNCHANGED vars
  <2>1. UNCHANGED <<jobs, queue, unacked, sent, worker, req, left>>
        BY <1>2 DEF vars, data, broker
  <2>2. SameDeliveries  BY <2>1 DEF SameDeliveries
  <2>3. LifeInv'  BY <2>1, <2>2, RequestLives DEF LifeInv, DoneAlone, ReqRows
  <2>4. Redelivered => Redelivered'  BY <2>1 DEF Redelivered
  <2>5. QED  BY <2>1, <2>3, <2>4, LifeAgain DEF Lives
<1>3. ASSUME NEW w \in Workers, Work(w)  PROVE Lives
      BY <1>1, <1>3, AckLives, TaskFailureLives, PrepLives, OcrLives, LlmLives
      DEF Work
<1>4. QED
      BY <1>2, <1>3, TakeLives, CrashLives, TimeoutLives, BeginLives, CommitLives DEF Next

LEMMA LifeStarted == Init => LifeInv /\ Life!LifeInit
<1> SUFFICES ASSUME Init  PROVE LifeInv /\ Life!LifeInit
    OBVIOUS
<1>1. IInv /\ JobsOK  BY InitIInv DEF IInv, Typed
<1>2. PICK s \in Scenarios :
        /\ jobs = [j \in JobIds |-> IF j = 1 THEN Left[s].job ELSE NoJob]
        /\ queue = IF Left[s].task = "none" THEN {} ELSE {Message(Left[s].task, 1, 1, 0)}
        /\ unacked = {} /\ sent = 1 /\ worker = [w \in Workers |-> Idle]
        /\ req = [c \in Clients |-> NoRequest]
        /\ left = [request |-> MaxRequests, crash |-> MaxCrashes,
                   timeout |-> MaxTimeouts, fault |-> MaxFaults, handler |-> MaxHandlerFaults]
      BY DEF Init
<1>3. jobs[1] = Left[s].job /\ \A j \in JobIds \ {1} : jobs[j] = NoJob  BY <1>2, Ids
<1>4. /\ Left[s].job.task \in {0, 1} /\ Left[s].job.status # "failed"
      /\ Left[s].job.status = "completed" => Left[s].job.type = "llm"
      /\ Left[s].job.status \in {NoRow, "queued", "running", "completed"}
      /\ Left[s].job.status = NoRow => Left[s].job.type = "none"
  <2>1. s \in {"selected", "recognised", "prep", "ocr", "llm", "llm_cut", "llm_done"}
        BY ScenariosAssumption DEF Left
  <2>2. \E job \in {NoJob, Job("ocr", "queued", 0, NoTask), Job("ocr", "running", 50, 1),
                    Job("llm", "queued", 0, NoTask), Job("llm", "running", 0, 1),
                    Job("llm", "completed", 100, 1)} : Left[s].job = job
        BY <2>1 DEF Left
  <2>3. PICK job \in {NoJob, Job("ocr", "queued", 0, NoTask), Job("ocr", "running", 50, 1),
                       Job("llm", "queued", 0, NoTask), Job("llm", "running", 0, 1),
                       Job("llm", "completed", 100, 1)} : Left[s].job = job
        BY <2>2
  <2>4. \/ job = Job("none", "no row", 0, 0)
        \/ job = Job("ocr", "queued", 0, 0)
        \/ job = Job("ocr", "running", 50, 1)
        \/ job = Job("llm", "queued", 0, 0)
        \/ job = Job("llm", "running", 0, 1)
        \/ job = Job("llm", "completed", 100, 1)
        BY <2>3 DEF NoJob, NoTask, NoRow
  <2>5. ASSUME NEW type, NEW status, NEW p, NEW task, job = Job(type, status, p, task)
        PROVE  job.type = type /\ job.status = status /\ job.task = task
        BY <2>5 DEF Job
  <2>6. job.task = 0 \/ job.task = 1
        BY <2>4, <2>5
  <2>7. \/ job.status = "no row" /\ job.type = "none"
        \/ job.status = "queued"
        \/ job.status = "running"
        \/ job.status = "completed" /\ job.type = "llm"
        BY <2>4, <2>5
  <2>8. QED  BY <2>3, <2>6, <2>7 DEF NoRow
<1>5. NoJob.type = "none" /\ NoJob.status = NoRow /\ NoJob.task = 0  BY DEF NoJob, Job, NoTask
<1>6. \A w \in Workers : ~Busy(w) /\ ~Live(w)  BY <1>2, IdleRow DEF Busy, Live
<1>7. \A m, n \in queue : m = n /\ m.job = 1  BY <1>2 DEF Message
<1>8. \A m \in Around : m \in queue  BY <1>2, <1>6 DEF Around
<1>9. \A m \in Around : m.id \in 1..1  BY <1>1, <1>2, AroundOK
<1>10. IdsOwned
  <2>1. \A j \in JobIds : jobs[j].task \in {0, 1}  BY <1>3, <1>4, <1>5
  <2>2. \A j \in JobIds \ {1} : jobs[j].task = 0  BY <1>3, <1>5
  <2>3. \A m, n \in Around : m.id = n.id => m.job = n.job  BY <1>7, <1>8
  <2>4. \A j \in JobIds : \A m \in Around : jobs[j].task = m.id => m.job = j
        BY <1>7, <1>8, <1>9, <2>2
  <2>5. \A j \in JobIds : jobs[j].task <= sent  BY <1>2, <2>1
  <2>6. QED  BY <2>3, <2>4, <2>5 DEF IdsOwned
<1>11. \A c \in Clients : req[c].jobs = {}  BY <1>2 DEF NoRequest
<1>12. DoneAlone  BY <1>3, <1>4, <1>5, <1>6, <1>11 DEF DoneAlone, NoRow
<1>13. ReqRows  BY <1>11 DEF ReqRows
<1>14. left.crash <= MaxCrashes /\ ~Redelivered  BY <1>2, BoundsAssumption DEF Redelivered
<1>15. OneCarrier  BY <1>6, <1>7 DEF OneCarrier
<1>16. FailedLeft  BY <1>3, <1>4, <1>5 DEF FailedLeft, NoRow
<1>17. LifeInv  BY <1>10, <1>12, <1>13, <1>14, <1>15, <1>16 DEF LifeInv
<1>18. Life!LifeInit
  <2>1. \A j \in JobIds : LifeStatus[j] = StatusOf(jobs[j])  BY <1>1, LifeRows
  <2>2. \A j \in JobIds \ {1} : LifeStatus[j] = "unborn"  BY <1>3, <1>5, <2>1 DEF StatusOf
  <2>3. LifeStatus[1] \in {"unborn", "queued", "running", "completed"}
    <3>1. LifeStatus[1] = StatusOf(Left[s].job)  BY <1>3, <2>1, Ids
    <3>2. RowOK(1, Left[s].job) /\ Left[s].job \in JobRow  BY <1>1, <1>3, Ids DEF JobsOK
    <3>3. QED  BY <1>4, <3>1, <3>2 DEF StatusOf, RowOK, NoRow
  <2>4. LifeStatus = [k \in JobIds |-> IF k = 1 THEN LifeStatus[1] ELSE "unborn"]
        BY <2>2 DEF LifeStatus
  <2>5. Redelivered = FALSE  BY <1>14, Zenon DEF Redelivered
  <2>6. QED  BY <2>3, <2>4, <2>5, Ids DEF Life!LifeInit, Life!Ended
<1>19. QED  BY <1>17, <1>18

(* The jobs rows live as JobLife says, whatever is retried, redelivered or *)
(* requested in between: a job that failed is not started again without a  *)
(* repeated delivery, no failure signal finds another's job, and a         *)
(* completed job is never turned into a failed or cancelled one.           *)
THEOREM JobsLive == Spec => ImplementsLife
<1>1. Init => IInv /\ LifeInv /\ Life!LifeInit  BY InitIInv, LifeStarted
<1>2. IInv /\ LifeInv /\ [Next]_vars => IInv' /\ LifeInv' /\ [Life!LifeNext]_(Life!life)
      BY StepIsGood, StepIsALifeStep DEF Good, Lives, LifeStep
<1>3. QED  BY <1>1, <1>2, PTL DEF Spec, ImplementsLife, Life!LifeSpec
=============================================================================
