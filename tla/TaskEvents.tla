----------------------------- MODULE TaskEvents -----------------------------
(***************************************************************************)
(* An extraction task as its watchers know it: it commits, and after a     *)
(* commit publishes what it did.  The state of the book and its job is the *)
(* number of commits: 1 the job runs, 2 the book is llm_running, then one  *)
(* for each report, and End, where the job has failed and the book is      *)
(* given back.                                                             *)
(***************************************************************************)
EXTENDS Integers, Sequences

CONSTANT Reports  \* progress reports of the task
ASSUME ReportsAssumption == Reports \in Nat

VARIABLES
  db,   \* commits so far
  todo  \* what the task publishes before it goes on
task == <<db, todo>>

End == Reports + 3
Versions == 0..End
Kinds == {"job.progress", "job.terminal", "book.status_changed"}
Event(v, kind) == [version |-> v, kind |-> kind]
Events == [version : Versions, kind : Kinds]
BookAt(v) == IF v \in 2..(End - 1) THEN "llm_running" ELSE "ocr_complete"

\* The order of publication.
Rank(e) == 2 * e.version + (IF e.kind = "book.status_changed" THEN 1 ELSE 0)
Increasing(s) == \A i, j \in DOMAIN s : i < j => Rank(s[i]) < Rank(s[j])

TaskInit == db = 0 /\ todo = <<>>
TaskCommits ==
  /\ todo = <<>> /\ db < End - 1
  /\ db' = db + 1
  /\ todo' = IF db >= 2 THEN <<Event(db + 1, "job.progress")>> ELSE <<>>
\* The status is given back, and said to be, if the task had taken the book.
TaskFails ==
  /\ todo = <<>> /\ db \in 1..(End - 1)
  /\ db' = End
  /\ todo' = IF db >= 2
               THEN <<Event(End, "job.terminal"), Event(End, "book.status_changed")>>
               ELSE <<Event(End, "job.terminal")>>
\* One event goes out, or does not get through to Redis.
TaskPublishes == todo # <<>> /\ todo' = Tail(todo) /\ UNCHANGED db
=============================================================================
