------------------------------ MODULE JobLife -------------------------------
(***************************************************************************)
(* The life of the jobs of a book as anybody who watches their rows can    *)
(* count on it (models/job.py): made once, as queued; started, also after  *)
(* it was cancelled while its message waited; ended as failed or           *)
(* cancelled; deleted for good.  What failed is not started again, unless  *)
(* a message has been delivered twice, and what was completed (by the      *)
(* earlier release: this one completes nothing) does not fail.             *)
(***************************************************************************)
CONSTANT Jobs

VARIABLES
  status,      \* of each job: "unborn", a JobStatus, or "gone"
  redelivered  \* a delivery was repeated
life == <<status, redelivered>>

Ended == {"completed", "failed", "cancelled"}
HasRow(j) == status[j] \notin {"unborn", "gone"}

LifeInit ==
  /\ redelivered = FALSE
  /\ \E j \in Jobs :
       /\ status[j] \in {"unborn", "queued", "running"} \cup Ended
       /\ status = [k \in Jobs |-> IF k = j THEN status[j] ELSE "unborn"]

Becomes(S, st) == [j \in Jobs |-> IF j \in S THEN st ELSE status[j]]
Stoppable == {j \in Jobs : HasRow(j) /\ status[j] # "completed"}

Starts(j) ==
  /\ HasRow(j)
  /\ status[j] = "failed" => redelivered
  /\ status' = Becomes({j}, "running")
Fails(j) == j \in Stoppable /\ status' = Becomes({j}, "failed")
Cancels(S) == S \subseteq Stoppable /\ status' = Becomes(S, "cancelled")
\* A job is made, and those it replaces are cancelled with it.
Queues(j, S) ==
  /\ status[j] = "unborn" /\ S \subseteq Stoppable
  /\ status' = [Becomes(S, "cancelled") EXCEPT ![j] = "queued"]
Deletes(S) == (\A j \in S : status[j] # "unborn") /\ status' = Becomes(S, "gone")
Redelivers == redelivered' = TRUE /\ UNCHANGED status

LifeNext ==
  \/ /\ \/ \E j \in Jobs : Starts(j) \/ Fails(j)
        \/ \E S \in SUBSET Jobs : Cancels(S) \/ Deletes(S)
        \/ \E j \in Jobs : \E S \in SUBSET Jobs : Queues(j, S)
     /\ UNCHANGED redelivered
  \/ Redelivers
LifeSpec == LifeInit /\ [][LifeNext]_life
=============================================================================
