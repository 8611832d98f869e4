------------------------------ MODULE BookView ------------------------------
(***************************************************************************)
(* One browser tab on a book (useSSE and useBookStatus) at the end of the  *)
(* stream that SseStream promises it: its event source with reconnection,  *)
(* the two queries of its cache, the polling of the jobs.  What is shown   *)
(* is the number of commits that the shown value covers.                   *)
(*                                                                         *)
(* A query of the cache runs one fetch at a time: asked for, answered by   *)
(* the server from the database, applied.  The cache is the library's      *)
(* (@tanstack/react-query 5), modelled from its use here.                  *)
(***************************************************************************)
EXTENDS SseStream

CONSTANTS
  maxReconnectAttempts,
  MaxFailures            \* bound: requests of the tab that fail
ASSUME TabAssumption == {maxReconnectAttempts, MaxFailures} \subseteq Nat

VARIABLES
  source,    \* the event source: a timer is set, it is open, or it was given up
  attempts,  \* reconnectAttempts
  view,      \* the commits that the shown book and the shown job status cover
  fetch,     \* the fetch of each query: None, Asked, or what the answer covers
  failures,
  told       \* history: the last status event came to a loaded book, and no
             \* fetch of the book has failed since
cache == <<view, fetch>>
vars == <<task, stream, source, attempts, cache, failures, told>>

None == -1
Asked == -2
Queries == {"book", "jobs"}
Loaded(q) == view[q] # None

Init ==
  /\ StreamInit
  /\ source = "timer" /\ attempts = 0
  /\ view = [q \in Queries |-> None] /\ fetch = [q \in Queries |-> Asked]
  /\ failures = 0 /\ told = FALSE
-----------------------------------------------------------------------------
(* The cache. *)
\* Mutation: a fetch that is under way is left to answer.
JoinsFetch(q) == fetch[q] # None
\* A query that has no value yet goes on with its first fetch.
KeepsFetch(q) == fetch[q] # None /\ ~Loaded(q)
Invalidate(Q) ==
  fetch' = [q \in Queries |-> IF q \in Q /\ ~KeepsFetch(q) THEN Asked ELSE fetch[q]]

Answer(q) ==
  /\ fetch[q] = Asked
  /\ fetch' = [fetch EXCEPT ![q] = db]
  /\ UNCHANGED <<task, stream, source, attempts, view, failures, told>>
Apply(q) ==
  /\ fetch[q] \in Versions
  /\ view' = [view EXCEPT ![q] = fetch[q]]
  /\ fetch' = [fetch EXCEPT ![q] = None]
  /\ UNCHANGED <<task, stream, source, attempts, failures, told>>
\* A request is not answered, with its retries.
FetchFails(q) ==
  /\ fetch[q] # None
  /\ failures < MaxFailures /\ failures' = failures + 1
  /\ fetch' = [fetch EXCEPT ![q] = None]
  /\ told' = (told /\ q # "book")
  /\ UNCHANGED <<task, stream, source, attempts, view>>

\* Mutation: a queued job does not count.
PollsForRunning == view["jobs"] \in 1..(End - 1)
\* refetchInterval of jobsQuery: a job that has not ended, or a running book.
Polling ==
  \/ Loaded("jobs") /\ view["jobs"] < End
  \/ Loaded("book") /\ BookAt(view["book"]) = "llm_running"
PollJobs ==
  /\ Polling /\ fetch["jobs"] = None
  /\ fetch' = [fetch EXCEPT !["jobs"] = Asked]
  /\ UNCHANGED <<task, stream, source, attempts, view, failures, told>>
-----------------------------------------------------------------------------
(* The event source. *)
Connects ==
  /\ source = "timer" /\ Opens
  /\ source' = "open" /\ attempts' = 0
  /\ UNCHANGED <<cache, failures, told>>
AttemptsLeft == attempts < maxReconnectAttempts
\* onerror, before or after the stream was open: after the last attempt no
\* timer is set.
Breaks ==
  /\ source # "given up" /\ ~open
  /\ \/ AttemptsLeft /\ source' = "timer" /\ attempts' = attempts + 1
     \/ ~AttemptsLeft /\ source' = "given up" /\ UNCHANGED attempts
  /\ UNCHANGED <<task, stream, cache, failures, told>>
\* The user leaves the page and comes back (disconnect, connect): the event
\* source is a new one, and what has become stale and is not under way is
\* fetched.
Remounts ==
  /\ Shuts
  /\ source' = "timer" /\ attempts' = 0
  /\ \E Stale \in SUBSET Queries :
       fetch' = [q \in Queries |-> IF q \in Stale /\ fetch[q] = None THEN Asked ELSE fetch[q]]
  /\ UNCHANGED <<view, failures, told>>

\* dispatch, with the callbacks of useBookStatus.  Progress changes no status,
\* and the snapshot is not dispatched.
Dispatch(e) ==
  \/ e.kind = "job.progress" /\ UNCHANGED <<cache, told>>
  \/ /\ e.kind = "job.terminal"
     /\ view' = IF Loaded("jobs") THEN [view EXCEPT !["jobs"] = e.version] ELSE view
     /\ Invalidate({"jobs"})
     /\ UNCHANGED told
  \/ /\ e.kind = "book.status_changed"
     /\ Invalidate(Queries)
     /\ told' = Loaded("book")
     /\ UNCHANGED view
Receives ==
  /\ Sends /\ Dispatch(Head(air))
  /\ UNCHANGED <<source, attempts, failures>>
-----------------------------------------------------------------------------
TabStep ==
  \/ Connects \/ Breaks \/ Remounts \/ Receives \/ PollJobs
  \/ \E q \in Queries : Answer(q) \/ Apply(q) \/ FetchFails(q)
OutsideStep ==
  /\ \/ (TaskCommits \/ TaskFails) /\ UNCHANGED stream
     \/ Publishes \/ Drops \/ Shuts
  /\ UNCHANGED <<source, attempts, cache, failures, told>>
Next == TabStep \/ OutsideStep

Spec == Init /\ [][Next]_vars

\* The browser handles what has arrived and keeps the interval of the polling,
\* and the server answers.  Nothing has to commit, to connect or to get through.
FairSpec ==
  /\ Spec
  /\ WF_vars(PollJobs)
  /\ \A q \in Queries : WF_vars(Answer(q)) /\ WF_vars(Apply(q))
-----------------------------------------------------------------------------
TypeOK ==
  /\ source \in {"timer", "open", "given up"} /\ attempts \in 0..maxReconnectAttempts
  /\ view \in [Queries -> Versions \cup {None}]
  /\ fetch \in [Queries -> Versions \cup {None, Asked}]
  /\ failures \in 0..MaxFailures /\ told \in BOOLEAN
  /\ open => source = "open"

(* A job shown as ended is not shown as running again, whatever answers    *)
(* were under way when the event came (dispatch writes the status, and     *)
(* handleJobFailed invalidates the jobs).                                  *)
EndedStaysShown == [][view["jobs"] = End => view'["jobs"] = End]_vars

(* Polling makes up for events: an ended job comes to be shown as ended    *)
(* without a connection, past lost events and failed requests              *)
(* (refetchInterval of useBookStatus).                                     *)
EndOfJobShown == db = End /\ Loaded("jobs") ~> view["jobs"] = End

(* The status event is enough: once it has come to a tab that has loaded   *)
(* the book, the status the task has left is shown, past answers that were *)
(* under way, unless a request for the book fails (handleBookStatusChanged *)
(* invalidates the book).                                                  *)
StatusEventIsEnough == told ~> BookAt(view["book"]) = BookAt(End) \/ ~told
=============================================================================
