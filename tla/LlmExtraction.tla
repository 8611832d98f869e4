---------------------------- MODULE LlmExtraction ----------------------------
(***************************************************************************)
(* The LLM service of one worker process: run_hybrid_full_extraction with  *)
(* its batches on one event loop, the semaphore that limits the parallel   *)
(* calls of one extraction, and the circuit breaker all extractions of the *)
(* process share.                                                          *)
(*                                                                         *)
(* The loop outlives an extraction.  When the progress callback raises,    *)
(* the batches of that extraction stay on the loop: they go on beside the  *)
(* next one, with a semaphore of their own and the same breaker.           *)
(***************************************************************************)
EXTENDS Integers, Sequences, FiniteSets

CONSTANTS
  Batches,                \* the batches a field can belong to
  FAILURE_THRESHOLD, COOLDOWN_SECONDS, MAX_PARALLEL_BATCHES,
  MaxExtractions          \* bound of a behaviour

ASSUME LimitsAssumption ==
  /\ IsFiniteSet(Batches)
  /\ {FAILURE_THRESHOLD, MAX_PARALLEL_BATCHES} \subseteq Nat \ {0}
  /\ {COOLDOWN_SECONDS, MaxExtractions} \subseteq Nat

VARIABLES
  failures,   \* _consecutive_failures
  openFor,    \* time since _circuit_opened_at, as far as it matters; or Never
  current,    \* the extractions begun so far; the last is the current one
  phase,      \* what the current extraction is doing
  needed,     \* the batches with gaps, of the current extraction
  call,       \* the state of each batch task, by extraction
  arrived,    \* outcomes that as_completed has still to hand over
  results,    \* batch_results
  log         \* how the last extraction that reached the database ended
breaker == <<failures, openFor>>
run == <<current, phase, needed, arrived, results, log>>
vars == <<breaker, run, call>>

Never == -1
Failed == "<failed>"
ASSUME FailedIsNoBatch == Failed \notin Batches
Extractions == 1..MaxExtractions
Usage == {"success", "empty_response", "error"}
Outcome(b, usage) == [batch |-> b, usage |-> usage]

Init ==
  /\ failures = 0 /\ openFor = Never
  /\ current = 0 /\ phase = "idle" /\ needed = {}
  /\ call = [e \in Extractions |-> [b \in Batches |-> "none"]]
  /\ arrived = <<>> /\ results = <<>> /\ log = "none"

In(e, st) == {b \in Batches : call[e][b] = st}
Calls == {eb \in Extractions \X Batches : call[eb[1]][eb[2]] = "calling"}
Running == phase \in {"filling", "reporting"}
-----------------------------------------------------------------------------
(* The circuit breaker. *)
\* Mutation: a success leaves the opening time.
SuccessKeepsTime == failures' = 0 /\ UNCHANGED openFor
RecordSuccess == failures' = 0 /\ openFor' = Never
RecordFailure ==
  /\ failures' = failures + 1
  /\ openFor' = IF failures + 1 >= FAILURE_THRESHOLD THEN 0 ELSE openFor
Open == failures >= FAILURE_THRESHOLD /\ openFor # Never
\* Mutation: an open circuit lets calls through.
NeverRefuses == FALSE
Refuses == Open /\ openFor < COOLDOWN_SECONDS
\* Half-open: the count starts again, for every call that follows.
HalfOpen == IF Open /\ openFor >= COOLDOWN_SECONDS THEN RecordSuccess ELSE UNCHANGED breaker
\* Time passes; past the cooldown it makes no difference.
Tick ==
  /\ openFor # Never /\ openFor < COOLDOWN_SECONDS /\ openFor' = openFor + 1
  /\ UNCHANGED <<failures, run, call>>
-----------------------------------------------------------------------------
(* The batch tasks. *)
Begin ==
  /\ phase = "idle" /\ current < MaxExtractions
  /\ current' = current + 1
  /\ needed' \in SUBSET Batches
  /\ phase' = IF needed' = {} THEN "persist" ELSE "filling"
  /\ call' = [call EXCEPT ![current + 1] = [b \in Batches |-> IF b \in needed' THEN "waiting"
                                                              ELSE "none"]]
  /\ arrived' = <<>> /\ results' = <<>> /\ log' = "none"
  /\ UNCHANGED breaker

\* The outcome of a task reaches the extraction that still asks for it.
Done(e, b, outcome) ==
  /\ call' = [call EXCEPT ![e][b] = "done"]
  /\ arrived' = IF e = current /\ Running THEN Append(arrived, outcome) ELSE arrived
\* Mutation: a task that raised is not handed over.
DoneQuietly(e, b) == call' = [call EXCEPT ![e][b] = "done"] /\ UNCHANGED arrived
Raised(e, b) == Done(e, b, Outcome(Failed, "error"))

\* A task that gets a slot is refused, fails to render its prompt, or calls.
Enter(e, b) ==
  /\ call[e][b] = "waiting" /\ Cardinality(In(e, "calling")) < MAX_PARALLEL_BATCHES
  /\ \/ Refuses /\ Raised(e, b) /\ UNCHANGED breaker
     \/ ~Refuses /\ HalfOpen /\ Raised(e, b)
     \/ ~Refuses /\ HalfOpen /\ call' = [call EXCEPT ![e][b] = "calling"] /\ UNCHANGED arrived
  /\ UNCHANGED <<current, phase, needed, results, log>>

\* Values, none at all, or a fallback parse: each is a response.
Respond(e, b) ==
  /\ call[e][b] = "calling"
  /\ \E usage \in {"success", "empty_response"} : Done(e, b, Outcome(b, usage))
  /\ RecordSuccess
  /\ UNCHANGED <<current, phase, needed, results, log>>
\* A timeout or another error: the batch comes back empty.
CallFails(e, b) ==
  /\ call[e][b] = "calling"
  /\ Done(e, b, Outcome(b, "error"))
  /\ RecordFailure
  /\ UNCHANGED <<current, phase, needed, results, log>>
-----------------------------------------------------------------------------
(* The extraction. *)
Collect ==
  /\ phase = "filling" /\ arrived # <<>>
  /\ results' = Append(results, Head(arrived))
  /\ arrived' = Tail(arrived)
  /\ phase' = "reporting"
  /\ UNCHANGED <<breaker, current, needed, call, log>>

\* Mutation: one less than all is enough.
AllButOneCollected == Len(results) + 1 >= Cardinality(needed)
AllCollected == Len(results) = Cardinality(needed)
Report ==
  /\ phase = "reporting"
  /\ phase' = IF AllCollected THEN "persist" ELSE "filling"
  /\ UNCHANGED <<breaker, current, needed, call, arrived, results, log>>
End(l) ==
  /\ phase' = "idle" /\ needed' = {} /\ arrived' = <<>> /\ results' = <<>> /\ log' = l
  /\ UNCHANGED current
\* The progress callback raises: the extraction ends, its tasks do not.
ReportFails == phase = "reporting" /\ End("callback") /\ UNCHANGED <<breaker, call>>

\* A result without a prompt has one rendered for its batch name, which raises
\* for Failed; otherwise the stage transaction does (StageProofs).
Persist ==
  /\ phase = "persist"
  /\ End(IF \E i \in DOMAIN results : results[i].batch = Failed
           THEN "unknown batch" ELSE "stage")
  /\ UNCHANGED <<breaker, call>>

\* A new process has a closed circuit and an empty loop.
Crash ==
  /\ End("none")
  /\ failures' = 0 /\ openFor' = Never
  /\ call' = [e \in Extractions |-> [b \in Batches |-> "none"]]

TaskStep(e, b) == Enter(e, b) \/ Respond(e, b) \/ CallFails(e, b)
Extract == Collect \/ Report \/ Persist
Next ==
  \/ Begin \/ Extract \/ ReportFails \/ Tick \/ Crash
  \/ \E e \in Extractions, b \in Batches : TaskStep(e, b)
Spec == Init /\ [][Next]_vars

\* A call returns within its timeout of 1200 s, and the loop runs every task
\* that is ready as long as an extraction waits for one.
FairSpec ==
  /\ Spec /\ WF_vars(Extract)
  /\ \A e \in Extractions, b \in Batches : WF_vars(Running /\ TaskStep(e, b))
-----------------------------------------------------------------------------
TypeOK ==
  /\ failures \in Nat /\ openFor \in (0..COOLDOWN_SECONDS) \cup {Never}
  /\ current \in 0..MaxExtractions
  /\ phase \in {"idle", "filling", "reporting", "persist"}
  /\ needed \subseteq Batches
  /\ call \in [Extractions -> [Batches -> {"none", "waiting", "calling", "done"}]]
  /\ arrived \in Seq([batch : Batches \cup {Failed}, usage : Usage])
  /\ results \in Seq([batch : Batches \cup {Failed}, usage : Usage])
  /\ log \in {"none", "callback", "unknown batch", "stage"}

(* The circuit is open exactly when the threshold is reached: no order of  *)
(* late answers, failures and half-open attempts of several extractions    *)
(* leaves a time without the failures or the failures without a time,      *)
(* which would let every call through for ever (_check_circuit_breaker).   *)
OpenMeansThreshold == openFor # Never <=> failures >= FAILURE_THRESHOLD

(* An open circuit lets the calls run out: past the threshold only those   *)
(* that were in flight when it opened can still fail, the ones that an     *)
(* extraction has left behind included.                                    *)
OverrunBounded ==
  failures >= FAILURE_THRESHOLD =>
    failures + Cardinality(Calls) < FAILURE_THRESHOLD + MAX_PARALLEL_BATCHES * current

(* An extraction goes to the database with one result for each batch that  *)
(* had gaps, refused and failed ones included (as_completed in _llm_fill), *)
(* whatever calls of earlier extractions end meanwhile.                    *)
EveryBatchAnswered ==
  phase = "persist" =>
    LET named == {b \in Batches : \E i \in DOMAIN results : results[i].batch = b} IN
      /\ named \subseteq needed
      /\ \A i, j \in DOMAIN results : results[i].batch = results[j].batch /\ i # j
           => results[i].batch = Failed
      /\ Len(results) = Cardinality(needed)

(* An extraction ends, whatever its calls come to and whether the circuit  *)
(* opens under it: no batch waits for ever for a slot.                     *)
ExtractionEnds == phase # "idle" ~> phase = "idle"
=============================================================================
