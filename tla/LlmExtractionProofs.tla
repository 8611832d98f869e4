------------------------ MODULE LlmExtractionProofs ------------------------
(***************************************************************************)
(* Theorems about LlmExtraction, for any batches, thresholds, cooldowns,   *)
(* semaphores and numbers of extractions: types, the agreement of the      *)
(* breaker's two fields, one answer to each batch, and a bound on the      *)
(* failures past the threshold.                                            *)
(*                                                                         *)
(* The invariant Answers follows an outcome from the task that has it to   *)
(* the list of results: an outcome under a batch's name, in either list,   *)
(* is of a task of the current extraction that is done, which can neither  *)
(* end again nor be of an earlier extraction.                              *)
(***************************************************************************)
EXTENDS LlmExtraction, FiniteSetTheorems, SequenceTheorems, TLAPS

CallStates == {"none", "waiting", "calling", "done"}
Outcomes == [batch : Batches \cup {Failed}, usage : Usage]
Current(b) == call[current][b]

\* An outcome with the name of a batch is that of a task that is done.
Named(s) ==
  \A i \in DOMAIN s : s[i].batch # Failed => s[i].batch \in needed /\ Current(s[i].batch) = "done"
Once(s) == \A i, j \in DOMAIN s : s[i].batch = s[j].batch /\ i # j => s[i].batch = Failed
Apart(s, t) == \A i \in DOMAIN s, j \in DOMAIN t : s[i].batch = t[j].batch => s[i].batch = Failed
Lists(s, t) == Named(s) /\ Named(t) /\ Once(s) /\ Once(t) /\ Apart(s, t)
InUse == current \in Extractions /\ \A b \in Batches : Current(b) # "none" => b \in needed
Answers ==
  phase # "idle" =>
    InUse /\ Lists(results, arrived) /\ (phase = "persist" => Len(results) = Cardinality(needed))
IInv == TypeOK /\ OpenMeansThreshold /\ Answers

BreakerOK == failures \in Nat /\ openFor \in (0..COOLDOWN_SECONDS) \cup {Never}
CallOK == call \in [Extractions -> [Batches -> CallStates]]
ListsOK == arrived \in Seq(Outcomes) /\ results \in Seq(Outcomes)
RunOK ==
  /\ current \in 0..MaxExtractions
  /\ phase \in {"idle", "filling", "reporting", "persist"}
  /\ needed \subseteq Batches
  /\ log \in {"none", "callback", "unknown batch", "stage"}

LEMMA TypeParts == TypeOK <=> BreakerOK /\ CallOK /\ ListsOK /\ RunOK
  BY DEF TypeOK, BreakerOK, CallOK, ListsOK, RunOK, CallStates, Outcomes

LEMMA Limits ==
  /\ FAILURE_THRESHOLD \in Nat /\ FAILURE_THRESHOLD > 0
  /\ COOLDOWN_SECONDS \in Nat /\ MaxExtractions \in Nat
  /\ Failed \notin Batches
  BY LimitsAssumption, FailedIsNoBatch

\* Nothing has been answered where both lists are empty.
LEMMA EmptyLists == Lists(<<>>, <<>>)
  BY DEF Lists, Named, Once, Apart

-----------------------------------------------------------------------------
(* The breaker: each of its three steps keeps its two fields in agreement. *)
Agreed == BreakerOK /\ OpenMeansThreshold

LEMMA SuccessAgrees == ASSUME RecordSuccess PROVE Agreed'
  BY Limits DEF RecordSuccess, Agreed, BreakerOK, OpenMeansThreshold, Never

LEMMA FailureAgrees == ASSUME Agreed, RecordFailure PROVE Agreed'
  BY Limits DEF RecordFailure, Agreed, BreakerOK, OpenMeansThreshold, Never

LEMMA SameAgrees == ASSUME Agreed, UNCHANGED breaker PROVE Agreed'
  BY DEF breaker, Agreed, BreakerOK, OpenMeansThreshold

LEMMA HalfOpenAgrees == ASSUME Agreed, HalfOpen PROVE Agreed'
  BY SuccessAgrees, SameAgrees DEF HalfOpen

LEMMA TickAgrees == ASSUME Agreed, Tick PROVE Agreed'
  BY Limits DEF Tick, Agreed, BreakerOK, OpenMeansThreshold, Never

-----------------------------------------------------------------------------
(* The tasks. *)
\* One task goes on, the others stay where they are.
LEMMA CallStep ==
  ASSUME CallOK, NEW e \in Extractions, NEW b \in Batches, NEW st \in CallStates,
         call' = [call EXCEPT ![e][b] = st]
  PROVE  /\ CallOK'
         /\ call'[e][b] = st
         /\ \A f \in Extractions, c \in Batches : f # e \/ c # b => call'[f][c] = call[f][c]
  BY DEF CallOK

\* A task that is done stays so, and one there is was there before.
LEMMA DoneStays ==
  ASSUME CallOK, RunOK, InUse,
         NEW e \in Extractions, NEW b \in Batches, NEW st \in {"calling", "done"},
         call[e][b] \in {"waiting", "calling"},
         call' = [call EXCEPT ![e][b] = st], UNCHANGED <<current, needed>>
  PROVE  InUse' /\ \A s : Named(s) => Named(s)'
  <1>1. st \in CallStates  BY DEF CallStates
  <1>2. /\ call'[e][b] = st
        /\ \A f \in Extractions, c \in Batches : f # e \/ c # b => call'[f][c] = call[f][c]
        BY <1>1, CallStep
  <1>3. InUse'  BY <1>2 DEF InUse, Current
  <1>4. ASSUME NEW s, Named(s), NEW i \in DOMAIN s, s[i].batch # Failed
        PROVE  s[i].batch \in needed' /\ Current(s[i].batch)' = "done"
    <2>1. s[i].batch \in needed /\ call[current][s[i].batch] = "done"
          BY <1>4 DEF Named, Current
    <2>2. s[i].batch \in Batches /\ current \in Extractions
          BY <2>1 DEF RunOK, InUse
    <2>3. current # e \/ s[i].batch # b  BY <2>1
    <2>4. call'[current][s[i].batch] = call[current][s[i].batch]  BY <2>2, <2>3, <1>2
    <2>5. QED  BY <2>1, <2>4 DEF Current
  <1>5. QED  BY <1>3, <1>4 DEF Named

\* An outcome joins those that wait: a failure, or one of a batch not yet there.
LEMMA OneMore ==
  ASSUME NEW s \in Seq(Outcomes), NEW t \in Seq(Outcomes), NEW o \in Outcomes,
         Once(t), Apart(s, t),
         o.batch # Failed => /\ \A i \in DOMAIN s : s[i].batch # o.batch
                             /\ \A i \in DOMAIN t : t[i].batch # o.batch
  PROVE  /\ Append(t, o) \in Seq(Outcomes)
         /\ Once(Append(t, o)) /\ Apart(s, Append(t, o))
         /\ \A i \in DOMAIN Append(t, o) :
              Append(t, o)[i] = o \/ (i \in DOMAIN t /\ Append(t, o)[i] = t[i])
  <1>1. /\ DOMAIN Append(t, o) = 1..(Len(t) + 1) /\ DOMAIN t = 1..Len(t) /\ Len(t) \in Nat
        /\ Append(t, o)[Len(t) + 1] = o
        /\ \A i \in DOMAIN t : Append(t, o)[i] = t[i]
        OBVIOUS
  <1>2. \A i \in DOMAIN Append(t, o) : i \in DOMAIN t \/ i = Len(t) + 1  BY <1>1
  <1>3. Once(Append(t, o))  BY <1>1, <1>2 DEF Once
  <1>4. Apart(s, Append(t, o))  BY <1>1, <1>2 DEF Apart
  <1>5. QED  BY <1>1, <1>2, <1>3, <1>4

\* The first outcome that waits becomes a result.
LEMMA OneHandedOver ==
  ASSUME NEW s \in Seq(Outcomes), NEW t \in Seq(Outcomes), t # <<>>, Lists(s, t)
  PROVE  Lists(Append(s, Head(t)), Tail(t))
  <1>1. /\ DOMAIN t = 1..Len(t) /\ Len(t) \in Nat \ {0} /\ 1 \in DOMAIN t
        /\ DOMAIN Tail(t) = 1..(Len(t) - 1)
        /\ \A i \in DOMAIN Tail(t) : i + 1 \in DOMAIN t /\ i + 1 # 1 /\ Tail(t)[i] = t[i + 1]
        /\ Head(t) = t[1]
        OBVIOUS
  <1>2. /\ DOMAIN s = 1..Len(s) /\ Len(s) \in Nat
        /\ DOMAIN Append(s, Head(t)) = 1..(Len(s) + 1)
        /\ Append(s, Head(t))[Len(s) + 1] = Head(t)
        /\ \A i \in DOMAIN s : Append(s, Head(t))[i] = s[i]
        BY <1>1
  <1>3. \A i \in DOMAIN Append(s, Head(t)) : i \in DOMAIN s \/ i = Len(s) + 1  BY <1>2
  <1>4. Named(Append(s, Head(t))) /\ Named(Tail(t))  BY <1>1, <1>2, <1>3 DEF Lists, Named
  <1>5. Once(Append(s, Head(t)))  BY <1>1, <1>2, <1>3 DEF Lists, Once, Apart
  <1>6. Once(Tail(t))
    <2>1. ASSUME NEW i \in DOMAIN Tail(t), NEW j \in DOMAIN Tail(t), i # j,
                 Tail(t)[i].batch = Tail(t)[j].batch
          PROVE  Tail(t)[i].batch = Failed
      <3>1. i + 1 \in DOMAIN t /\ j + 1 \in DOMAIN t /\ i + 1 # j + 1  BY <1>1, <2>1
      <3>2. t[i + 1].batch = t[j + 1].batch  BY <1>1, <2>1
      <3>3. t[i + 1].batch = Failed  BY <3>1, <3>2 DEF Lists, Once
      <3>4. QED  BY <1>1, <3>3
    <2>2. QED  BY <2>1 DEF Once
  <1>7. Apart(Append(s, Head(t)), Tail(t))
    <2>1. ASSUME NEW i \in DOMAIN Append(s, Head(t)), NEW j \in DOMAIN Tail(t),
                 Append(s, Head(t))[i].batch = Tail(t)[j].batch
          PROVE  Append(s, Head(t))[i].batch = Failed
      <3>1. j + 1 \in DOMAIN t /\ j + 1 # 1 /\ Tail(t)[j] = t[j + 1]  BY <1>1
      <3>2. CASE i \in DOMAIN s  BY <1>2, <2>1, <3>1, <3>2 DEF Lists, Apart
      <3>3. CASE i = Len(s) + 1
        <4>1. t[1].batch = t[j + 1].batch  BY <1>1, <1>2, <2>1, <3>1, <3>3
        <4>2. t[1].batch = Failed  BY <1>1, <3>1, <4>1 DEF Lists, Once
        <4>3. QED  BY <1>1, <1>2, <3>3, <4>2
      <3>4. QED  BY <1>3, <3>2, <3>3
    <2>2. QED  BY <2>1 DEF Apart
  <1>8. QED  BY <1>4, <1>5, <1>6, <1>7 DEF Lists

\* A task goes on without an outcome.
LEMMA TaskGoesOn ==
  ASSUME IInv, NEW e \in Extractions, NEW b \in Batches, call[e][b] = "waiting",
         call' = [call EXCEPT ![e][b] = "calling"], Agreed',
         UNCHANGED <<current, phase, needed, arrived, results, log>>
  PROVE  IInv'
  <1>1. CallOK /\ RunOK /\ ListsOK  BY TypeParts DEF IInv
  <1>2. CallOK' /\ RunOK' /\ ListsOK'
        BY <1>1, CallStep DEF CallStates, RunOK, ListsOK
  <1>3. TypeOK'
    <2>1. TypeOK' <=> BreakerOK' /\ CallOK' /\ ListsOK' /\ RunOK'
          BY DEF TypeOK, BreakerOK, CallOK, ListsOK, RunOK, CallStates, Outcomes
    <2>2. QED  BY <1>2, <2>1 DEF Agreed
  <1>4. ASSUME phase # "idle" PROVE InUse' /\ Lists(results, arrived)'
    <2>1. InUse /\ Lists(results, arrived)  BY <1>4 DEF IInv, Answers
    <2>2. InUse' /\ \A s : Named(s) => Named(s)'  BY <1>1, <2>1, DoneStays
    <2>3. Named(results)' /\ Named(arrived)'  BY <2>1, <2>2 DEF Lists, Named, Current
    <2>4. QED  BY <2>1, <2>2, <2>3 DEF Lists, Once, Apart
  <1>5. Answers'
    <2>1. phase = "persist" => Len(results) = Cardinality(needed)  BY DEF IInv, Answers
    <2>2. phase' = phase /\ results' = results /\ needed' = needed  OBVIOUS
    <2>3. QED  BY <1>4, <2>1, <2>2 DEF Answers
  <1>6. QED  BY <1>3, <1>5 DEF IInv, Agreed

\* A task ends with an outcome, of its batch or of a failure.
LEMMA TaskDone ==
  ASSUME IInv, NEW e \in Extractions, NEW b \in Batches, call[e][b] \in {"waiting", "calling"},
         NEW o \in Outcomes, o.batch \in {b, Failed}, Done(e, b, o), Agreed',
         UNCHANGED <<current, phase, needed, results, log>>
  PROVE  IInv'
  <1>1. CallOK /\ RunOK /\ ListsOK  BY TypeParts DEF IInv
  <1>2. call' = [call EXCEPT ![e][b] = "done"]  BY DEF Done
  <1>3. CallOK' /\ call'[e][b] = "done"  BY <1>1, <1>2, CallStep DEF CallStates
  <1>4. RunOK'  BY <1>1 DEF RunOK
  <1>5. arrived' = arrived \/ (e = current /\ arrived' = Append(arrived, o))  BY DEF Done
  <1>6. ListsOK'  BY <1>1, <1>5 DEF ListsOK
  <1>7. TypeOK'
    <2>1. TypeOK' <=> BreakerOK' /\ CallOK' /\ ListsOK' /\ RunOK'
          BY DEF TypeOK, BreakerOK, CallOK, ListsOK, RunOK, CallStates, Outcomes
    <2>2. QED  BY <1>3, <1>4, <1>6, <2>1 DEF Agreed
  <1>8. ASSUME phase # "idle" PROVE InUse' /\ Lists(results, arrived)'
    <2>1. InUse /\ Lists(results, arrived)  BY <1>8 DEF IInv, Answers
    <2>2. InUse' /\ \A s : Named(s) => Named(s)'  BY <1>1, <1>2, <2>1, DoneStays
    <2>3. Named(results)'  BY <2>1, <2>2 DEF Lists, Named, Current
    <2>4. CASE arrived' = arrived
      <3>1. Named(arrived)'  BY <2>1, <2>2, <2>4 DEF Lists, Named, Current
      <3>2. QED  BY <2>1, <2>2, <2>3, <2>4, <3>1 DEF Lists, Once, Apart
    <2>5. CASE e = current /\ arrived' = Append(arrived, o)
      <3>1. Current(b) \in {"waiting", "calling"}  BY <2>5 DEF Current
      <3>2. b \in needed  BY <2>1, <3>1 DEF InUse
      <3>3. o.batch # Failed => /\ \A i \in DOMAIN results : results[i].batch # o.batch
                                /\ \A i \in DOMAIN arrived : arrived[i].batch # o.batch
            BY <2>1, <3>1 DEF Lists, Named
      <3>4. arrived \in Seq(Outcomes) /\ results \in Seq(Outcomes)  BY <1>1 DEF ListsOK
      <3>5. /\ Once(Append(arrived, o)) /\ Apart(results, Append(arrived, o))
            /\ \A i \in DOMAIN Append(arrived, o) :
                 \/ Append(arrived, o)[i] = o
                 \/ i \in DOMAIN arrived /\ Append(arrived, o)[i] = arrived[i]
            BY <2>1, <3>3, <3>4, OneMore DEF Lists
      <3>6. Named(arrived)'
        <4>1. ASSUME NEW i \in DOMAIN Append(arrived, o), Append(arrived, o)[i].batch # Failed
              PROVE  /\ Append(arrived, o)[i].batch \in needed'
                     /\ call'[current'][Append(arrived, o)[i].batch] = "done"
          <5>1. CASE Append(arrived, o)[i] = o
                BY <1>3, <2>5, <3>2, <4>1, <5>1
          <5>2. CASE i \in DOMAIN arrived /\ Append(arrived, o)[i] = arrived[i]
                BY <2>1, <2>2, <4>1, <5>2 DEF Lists, Named, Current
          <5>3. QED  BY <3>5, <4>1, <5>1, <5>2
        <4>2. QED  BY <2>5, <4>1 DEF Named, Current
      <3>7. QED  BY <2>1, <2>2, <2>3, <2>5, <3>5, <3>6 DEF Lists, Once, Apart
    <2>6. QED  BY <1>5, <2>4, <2>5
  <1>9. Answers'
    <2>1. phase = "persist" => Len(results) = Cardinality(needed)  BY DEF IInv, Answers
    <2>2. phase' = phase /\ results' = results /\ needed' = needed  OBVIOUS
    <2>3. QED  BY <1>8, <2>1, <2>2 DEF Answers
  <1>10. QED  BY <1>7, <1>9 DEF IInv, Agreed

LEMMA OutcomesTyped ==
  ASSUME NEW b \in Batches \cup {Failed}, NEW u \in Usage
  PROVE  Outcome(b, u) \in Outcomes /\ Outcome(b, u).batch = b
  BY DEF Outcome, Outcomes

LEMMA EnterKeeps ==
  ASSUME IInv, NEW e \in Extractions, NEW b \in Batches, Enter(e, b)
  PROVE  IInv'
  <1>1. Agreed  BY TypeParts DEF IInv, Agreed
  <1>2. call[e][b] = "waiting" /\ UNCHANGED <<current, phase, needed, results, log>>
        BY DEF Enter
  <1>3. Agreed'
    <2>1. UNCHANGED breaker \/ HalfOpen  BY DEF Enter
    <2>2. QED  BY <1>1, <2>1, SameAgrees, HalfOpenAgrees
  <1>4. CASE Raised(e, b)
    <2>1. Outcome(Failed, "error") \in Outcomes /\ Outcome(Failed, "error").batch = Failed
          BY OutcomesTyped DEF Usage
    <2>2. Done(e, b, Outcome(Failed, "error"))  BY <1>4 DEF Raised
    <2>3. QED  BY <1>2, <1>3, <2>1, <2>2, TaskDone
  <1>5. CASE call' = [call EXCEPT ![e][b] = "calling"] /\ UNCHANGED arrived
        BY <1>2, <1>3, <1>5, TaskGoesOn
  <1>6. QED  BY <1>4, <1>5 DEF Enter

LEMMA CallEnds ==
  ASSUME IInv, NEW e \in Extractions, NEW b \in Batches, Respond(e, b) \/ CallFails(e, b)
  PROVE  IInv'
  <1>1. Agreed  BY TypeParts DEF IInv, Agreed
  <1>2. call[e][b] = "calling" /\ UNCHANGED <<current, phase, needed, results, log>>
        BY DEF Respond, CallFails
  <1>3. Agreed'  BY <1>1, SuccessAgrees, FailureAgrees DEF Respond, CallFails
  <1>4. PICK usage \in Usage : Done(e, b, Outcome(b, usage))
        BY DEF Respond, CallFails, Usage
  <1>5. Outcome(b, usage) \in Outcomes /\ Outcome(b, usage).batch = b  BY OutcomesTyped
  <1>6. QED  BY <1>2, <1>3, <1>4, <1>5, TaskDone

-----------------------------------------------------------------------------
(* The extraction. *)
LEMMA TypePartsNext == TypeOK' <=> BreakerOK' /\ CallOK' /\ ListsOK' /\ RunOK'
  BY DEF TypeOK, BreakerOK, CallOK, ListsOK, RunOK, CallStates, Outcomes

\* An extraction that has ended has nothing to answer.
LEMMA EndKeeps ==
  ASSUME IInv, NEW l \in {"none", "callback", "unknown batch", "stage"}, End(l), Agreed', CallOK'
  PROVE  IInv'
  <1>1. ListsOK'
    <2>1. arrived' = <<>> /\ results' = <<>>  BY DEF End
    <2>2. <<>> \in Seq(Outcomes)  BY EmptySeq
    <2>3. QED  BY <2>1, <2>2 DEF ListsOK
  <1>2. RunOK  BY TypeParts DEF IInv
  <1>3. RunOK'  BY <1>2 DEF End, RunOK
  <1>4. Answers'  BY DEF End, Answers
  <1>5. QED  BY <1>1, <1>3, <1>4, TypePartsNext DEF IInv, Agreed

LEMMA BeginKeeps == ASSUME IInv, Begin PROVE IInv'
  <1>1. CallOK /\ RunOK /\ Agreed  BY TypeParts DEF IInv, Agreed
  <1>2. Agreed'  BY <1>1, SameAgrees DEF Begin
  <1>3. /\ current \in Nat /\ current < MaxExtractions /\ current' = current + 1
        /\ current' \in Extractions
    <2>1. current \in 0..MaxExtractions  BY <1>1 DEF RunOK
    <2>2. current < MaxExtractions /\ current' = current + 1  BY DEF Begin
    <2>3. QED  BY <2>1, <2>2, Limits DEF Extractions
  <1>4. /\ needed' \subseteq Batches /\ arrived' = <<>> /\ results' = <<>> /\ log' = "none"
        /\ phase' \in {"persist", "filling"} /\ (phase' = "persist" => needed' = {})
        BY DEF Begin
  <1>5. call' = [call EXCEPT ![current'] =
                   [b \in Batches |-> IF b \in needed' THEN "waiting" ELSE "none"]]
        BY DEF Begin
  <1>6. CallOK' /\ \A b \in Batches : call'[current'][b] # "none" => b \in needed'
    <2>1. PICK c, n : c = current' /\ n = needed'  OBVIOUS
    <2>2. [b \in Batches |-> IF b \in n THEN "waiting" ELSE "none"] \in [Batches -> CallStates]
          BY DEF CallStates
    <2>3. call' = [call EXCEPT ![c] = [b \in Batches |-> IF b \in n THEN "waiting" ELSE "none"]]
          BY <1>5, <2>1
    <2>4. call' \in [Extractions -> [Batches -> CallStates]]  BY <1>1, <2>2, <2>3 DEF CallOK
    <2>5. call'[c] = [b \in Batches |-> IF b \in n THEN "waiting" ELSE "none"]
          BY <1>1, <1>3, <2>1, <2>3 DEF CallOK
    <2>6. QED  BY <2>1, <2>4, <2>5 DEF CallOK
  <1>7. ListsOK' /\ RunOK'  BY <1>3, <1>4, Limits DEF ListsOK, RunOK, Extractions
  <1>8. InUse'  BY <1>3, <1>6 DEF InUse, Current
  <1>9. Lists(results, arrived)'
        BY <1>4 DEF Lists, Named, Once, Apart
  <1>10. phase' = "persist" => Len(results') = Cardinality(needed')
         BY <1>4, FS_EmptySet
  <1>11. QED
         BY <1>2, <1>6, <1>7, <1>8, <1>9, <1>10, TypePartsNext DEF IInv, Answers, Agreed

LEMMA CollectKeeps == ASSUME IInv, Collect PROVE IInv'
  <1>1. CallOK /\ RunOK /\ Agreed /\ ListsOK  BY TypeParts DEF IInv, Agreed
  <1>2. Agreed'  BY <1>1, SameAgrees DEF Collect
  <1>3. /\ results' = Append(results, Head(arrived)) /\ arrived' = Tail(arrived)
        /\ arrived # <<>> /\ phase = "filling" /\ phase' = "reporting"
        /\ UNCHANGED <<current, needed, call, log>>
        BY DEF Collect
  <1>4. Head(arrived) \in Outcomes /\ Tail(arrived) \in Seq(Outcomes)
        BY <1>1, <1>3 DEF ListsOK
  <1>5. CallOK' /\ RunOK'  BY <1>1, <1>3 DEF CallOK, RunOK
  <1>6. ListsOK'  BY <1>1, <1>3, <1>4 DEF ListsOK
  <1>7. InUse /\ Lists(results, arrived)  BY <1>3 DEF IInv, Answers
  <1>8. Lists(Append(results, Head(arrived)), Tail(arrived))
        BY <1>1, <1>3, <1>7, OneHandedOver DEF ListsOK
  <1>9. InUse'  BY <1>3, <1>7 DEF InUse, Current
  <1>10. Lists(results, arrived)'
         BY <1>3, <1>8 DEF Lists, Named, Once, Apart, Current
  <1>11. Answers'  BY <1>3, <1>9, <1>10 DEF Answers
  <1>12. QED  BY <1>2, <1>5, <1>6, <1>11, TypePartsNext DEF IInv, Agreed

LEMMA ReportKeeps == ASSUME IInv, Report PROVE IInv'
  <1>1. CallOK /\ RunOK /\ Agreed /\ ListsOK  BY TypeParts DEF IInv, Agreed
  <1>2. /\ phase = "reporting" /\ phase' \in {"persist", "filling"}
        /\ phase' = "persist" => Len(results) = Cardinality(needed)
        /\ UNCHANGED <<breaker, current, needed, call, arrived, results, log>>
        BY DEF Report, AllCollected
  <1>3. Agreed'  BY <1>1, <1>2, SameAgrees
  <1>4. CallOK' /\ RunOK' /\ ListsOK'  BY <1>1, <1>2 DEF CallOK, RunOK, ListsOK
  <1>5. InUse /\ Lists(results, arrived)  BY <1>2 DEF IInv, Answers
  <1>6. InUse' /\ Lists(results, arrived)'
        BY <1>2, <1>5 DEF InUse, Lists, Named, Once, Apart, Current
  <1>7. Answers'  BY <1>2, <1>6 DEF Answers
  <1>8. QED  BY <1>3, <1>4, <1>7, TypePartsNext DEF IInv, Agreed

\* The four steps that leave the extraction or the tasks aside.
LEMMA OtherKeeps ==
  ASSUME IInv, ReportFails \/ Persist \/ Crash \/ Tick \/ UNCHANGED vars
  PROVE  IInv'
  <1>1. CallOK /\ RunOK /\ Agreed /\ ListsOK  BY TypeParts DEF IInv, Agreed
  <1>2. CASE ReportFails \/ Persist
    <2>1. UNCHANGED <<breaker, call>>  BY <1>2 DEF ReportFails, Persist
    <2>2. Agreed' /\ CallOK'  BY <1>1, <2>1, SameAgrees DEF CallOK
    <2>3. \E l \in {"none", "callback", "unknown batch", "stage"} : End(l)
          BY <1>2 DEF ReportFails, Persist
    <2>4. QED  BY <2>2, <2>3, EndKeeps
  <1>3. CASE Crash
    <2>1. failures' = 0 /\ openFor' = Never /\ End("none")  BY <1>3 DEF Crash
    <2>2. Agreed'  BY <2>1, Limits DEF Agreed, BreakerOK, OpenMeansThreshold, Never
    <2>3. CallOK'  BY <1>3 DEF Crash, CallOK, CallStates
    <2>4. QED  BY <2>1, <2>2, <2>3, EndKeeps
  <1>4. CASE Tick \/ UNCHANGED vars
    <2>1. UNCHANGED <<run, call>>  BY <1>4 DEF Tick, vars
    <2>2. Agreed'  BY <1>1, <1>4, TickAgrees, SameAgrees DEF vars
    <2>3. CallOK' /\ RunOK' /\ ListsOK'  BY <1>1, <2>1 DEF CallOK, RunOK, ListsOK, run
    <2>4. Answers'
          BY <2>1 DEF IInv, Answers, InUse, Lists, Named, Once, Apart, Current, run
    <2>5. QED  BY <2>2, <2>3, <2>4, TypePartsNext DEF IInv, Agreed
  <1>5. QED  BY <1>2, <1>3, <1>4

LEMMA InitIInv == Init => IInv
  <1>1. SUFFICES ASSUME Init PROVE IInv  OBVIOUS
  <1>2. Agreed  BY <1>1, Limits DEF Init, Agreed, BreakerOK, OpenMeansThreshold, Never
  <1>3. CallOK /\ ListsOK  BY <1>1 DEF Init, CallOK, ListsOK, CallStates
  <1>4. RunOK  BY <1>1, Limits DEF Init, RunOK
  <1>5. Answers  BY <1>1 DEF Init, Answers
  <1>6. QED  BY <1>2, <1>3, <1>4, <1>5, TypeParts DEF IInv, Agreed

LEMMA NextIInv == IInv /\ [Next]_vars => IInv'
  <1>1. SUFFICES ASSUME IInv, [Next]_vars PROVE IInv'  OBVIOUS
  <1>2. CASE Begin  BY <1>1, <1>2, BeginKeeps
  <1>3. CASE Collect  BY <1>1, <1>3, CollectKeeps
  <1>4. CASE Report  BY <1>1, <1>4, ReportKeeps
  <1>5. CASE ReportFails \/ Persist \/ Crash \/ Tick \/ UNCHANGED vars
        BY <1>1, <1>5, OtherKeeps
  <1>6. CASE \E e \in Extractions, b \in Batches : TaskStep(e, b)
    <2>1. PICK e \in Extractions, b \in Batches : TaskStep(e, b)  BY <1>6
    <2>2. QED  BY <1>1, <2>1, EnterKeeps, CallEnds DEF TaskStep
  <1>7. QED  BY <1>1, <1>2, <1>3, <1>4, <1>5, <1>6 DEF Next, Extract

LEMMA SpecIInv == Spec => []IInv
  BY InitIInv, NextIInv, PTL DEF Spec

(* The breaker's fields, the tasks and the lists of outcomes keep their    *)
(* types, for any number of extractions of any batches.                    *)
THEOREM TypeCorrect == Spec => []TypeOK
  <1>1. IInv => TypeOK  BY DEF IInv
  <1>2. QED  BY <1>1, SpecIInv, PTL

(* services/llm_service.py _check_circuit_breaker: whichever late answers  *)
(* and failures of earlier extractions come in between, the count is at    *)
(* the threshold exactly when the circuit has an opening time.             *)
THEOREM BreakerAgrees == Spec => []OpenMeansThreshold
  <1>1. IInv => OpenMeansThreshold  BY DEF IInv
  <1>2. QED  BY <1>1, SpecIInv, PTL

(* services/llm_service.py _llm_fill: what goes to the database is one     *)
(* outcome for each batch with gaps, and none of an earlier extraction.    *)
THEOREM BatchesAnswered == Spec => []EveryBatchAnswered
  <1>1. IInv => EveryBatchAnswered
    <2>1. SUFFICES ASSUME IInv, phase = "persist" PROVE EveryBatchAnswered
          BY DEF EveryBatchAnswered
    <2>2. Named(results) /\ Once(results) /\ Len(results) = Cardinality(needed)
          BY <2>1 DEF IInv, Answers, Lists
    <2>3. \A b \in Batches : (\E i \in DOMAIN results : results[i].batch = b) => b \in needed
          BY <2>2, Limits DEF Named
    <2>4. QED  BY <2>2, <2>3 DEF EveryBatchAnswered, Once
  <1>2. QED  BY <1>1, SpecIInv, PTL

-----------------------------------------------------------------------------
(* The calls in flight. *)
\* No extraction has more of them than slots, and none has any that is not begun.
Slots == \A e \in Extractions :
  /\ Cardinality(In(e, "calling")) <= MAX_PARALLEL_BATCHES
  /\ e > current => \A b \in Batches : call[e][b] = "none"
SlotsInv == Slots /\ OverrunBounded

LEMMA Finite ==
  ASSUME CallOK
  PROVE  /\ MAX_PARALLEL_BATCHES \in Nat \ {0} /\ FAILURE_THRESHOLD \in Nat \ {0}
         /\ MaxExtractions \in Nat
         /\ \A e \in Extractions : IsFiniteSet(In(e, "calling"))
                                   /\ Cardinality(In(e, "calling")) \in Nat
         /\ IsFiniteSet(Calls) /\ Cardinality(Calls) \in Nat
  <1>1. /\ MAX_PARALLEL_BATCHES \in Nat \ {0} /\ FAILURE_THRESHOLD \in Nat \ {0}
        /\ MaxExtractions \in Nat /\ IsFiniteSet(Batches)
        BY LimitsAssumption
  <1>2. ASSUME NEW e \in Extractions
        PROVE  IsFiniteSet(In(e, "calling")) /\ Cardinality(In(e, "calling")) \in Nat
    <2>1. In(e, "calling") \in SUBSET Batches  BY DEF In
    <2>2. IsFiniteSet(In(e, "calling"))  BY <1>1, <2>1, FS_Subset
    <2>3. QED  BY <2>2, FS_CardinalityType
  <1>3. IsFiniteSet(Extractions)  BY <1>1, FS_Interval DEF Extractions
  <1>4. IsFiniteSet(Extractions \X Batches)  BY <1>1, <1>3, FS_Product
  <1>5. Calls \in SUBSET (Extractions \X Batches)  BY DEF Calls
  <1>6. IsFiniteSet(Calls)  BY <1>4, <1>5, FS_Subset
  <1>7. QED  BY <1>1, <1>2, <1>6, FS_CardinalityType

\* Numbering the calls of each extraction numbers them all.
LEMMA CallsCounted ==
  ASSUME CallOK, Slots, current \in 0..MaxExtractions
  PROVE  Cardinality(Calls) <= MAX_PARALLEL_BATCHES * current
  <1> DEFINE N(e) == Cardinality(In(e, "calling"))
             G(e) == CHOOSE g : g \in Surjection(1..N(e), In(e, "calling"))
             slot(e, b) == CHOOSE i \in 1..MAX_PARALLEL_BATCHES : i \in 1..N(e) /\ G(e)[i] = b
             T == (1..current) \X (1..MAX_PARALLEL_BATCHES)
             f == [eb \in Calls |-> <<eb[1], slot(eb[1], eb[2])>>]
  <1>1. ASSUME NEW e \in Extractions, NEW b \in In(e, "calling")
        PROVE  /\ slot(e, b) \in 1..MAX_PARALLEL_BATCHES /\ G(e)[slot(e, b)] = b
    <2>1. N(e) \in Nat /\ N(e) <= MAX_PARALLEL_BATCHES  BY Finite DEF Slots
    <2>2. ExistsBijection(1..N(e), In(e, "calling"))  BY Finite, FS_CardinalityType
    <2>3. \E g : g \in Surjection(1..N(e), In(e, "calling"))
          BY <2>2 DEF ExistsBijection, Bijection
    <2>4. G(e) \in Surjection(1..N(e), In(e, "calling"))  BY <2>3
    <2>5. \E i \in 1..N(e) : G(e)[i] = b  BY <2>4 DEF Surjection
    <2>6. \A i \in 1..N(e) : i \in 1..MAX_PARALLEL_BATCHES  BY <2>1, Finite
    <2>7. \E i \in 1..MAX_PARALLEL_BATCHES : i \in 1..N(e) /\ G(e)[i] = b  BY <2>5, <2>6
    <2>8. QED  BY <2>7
  <1>2. ASSUME NEW eb \in Calls
        PROVE  /\ eb[1] \in Extractions /\ eb[2] \in In(eb[1], "calling") /\ eb[1] \in 1..current
               /\ eb = <<eb[1], eb[2]>>
    <2>1. eb \in Extractions \X Batches /\ call[eb[1]][eb[2]] = "calling"  BY DEF Calls
    <2>2. eb[2] \in In(eb[1], "calling")  BY <2>1 DEF In
    <2>3. ~(eb[1] > current)  BY <2>1 DEF Slots
    <2>4. QED  BY <2>1, <2>2, <2>3, Finite DEF Extractions
  <1>3. f \in Injection(Calls, T)
    <2>1. f \in [Calls -> T]
      <3>1. ASSUME NEW eb \in Calls PROVE <<eb[1], slot(eb[1], eb[2])>> \in T
        <4>1. eb[1] \in Extractions /\ eb[2] \in In(eb[1], "calling") /\ eb[1] \in 1..current
              BY <1>2
        <4>2. slot(eb[1], eb[2]) \in 1..MAX_PARALLEL_BATCHES  BY <4>1, <1>1
        <4> HIDE DEF slot
        <4>3. QED  BY <4>1, <4>2
      <3> HIDE DEF slot, T
      <3>2. QED  BY <3>1
    <2>2. ASSUME NEW x \in Calls, NEW y \in Calls, f[x] = f[y] PROVE x = y
      <3>1. x[1] = y[1] /\ slot(x[1], x[2]) = slot(y[1], y[2])
        <4> HIDE DEF slot
        <4>1. f[x] = <<x[1], slot(x[1], x[2])>> /\ f[y] = <<y[1], slot(y[1], y[2])>>  OBVIOUS
        <4>2. QED  BY <2>2, <4>1
      <3>2. G(x[1])[slot(x[1], x[2])] = x[2] /\ G(y[1])[slot(y[1], y[2])] = y[2]
        <4>1. /\ x[1] \in Extractions /\ x[2] \in In(x[1], "calling")
              /\ y[1] \in Extractions /\ y[2] \in In(y[1], "calling")
              BY <1>2
        <4>2. G(x[1])[slot(x[1], x[2])] = x[2]  BY <4>1, <1>1
        <4>3. G(y[1])[slot(y[1], y[2])] = y[2]  BY <4>1, <1>1
        <4>4. QED  BY <4>2, <4>3
      <3>3. x[2] = y[2]  BY <3>1, <3>2
      <3>4. x = <<x[1], x[2]>> /\ y = <<y[1], y[2]>>  BY <1>2
      <3>5. QED  BY <3>1, <3>3, <3>4
    <2>3. IsInjective(f)  BY <2>2 DEF IsInjective
    <2>4. QED  BY <2>1, <2>3 DEF Injection
  <1>4. /\ IsFiniteSet(1..current) /\ Cardinality(1..current) = current
        /\ IsFiniteSet(1..MAX_PARALLEL_BATCHES)
        /\ Cardinality(1..MAX_PARALLEL_BATCHES) = MAX_PARALLEL_BATCHES
    <2>1. ASSUME NEW n \in Nat PROVE IsFiniteSet(1..n) /\ Cardinality(1..n) = n
      <3>1. IsFiniteSet(1..n) /\ Cardinality(1..n) = IF 1 > n THEN 0 ELSE n - 1 + 1
            BY FS_Interval
      <3>2. QED  BY <3>1
    <2>2. current \in Nat /\ MAX_PARALLEL_BATCHES \in Nat  BY Finite
    <2>3. QED  BY <2>1, <2>2
  <1>5. IsFiniteSet(T) /\ Cardinality(T) = current * MAX_PARALLEL_BATCHES
        BY <1>4, FS_Product
  <1>6. Cardinality(Calls) <= current * MAX_PARALLEL_BATCHES
    <2> HIDE DEF f, T
    <2>1. QED  BY <1>3, <1>5, FS_Injection
  <1>7. current * MAX_PARALLEL_BATCHES = MAX_PARALLEL_BATCHES * current  BY Finite
  <1>8. QED  BY <1>6, <1>7

\* A step of one task: the calls of the others are as they were.
LEMMA CallsOfOthers ==
  ASSUME CallOK, NEW e \in Extractions, NEW b \in Batches, NEW st \in CallStates,
         call' = [call EXCEPT ![e][b] = st]
  PROVE  /\ \A x \in Extractions : x # e => In(x, "calling")' = In(x, "calling")
         /\ st = "calling" => In(e, "calling")' = In(e, "calling") \cup {b}
         /\ st # "calling" => /\ In(e, "calling")' = In(e, "calling") \ {b}
                              /\ Calls' = Calls \ {<<e, b>>}
  <1>1. /\ call'[e][b] = st
        /\ \A f \in Extractions, c \in Batches : f # e \/ c # b => call'[f][c] = call[f][c]
        BY DEF CallOK
  <1>2. \A x \in Extractions : x # e => In(x, "calling")' = In(x, "calling")
    <2>1. ASSUME NEW x \in Extractions, x # e PROVE In(x, "calling")' = In(x, "calling")
      <3>1. \A c \in Batches : call'[x][c] = call[x][c]  BY <1>1, <2>1
      <3>2. QED  BY <3>1 DEF In
    <2>2. QED  BY <2>1
  <1>3. st = "calling" => In(e, "calling")' = In(e, "calling") \cup {b}  BY <1>1 DEF In
  <1>4. st # "calling" => In(e, "calling")' = In(e, "calling") \ {b}  BY <1>1 DEF In
  <1>5. ASSUME st # "calling" PROVE Calls' = Calls \ {<<e, b>>}
    <2>1. ASSUME NEW f \in Extractions, NEW c \in Batches
          PROVE  call'[f][c] = "calling" <=> call[f][c] = "calling" /\ <<f, c>> # <<e, b>>
          BY <1>1, <1>5
    <2>2. ASSUME NEW eb \in Extractions \X Batches
          PROVE  call'[eb[1]][eb[2]] = "calling" <=> call[eb[1]][eb[2]] = "calling" /\ eb # <<e, b>>
          BY <2>1
    <2>3. QED  BY <2>2 DEF Calls
  <1>6. QED  BY <1>2, <1>3, <1>4, <1>5

\* No call begins, and the failures stay or start again.
LEMMA FewerCalls ==
  ASSUME CallOK, CallOK', SlotsInv, failures \in Nat, current \in 0..MaxExtractions,
         current' \in {current, current + 1},
         \A e \in Extractions : In(e, "calling")' \subseteq In(e, "calling"),
         \A e \in Extractions, b \in Batches : e > current' => call'[e][b] = "none",
         failures' \in {0, failures}
  PROVE  SlotsInv'
  <1>1. Calls' \in SUBSET Calls
    <2>1. ASSUME NEW eb \in Extractions \X Batches, call'[eb[1]][eb[2]] = "calling"
          PROVE  call[eb[1]][eb[2]] = "calling"
      <3>1. eb[2] \in In(eb[1], "calling")'  BY <2>1 DEF In
      <3>2. eb[2] \in In(eb[1], "calling")  BY <3>1
      <3>3. QED  BY <3>2 DEF In
    <2>2. QED  BY <2>1 DEF Calls
  <1>2. Cardinality(Calls') <= Cardinality(Calls) /\ Cardinality(Calls') \in Nat
    <2>1. IsFiniteSet(Calls) /\ Cardinality(Calls) \in Nat  BY Finite
    <2>2. IsFiniteSet(Calls') /\ Cardinality(Calls') <= Cardinality(Calls)
          BY <1>1, <2>1, FS_Subset
    <2>3. QED  BY <2>2, FS_CardinalityType
  <1>3. Slots'
    <2>1. ASSUME NEW e \in Extractions
          PROVE  Cardinality(In(e, "calling")') <= MAX_PARALLEL_BATCHES
      <3>1. In(e, "calling")' \in SUBSET In(e, "calling")  OBVIOUS
      <3>2. IsFiniteSet(In(e, "calling")) /\ Cardinality(In(e, "calling")) \in Nat
            /\ MAX_PARALLEL_BATCHES \in Nat  BY Finite
      <3>3. IsFiniteSet(In(e, "calling")')
            /\ Cardinality(In(e, "calling")') <= Cardinality(In(e, "calling"))
            BY <3>1, <3>2, FS_Subset
      <3>4. Cardinality(In(e, "calling")') \in Nat  BY <3>3, FS_CardinalityType
      <3>5. Cardinality(In(e, "calling")) <= MAX_PARALLEL_BATCHES  BY DEF SlotsInv, Slots
      <3>6. QED  BY <3>2, <3>3, <3>4, <3>5
    <2>2. QED  BY <2>1 DEF Slots
  <1>4. OverrunBounded'
    <2>1. FAILURE_THRESHOLD \in Nat \ {0} /\ MAX_PARALLEL_BATCHES \in Nat
          /\ Cardinality(Calls) \in Nat  BY Finite
    <2>2. MAX_PARALLEL_BATCHES * current <= MAX_PARALLEL_BATCHES * current'
      <3>1. \A m, n \in Nat : m * (n + 1) = m * n + m /\ m * n \in Nat  OBVIOUS
      <3>2. current \in Nat  OBVIOUS
      <3>3. /\ MAX_PARALLEL_BATCHES * (current + 1)
                 = MAX_PARALLEL_BATCHES * current + MAX_PARALLEL_BATCHES
            /\ MAX_PARALLEL_BATCHES * current \in Nat
            BY <2>1, <3>1, <3>2
      <3>4. CASE current' = current  BY <3>3, <3>4
      <3>5. CASE current' = current + 1  BY <2>1, <3>3, <3>5
      <3>6. QED  BY <3>4, <3>5
    <2>3. SUFFICES ASSUME failures' >= FAILURE_THRESHOLD
                   PROVE  failures' + Cardinality(Calls')
                            < FAILURE_THRESHOLD + MAX_PARALLEL_BATCHES * current'
          BY DEF OverrunBounded
    <2>4. failures' = failures  BY <2>1, <2>3
    <2>5. failures + Cardinality(Calls) < FAILURE_THRESHOLD + MAX_PARALLEL_BATCHES * current
          BY <2>3, <2>4 DEF SlotsInv, OverrunBounded
    <2>6. /\ MAX_PARALLEL_BATCHES * current \in Nat /\ MAX_PARALLEL_BATCHES * current' \in Nat
      <3>1. \A m, n \in Nat : m * n \in Nat  OBVIOUS
      <3>2. current \in Nat /\ current' \in Nat  OBVIOUS
      <3>3. QED  BY <2>1, <3>1, <3>2
    <2>7. QED  BY <1>2, <2>1, <2>2, <2>4, <2>5, <2>6
  <1>5. QED  BY <1>3, <1>4 DEF SlotsInv

\* A call is let in by a circuit that is not at the threshold.
LEMMA LetIn ==
  ASSUME IInv, ~Refuses, HalfOpen
  PROVE  failures' < FAILURE_THRESHOLD
  <1>1. FAILURE_THRESHOLD \in Nat /\ FAILURE_THRESHOLD > 0 /\ COOLDOWN_SECONDS \in Nat  BY Limits
  <1>2. BreakerOK /\ OpenMeansThreshold  BY TypeParts DEF IInv
  <1>3. CASE Open /\ openFor >= COOLDOWN_SECONDS
        BY <1>1, <1>3 DEF HalfOpen, RecordSuccess
  <1>4. CASE ~(Open /\ openFor >= COOLDOWN_SECONDS)
    <2>1. failures' = failures  BY <1>4 DEF HalfOpen, breaker
    <2>2. ~Open
      <3>1. SUFFICES ASSUME Open PROVE FALSE  OBVIOUS
      <3>2. openFor \in 0..COOLDOWN_SECONDS  BY <1>2, <3>1 DEF BreakerOK, Open
      <3>3. QED  BY <1>1, <1>4, <3>1, <3>2 DEF Refuses
    <2>3. QED  BY <1>1, <1>2, <2>1, <2>2 DEF Open, OpenMeansThreshold, BreakerOK
  <1>5. QED  BY <1>3, <1>4

LEMMA TaskSlots ==
  ASSUME IInv, IInv', SlotsInv, NEW e \in Extractions, NEW b \in Batches, TaskStep(e, b)
  PROVE  SlotsInv'
  <1>0. CallOK /\ CallOK' /\ current \in 0..MaxExtractions /\ failures \in Nat
        BY TypeParts, TypePartsNext DEF IInv, RunOK, BreakerOK
  <1>1. current' = current /\ FAILURE_THRESHOLD \in Nat \ {0} /\ MAX_PARALLEL_BATCHES \in Nat
        BY <1>0, Finite DEF TaskStep, Enter, Respond, CallFails
  <1>n. /\ e <= current
        /\ \A x \in Extractions, c \in Batches : x > current' => call'[x][c] = "none"
    <2>1. call[e][b] # "none" /\ e \in Nat
          BY DEF TaskStep, Enter, Respond, CallFails, Extractions
    <2>2. e <= current  BY <1>0, <2>1 DEF SlotsInv, Slots
    <2>3. ASSUME NEW x \in Extractions, NEW c \in Batches, x > current
          PROVE  call'[x][c] = "none"
      <3>1. x # e  BY <1>0, <2>1, <2>2, <2>3
      <3>2. call'[x] = call[x]
            BY <1>0, <3>1 DEF TaskStep, Enter, Respond, CallFails, Raised, Done, CallOK
      <3>3. QED  BY <2>3, <3>2 DEF SlotsInv, Slots
    <2>4. QED  BY <1>1, <2>2, <2>3
  <1>2. ASSUME call' = [call EXCEPT ![e][b] = "done"]
        PROVE  /\ \A x \in Extractions : In(x, "calling")' \subseteq In(x, "calling")
               /\ In(e, "calling")' = In(e, "calling") \ {b}
               /\ Calls' = Calls \ {<<e, b>>}
    <2> DEFINE st == "done"
    <2>1. st \in CallStates /\ st # "calling"  BY DEF CallStates
    <2>2. call' = [call EXCEPT ![e][b] = st]  BY <1>2
    <2> HIDE DEF st
    <2>3. \A x \in Extractions : x # e => In(x, "calling")' = In(x, "calling")
          BY <1>0, <2>1, <2>2, CallsOfOthers
    <2>4. In(e, "calling")' = In(e, "calling") \ {b} /\ Calls' = Calls \ {<<e, b>>}
          BY <1>0, <2>1, <2>2, CallsOfOthers
    <2>5. QED  BY <2>3, <2>4
  <1>3. ASSUME call' = [call EXCEPT ![e][b] = "done"], failures' \in {0, failures} PROVE SlotsInv'
        BY <1>0, <1>1, <1>n, <1>2, <1>3, FewerCalls
  <1>4. CASE Enter(e, b)
    <2>1. ASSUME Raised(e, b), failures' \in {0, failures} PROVE SlotsInv'
          BY <1>3, <2>1 DEF Raised, Done
    <2>2. CASE Refuses /\ Raised(e, b) /\ UNCHANGED breaker
          BY <2>1, <2>2 DEF breaker
    <2>3. CASE ~Refuses /\ HalfOpen /\ Raised(e, b)
          BY <2>1, <2>3 DEF HalfOpen, RecordSuccess, breaker
    <2>4. CASE ~Refuses /\ HalfOpen /\ call' = [call EXCEPT ![e][b] = "calling"]
      <3>1. failures' < FAILURE_THRESHOLD  BY <2>4, LetIn
      <3>2. failures' \in Nat  BY TypePartsNext DEF IInv, BreakerOK
      <3>3. OverrunBounded'  BY <1>1, <3>1, <3>2 DEF OverrunBounded
      <3>4. "calling" \in CallStates  BY DEF CallStates
      <3>5. /\ \A x \in Extractions : x # e => In(x, "calling")' = In(x, "calling")
            /\ In(e, "calling")' = In(e, "calling") \cup {b}
            BY <1>0, <2>4, <3>4, CallsOfOthers
      <3>6. Cardinality(In(e, "calling")) < MAX_PARALLEL_BATCHES  BY <1>4 DEF Enter
      <3>7. IsFiniteSet(In(e, "calling")) /\ Cardinality(In(e, "calling")) \in Nat  BY <1>0, Finite
      <3>8. Cardinality(In(e, "calling")') <= MAX_PARALLEL_BATCHES
        <4>1. Cardinality(In(e, "calling") \cup {b})
                = IF b \in In(e, "calling") THEN Cardinality(In(e, "calling"))
                  ELSE Cardinality(In(e, "calling")) + 1
              BY <3>7, FS_AddElement
        <4>2. QED  BY <1>1, <3>5, <3>6, <3>7, <4>1
      <3>9. Slots'
        <4>1. ASSUME NEW x \in Extractions
              PROVE  Cardinality(In(x, "calling")') <= MAX_PARALLEL_BATCHES
          <5>1. CASE x = e  BY <3>8, <5>1
          <5>2. CASE x # e  BY <3>5, <5>2 DEF SlotsInv, Slots
          <5>3. QED  BY <5>1, <5>2
        <4>2. QED  BY <1>n, <4>1 DEF Slots
      <3>10. QED  BY <3>3, <3>9 DEF SlotsInv
    <2>5. QED  BY <1>4, <2>2, <2>3, <2>4 DEF Enter
  <1>5. CASE Respond(e, b)
        BY <1>3, <1>5 DEF Respond, Done, RecordSuccess
  <1>6. CASE CallFails(e, b)
    <2>1. /\ call' = [call EXCEPT ![e][b] = "done"] /\ call[e][b] = "calling"
          /\ failures' = failures + 1
          BY <1>6 DEF CallFails, Done, RecordFailure
    <2>2. /\ \A x \in Extractions : In(x, "calling")' \subseteq In(x, "calling")
          /\ Calls' = Calls \ {<<e, b>>}
          BY <1>2, <2>1
    <2>3. <<e, b>> \in Calls  BY <2>1 DEF Calls
    <2>4. IsFiniteSet(Calls) /\ Cardinality(Calls) \in Nat  BY <1>0, Finite
    <2>5. Cardinality(Calls') = Cardinality(Calls) - 1
          BY <2>2, <2>3, <2>4, FS_RemoveElement
    <2>6. Slots'
      <3>1. ASSUME NEW x \in Extractions
            PROVE  Cardinality(In(x, "calling")') <= MAX_PARALLEL_BATCHES
        <4>1. IsFiniteSet(In(x, "calling")) /\ Cardinality(In(x, "calling")) \in Nat
              BY <1>0, Finite
        <4>2. In(x, "calling")' \in SUBSET In(x, "calling")  BY <2>2
        <4>3. IsFiniteSet(In(x, "calling")')
              /\ Cardinality(In(x, "calling")') <= Cardinality(In(x, "calling"))
              BY <4>1, <4>2, FS_Subset
        <4>4. Cardinality(In(x, "calling")') \in Nat  BY <4>3, FS_CardinalityType
        <4>5. Cardinality(In(x, "calling")) <= MAX_PARALLEL_BATCHES  BY DEF SlotsInv, Slots
        <4>6. QED  BY <1>1, <4>1, <4>3, <4>4, <4>5
      <3>2. QED  BY <1>n, <3>1 DEF Slots
    <2>7. OverrunBounded'
      <3>1. Cardinality(Calls) <= MAX_PARALLEL_BATCHES * current
            BY <1>0, CallsCounted DEF SlotsInv
      <3>2. MAX_PARALLEL_BATCHES * current \in Nat
        <4>1. \A m, n \in Nat : m * n \in Nat  OBVIOUS
        <4>2. QED  BY <1>0, <1>1, <4>1
      <3>3. SUFFICES ASSUME failures + 1 >= FAILURE_THRESHOLD
                     PROVE  failures + 1 + Cardinality(Calls')
                              < FAILURE_THRESHOLD + MAX_PARALLEL_BATCHES * current
            BY <1>1, <2>1 DEF OverrunBounded
      <3>4. CASE failures >= FAILURE_THRESHOLD
        <4>1. failures + Cardinality(Calls) < FAILURE_THRESHOLD + MAX_PARALLEL_BATCHES * current
              BY <3>4 DEF SlotsInv, OverrunBounded
        <4>2. QED  BY <1>0, <1>1, <2>4, <2>5, <3>2, <4>1
      <3>5. CASE ~(failures >= FAILURE_THRESHOLD)
        <4>1. failures + 1 = FAILURE_THRESHOLD  BY <1>0, <1>1, <3>3, <3>5
        <4>2. QED  BY <1>0, <1>1, <2>4, <2>5, <3>1, <3>2, <4>1
      <3>6. QED  BY <3>4, <3>5
    <2>8. QED  BY <2>6, <2>7 DEF SlotsInv
  <1>7. QED  BY <1>4, <1>5, <1>6 DEF TaskStep

LEMMA NextSlots == IInv /\ IInv' /\ SlotsInv /\ [Next]_vars => SlotsInv'
  <1>1. SUFFICES ASSUME IInv, IInv', SlotsInv, [Next]_vars PROVE SlotsInv'  OBVIOUS
  <1>0. CallOK /\ CallOK' /\ current \in 0..MaxExtractions /\ failures \in Nat
        BY <1>1, TypeParts, TypePartsNext DEF IInv, RunOK, BreakerOK
  <1>2. CASE UNCHANGED <<failures, current, call>>
        BY <1>1, <1>2 DEF SlotsInv, Slots, OverrunBounded, In, Calls
  <1>3. CASE Begin
    <2>1. /\ current' = current + 1 /\ current < MaxExtractions /\ failures' = failures
          /\ call' = [call EXCEPT ![current + 1] =
                        [b \in Batches |-> IF b \in needed' THEN "waiting" ELSE "none"]]
          BY <1>3 DEF Begin, breaker
    <2>2. current + 1 \in Extractions  BY <1>0, <2>1, Limits DEF Extractions
    <2>3. /\ \A e \in Extractions : e # current + 1 => call'[e] = call[e]
          /\ \A b \in Batches : call'[current + 1][b] # "calling"
          BY <1>0, <2>1, <2>2 DEF CallOK
    <2>4. \A e \in Extractions : In(e, "calling")' \subseteq In(e, "calling")
      <3>1. ASSUME NEW e \in Extractions PROVE In(e, "calling")' \subseteq In(e, "calling")
        <4>1. CASE e = current + 1  BY <2>3, <4>1 DEF In
        <4>2. CASE e # current + 1  BY <2>3, <4>2 DEF In
        <4>3. QED  BY <4>1, <4>2
      <3>2. QED  BY <3>1
    <2>5. \A e \in Extractions, b \in Batches : e > current' => call'[e][b] = "none"
      <3>1. ASSUME NEW e \in Extractions, NEW b \in Batches, e > current + 1
            PROVE  call'[e][b] = "none"
        <4>1. e \in Nat  BY DEF Extractions
        <4>2. e # current + 1 /\ e > current  BY <1>0, <3>1, <4>1
        <4>3. QED  BY <1>1, <2>3, <4>2 DEF SlotsInv, Slots
      <3>2. QED  BY <2>1, <3>1
    <2>6. QED  BY <1>0, <1>1, <2>1, <2>4, <2>5, FewerCalls
  <1>4. CASE Collect \/ Report \/ Persist \/ ReportFails \/ Tick \/ UNCHANGED vars
        BY <1>2, <1>4 DEF Collect, Report, Persist, ReportFails, Tick, End, vars, run, breaker
  <1>5. CASE Crash
    <2>1. /\ current' = current /\ failures' = 0
          /\ \A e \in Extractions, b \in Batches : call'[e][b] = "none"
          BY <1>5 DEF Crash, End
    <2>2. \A e \in Extractions : In(e, "calling")' \subseteq In(e, "calling")  BY <2>1 DEF In
    <2>3. QED  BY <1>0, <1>1, <2>1, <2>2, FewerCalls
  <1>6. CASE \E e \in Extractions, b \in Batches : TaskStep(e, b)
        BY <1>1, <1>6, TaskSlots
  <1>7. QED  BY <1>1, <1>3, <1>4, <1>5, <1>6 DEF Next, Extract

LEMMA InitSlots == Init => SlotsInv
  <1>1. SUFFICES ASSUME Init PROVE SlotsInv  OBVIOUS
  <1>2. \A e \in Extractions : In(e, "calling") = {} /\ \A b \in Batches : call[e][b] = "none"
        BY <1>1 DEF Init, In
  <1>3. Cardinality({}) = 0  BY FS_EmptySet
  <1>4. MAX_PARALLEL_BATCHES \in Nat /\ FAILURE_THRESHOLD \in Nat \ {0}  BY LimitsAssumption
  <1>5. Slots
    <2>1. ASSUME NEW e \in Extractions PROVE Cardinality(In(e, "calling")) <= MAX_PARALLEL_BATCHES
      <3>1. Cardinality(In(e, "calling")) = 0  BY <1>2, <1>3
      <3>2. QED  BY <1>4, <3>1
    <2>2. QED  BY <1>2, <2>1 DEF Slots
  <1>6. OverrunBounded  BY <1>1, <1>4 DEF Init, OverrunBounded
  <1>7. QED  BY <1>5, <1>6 DEF SlotsInv

(* services/llm_service.py _check_circuit_breaker: past the threshold only *)
(* calls let in before can still fail, and all the extractions begun have  *)
(* no more of them than slots.                                             *)
THEOREM OverrunIsBounded == Spec => []OverrunBounded
  <1>1. SlotsInv => OverrunBounded  BY DEF SlotsInv
  <1>2. QED  BY <1>1, InitSlots, NextSlots, SpecIInv, PTL DEF Spec
=============================================================================
