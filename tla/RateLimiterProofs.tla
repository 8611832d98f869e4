------------------------- MODULE RateLimiterProofs --------------------------
(***************************************************************************)
(* Theorems about RateLimiter, for every limit, window, delay and number   *)
(* of requests: types, the bound on what is admitted, and that a rejection *)
(* has its reason.                                                         *)
(*                                                                         *)
(* Both count requests.  The first rests on what Redis still has of the    *)
(* admitted ones when another is decided (Remembered), the second on what  *)
(* it has at all (Entered).                                                *)
(***************************************************************************)
EXTENDS RateLimiter, FiniteSetTheorems, TLAPS

Decided == {"admitted", "rejected", "passed", "history"}

\* A request takes its time when it is received, and its pipeline is not later
\* than Delay.
Timed == \A r \in Requests :
  /\ r > received => at[r] = "none"
  /\ at[r] # "none" => now[r] <= clock
  /\ at[r] = "sent" => clock <= now[r] + Delay
\* Only decided requests are in the set.
Entered == entries \subseteq In(Decided)
\* An admitted request is in the set, which Redis keeps, until it is as old as
\* the window.
Remembered == \A x \in In({"admitted"}) :
  /\ now[x] + RATE_LIMIT_WINDOW <= expiry
  /\ x \in entries \/ now[x] + RATE_LIMIT_WINDOW <= clock
IInv == TypeOK /\ Timed /\ Entered /\ Remembered /\ AdmittedBounded /\ RejectedOnlyWhenBusy

\* The sets that the two invariants count.
Span(s) == {r \in In({"admitted"}) :
              s <= now[r] /\ now[r] < s + RATE_LIMIT_WINDOW - Delay}
Reasons(r) == {x \in In(Decided) \ {r} :
                 now[r] - RATE_LIMIT_WINDOW < now[x] /\ now[x] <= now[r] + Delay}

LEMMA Limits ==
  /\ RATE_LIMIT_REQUESTS \in Nat \ {0} /\ RATE_LIMIT_WINDOW \in Nat \ {0}
  /\ Delay \in Nat /\ MaxRequests \in Nat /\ MaxTime \in Nat
  /\ Requests \subseteq Nat
  BY LimitsAssumption DEF Requests

LEMMA Numbers ==
  ASSUME TypeOK
  PROVE  /\ clock \in Nat /\ received \in Nat /\ expiry \in Nat
         /\ \A r \in Requests : now[r] \in Nat
  BY Limits DEF TypeOK

\* There are finitely many requests, so a part of a set of them has no more.
LEMMA Counts ==
  ASSUME NEW S \in SUBSET Requests
  PROVE  /\ IsFiniteSet(S) /\ Cardinality(S) \in Nat
         /\ \A T \in SUBSET S : Cardinality(T) <= Cardinality(S)
<1>1. IsFiniteSet(Requests)  BY Limits, FS_Interval DEF Requests
<1>2. IsFiniteSet(S)  BY <1>1, FS_Subset
<1>3. QED  BY <1>2, FS_Subset, FS_CardinalityType

LEMMA CountedSets ==
  /\ AdmittedBounded <=> \A s \in 0..MaxTime : Cardinality(Span(s)) <= RATE_LIMIT_REQUESTS
  /\ RejectedOnlyWhenBusy <=>
       \A r \in In({"rejected"}) : Cardinality(Reasons(r)) >= RATE_LIMIT_REQUESTS
  /\ \A s : Span(s) \in SUBSET Requests
  /\ \A r : Reasons(r) \in SUBSET Requests
  BY DEF AdmittedBounded, RejectedOnlyWhenBusy, Span, Reasons, Decided, In

-----------------------------------------------------------------------------
\* What a step may do to what is counted: it admits no request, takes no decided
\* one back and leaves the times of the decided ones.
Keeps ==
  /\ In({"admitted"})' \subseteq In({"admitted"})
  /\ In({"rejected"})' \subseteq In({"rejected"})
  /\ In(Decided) \subseteq In(Decided)'
  /\ \A r \in In(Decided) : now'[r] = now[r]

\* What decides that no request is admitted keeps the bound.
LEMMA SpansKept ==
  ASSUME TypeOK, AdmittedBounded, In({"admitted"})' \subseteq In({"admitted"}),
         \A r \in In({"admitted"}) : now'[r] = now[r]
  PROVE  AdmittedBounded'
<1>1. ASSUME NEW s \in 0..MaxTime PROVE Cardinality(Span(s)') <= RATE_LIMIT_REQUESTS
  <2>1. Span(s)' \subseteq Span(s)  BY DEF Span
  <2>2. Span(s) \in SUBSET Requests  BY CountedSets
  <2>3. Cardinality(Span(s)') <= Cardinality(Span(s))  BY <2>1, <2>2, Counts
  <2>4. Cardinality(Span(s)) <= RATE_LIMIT_REQUESTS  BY <1>1, CountedSets
  <2>5. Cardinality(Span(s)) \in Nat /\ Cardinality(Span(s)') \in Nat
        BY <2>1, <2>2, Counts
  <2>6. QED  BY <2>3, <2>4, <2>5, Limits
<1>2. QED  BY <1>1 DEF AdmittedBounded, Span

\* A rejection keeps its reasons while no decided request is taken back.
LEMMA ReasonsKept ==
  ASSUME RejectedOnlyWhenBusy, In(Decided) \subseteq In(Decided)',
         \A x \in In(Decided) : now'[x] = now[x], NEW r \in In({"rejected"})
  PROVE  Cardinality(Reasons(r)') >= RATE_LIMIT_REQUESTS
<1>1. now'[r] = now[r]  BY DEF In, Decided
<1>2. Reasons(r) \subseteq Reasons(r)'  BY <1>1 DEF Reasons
<1>3. Reasons(r)' \in SUBSET Requests  BY DEF Reasons, In
<1>4. Cardinality(Reasons(r)) <= Cardinality(Reasons(r)')  BY <1>2, <1>3, Counts
<1>5. Cardinality(Reasons(r)) >= RATE_LIMIT_REQUESTS  BY CountedSets
<1>6. Cardinality(Reasons(r)) \in Nat /\ Cardinality(Reasons(r)') \in Nat
      BY <1>2, <1>3, Counts
<1>7. QED  BY <1>4, <1>5, <1>6, Limits

LEMMA CountsKept ==
  ASSUME TypeOK, AdmittedBounded, RejectedOnlyWhenBusy, Keeps
  PROVE  AdmittedBounded' /\ RejectedOnlyWhenBusy'
<1>1. AdmittedBounded'
  <2>1. \A r \in In({"admitted"}) : now'[r] = now[r]  BY DEF Keeps, In, Decided
  <2>2. QED  BY <2>1, SpansKept DEF Keeps
<1>2. \A r \in In({"rejected"})' : Cardinality(Reasons(r)') >= RATE_LIMIT_REQUESTS
      BY ReasonsKept DEF Keeps
<1>3. QED  BY <1>1, <1>2 DEF RejectedOnlyWhenBusy, Reasons, Decided

-----------------------------------------------------------------------------
(* The pipeline of r. *)
LEMMA PipelineTypes ==
  ASSUME TypeOK, NEW r \in Requests
  PROVE  /\ Kept(r) \in SUBSET entries /\ Added(r) \in SUBSET Requests
         /\ IsFiniteSet(Kept(r)) /\ Cardinality(Kept(r)) \in Nat
         /\ Cardinality(Added(r)) \in Nat
<1>1. entries \in SUBSET Requests  BY DEF TypeOK
<1>2. Live \in SUBSET entries  BY DEF Live
<1>3. Kept(r) \in SUBSET Live  BY DEF Kept
<1>4. Added(r) \in SUBSET Requests  BY <1>1, <1>2, <1>3 DEF Added
<1>5. QED  BY <1>1, <1>2, <1>3, <1>4, Counts

\* What was admitted before r and is in a span with it is still there when r is
\* counted: it is younger than the window even after the delay of r.
LEMMA StillThere ==
  ASSUME IInv, NEW r \in In({"sent"}), NEW x \in In({"admitted"}), NEW s \in 0..MaxTime,
         s <= now[x], now[x] < s + RATE_LIMIT_WINDOW - Delay,
         s <= now[r], now[r] < s + RATE_LIMIT_WINDOW - Delay
  PROVE  x \in Kept(r)
<1>1. r \in Requests /\ x \in Requests /\ at[r] = "sent" /\ at[x] = "admitted"  BY DEF In
<1>2. /\ clock \in Nat /\ expiry \in Nat /\ now[r] \in Nat /\ now[x] \in Nat /\ s \in Nat
      /\ RATE_LIMIT_WINDOW \in Nat /\ Delay \in Nat
      BY <1>1, Numbers, Limits DEF IInv
<1>3. clock <= now[r] + Delay  BY <1>1 DEF IInv, Timed
<1>4. now[x] + RATE_LIMIT_WINDOW <= expiry
      /\ (x \in entries \/ now[x] + RATE_LIMIT_WINDOW <= clock)
      BY DEF IInv, Remembered
<1>5. clock < now[x] + RATE_LIMIT_WINDOW  BY <1>2, <1>3
<1>6. x \in entries /\ clock < expiry /\ now[x] > now[r] - RATE_LIMIT_WINDOW
      BY <1>2, <1>4, <1>5
<1>7. QED  BY <1>6 DEF Kept, Live

\* The entries that are counted beside r are reasons to reject it.
LEMMA KeptAreReasons ==
  ASSUME IInv, NEW r \in In({"sent"})
  PROVE  r \notin Kept(r) /\ Kept(r) \subseteq Reasons(r)
<1>1. r \in Requests /\ at[r] = "sent"  BY DEF In
<1>2. r \notin In(Decided)  BY <1>1 DEF In, Decided
<1>3. ASSUME NEW x \in Kept(r) PROVE x \in Reasons(r)
  <2>1. x \in In(Decided) /\ now[x] > now[r] - RATE_LIMIT_WINDOW
        BY <1>3 DEF Kept, Live, IInv, Entered
  <2>2. x \in Requests /\ at[x] # "none"  BY <2>1 DEF In, Decided
  <2>3. now[x] <= clock /\ clock <= now[r] + Delay
        BY <1>1, <2>2 DEF IInv, Timed
  <2>4. /\ clock \in Nat /\ now[r] \in Nat /\ now[x] \in Nat
        /\ RATE_LIMIT_WINDOW \in Nat /\ Delay \in Nat
        BY <1>1, <2>2, Numbers, Limits DEF IInv
  <2>5. QED  BY <1>2, <2>1, <2>3, <2>4 DEF Reasons
<1>4. QED  BY <1>2, <1>3 DEF Reasons

\* What the pipeline leaves in Redis, for whatever is answered.
LEMMA ExecuteKeeps ==
  ASSUME IInv, NEW r \in In({"sent"}), NEW st \in Decided, Execute(r),
         at' = [at EXCEPT ![r] = st], UNCHANGED <<pool, clock, received, now>>
  PROVE  TypeOK' /\ Timed' /\ Entered' /\ Remembered'
<1>1. r \in Requests /\ at[r] = "sent"  BY DEF In
<1>2. /\ clock \in Nat /\ expiry \in Nat /\ RATE_LIMIT_WINDOW \in Nat /\ Delay \in Nat
      /\ expiry <= clock + RATE_LIMIT_WINDOW /\ \A x \in Requests : now[x] \in Nat
      BY Numbers, Limits DEF IInv, TypeOK
<1>3. entries' = Added(r) /\ expiry' = clock + RATE_LIMIT_WINDOW  BY DEF Execute
<1>4. Kept(r) \in SUBSET entries /\ Added(r) \in SUBSET Requests
      BY <1>1, PipelineTypes DEF IInv
<1>5. at \in [Requests -> {"none", "uncounted"} \cup {"sent"} \cup Decided]
      BY DEF IInv, TypeOK, Decided
<1>6. /\ at' \in [Requests -> {"none", "uncounted"} \cup {"sent"} \cup Decided]
      /\ at'[r] = st /\ \A x \in Requests \ {r} : at'[x] = at[x]
      BY <1>1, <1>5
<1>7. TypeOK'
  <2>1. at' \in [Requests -> {"none", "uncounted", "sent", "admitted", "rejected", "passed",
                              "history"}]
        BY <1>6 DEF Decided
  <2>2. expiry' \in 0..(clock' + RATE_LIMIT_WINDOW)  BY <1>2, <1>3
  <2>3. QED  BY <1>3, <1>4, <2>1, <2>2 DEF IInv, TypeOK
<1>8. Timed'
  <2>1. ASSUME NEW x \in Requests
        PROVE  /\ x > received' => at'[x] = "none"
               /\ at'[x] # "none" => now'[x] <= clock'
               /\ at'[x] = "sent" => clock' <= now'[x] + Delay
        BY <1>1, <1>6, <2>1 DEF IInv, Timed, Decided
  <2>2. QED  BY <2>1 DEF Timed
<1>9. Entered'
  <2>1. \A x \in Added(r) : x \in Requests /\ at'[x] \in Decided
        BY <1>4, <1>6 DEF Added, IInv, Entered, In
  <2>2. QED  BY <1>3, <2>1 DEF Entered, In
<1>10. Remembered'
  <2>1. ASSUME NEW x \in Requests, at'[x] = "admitted"
        PROVE  /\ now[x] + RATE_LIMIT_WINDOW <= expiry'
               /\ x \in entries' \/ now[x] + RATE_LIMIT_WINDOW <= clock
    <3>1. now[x] <= clock
          BY <1>1, <1>6, <2>1 DEF IInv, Timed
    <3>2. CASE x = r  BY <1>2, <1>3, <3>1, <3>2 DEF Added
    <3>3. CASE x # r
      <4>1. x \in In({"admitted"})  BY <1>6, <2>1, <3>3 DEF In
      <4>2. /\ now[x] + RATE_LIMIT_WINDOW <= expiry
            /\ x \in entries \/ now[x] + RATE_LIMIT_WINDOW <= clock
            BY <4>1 DEF IInv, Remembered
      <4>3. CASE x \in Kept(r)  BY <1>2, <1>3, <3>1, <4>3 DEF Added
      <4>4. CASE x \notin Kept(r)
        <5>1. x \in entries => clock >= expiry \/ now[x] <= now[r] - RATE_LIMIT_WINDOW
              BY <1>1, <1>2, <4>4 DEF Kept, Live
        <5>2. now[r] <= clock  BY <1>1 DEF IInv, Timed
        <5>3. QED  BY <1>1, <1>2, <1>3, <3>1, <4>2, <5>1, <5>2
      <4>5. QED  BY <4>3, <4>4
    <3>4. QED  BY <3>2, <3>3
  <2>2. QED  BY <2>1 DEF Remembered, In
<1>11. QED  BY <1>7, <1>8, <1>9, <1>10

\* A request is admitted when, with it, no more than the limit are counted: in
\* every span that it is in, those that were admitted before are among them.
LEMMA AdmitKeeps ==
  ASSUME IInv, NEW r \in In({"sent"}), ~(Cardinality(Added(r)) > RATE_LIMIT_REQUESTS),
         at' = [at EXCEPT ![r] = "admitted"], UNCHANGED now
  PROVE  AdmittedBounded'
<1>1. r \in Requests /\ at[r] = "sent"  BY DEF In
<1>2. at'[r] = "admitted" /\ \A x \in Requests \ {r} : at'[x] = at[x]
      BY <1>1 DEF IInv, TypeOK
<1>3. ASSUME NEW s \in 0..MaxTime PROVE Cardinality(Span(s)') <= RATE_LIMIT_REQUESTS
  <2>1. Span(s)' \subseteq Span(s) \cup {r}  BY <1>2 DEF Span, In
  <2>2. CASE r \in Span(s)'
    <3>1. s <= now[r] /\ now[r] < s + RATE_LIMIT_WINDOW - Delay  BY <2>2 DEF Span
    <3>2. ASSUME NEW x \in Span(s) PROVE x \in Kept(r)
      <4>1. x \in In({"admitted"}) /\ s <= now[x] /\ now[x] < s + RATE_LIMIT_WINDOW - Delay
            BY <3>2 DEF Span
      <4>2. QED  BY <3>1, <4>1, StillThere
    <3>3. Span(s)' \subseteq Added(r)  BY <2>1, <3>2 DEF Added
    <3>4. Added(r) \in SUBSET Requests /\ Cardinality(Added(r)) \in Nat
          BY <1>1, PipelineTypes DEF IInv
    <3>5. Cardinality(Span(s)') <= Cardinality(Added(r)) /\ Cardinality(Span(s)') \in Nat
          BY <3>3, <3>4, Counts
    <3>6. QED  BY <3>4, <3>5, Limits
  <2>3. CASE r \notin Span(s)'
    <3>1. Span(s)' \subseteq Span(s) /\ Span(s) \in SUBSET Requests
          BY <2>1, <2>3, CountedSets
    <3>2. Cardinality(Span(s)') <= Cardinality(Span(s))
          /\ Cardinality(Span(s)) \in Nat /\ Cardinality(Span(s)') \in Nat
          BY <3>1, Counts
    <3>3. Cardinality(Span(s)) <= RATE_LIMIT_REQUESTS  BY <1>3, CountedSets DEF IInv
    <3>4. QED  BY <3>2, <3>3, Limits
  <2>4. QED  BY <2>2, <2>3
<1>4. QED  BY <1>3 DEF AdmittedBounded, Span

\* A rejected request was counted with as many others as the limit.
LEMMA RejectKeeps ==
  ASSUME IInv, NEW r \in In({"sent"}), Cardinality(Added(r)) > RATE_LIMIT_REQUESTS,
         at' = [at EXCEPT ![r] = "rejected"], UNCHANGED now
  PROVE  Cardinality(Reasons(r)') >= RATE_LIMIT_REQUESTS
<1>1. r \in Requests /\ at[r] = "sent"  BY DEF In
<1>2. \A x \in Requests \ {r} : at'[x] = at[x]  BY <1>1 DEF IInv, TypeOK
<1>3. r \notin Kept(r) /\ Kept(r) \subseteq Reasons(r)  BY KeptAreReasons
<1>4. Kept(r) \subseteq Reasons(r)'  BY <1>2, <1>3 DEF Reasons, In
<1>5. IsFiniteSet(Kept(r)) /\ Cardinality(Kept(r)) \in Nat  BY <1>1, PipelineTypes DEF IInv
<1>6. Cardinality(Added(r)) = Cardinality(Kept(r)) + 1
      BY <1>3, <1>5, FS_AddElement DEF Added
<1>7. Reasons(r)' \in SUBSET Requests  BY DEF Reasons, In
<1>8. Cardinality(Kept(r)) <= Cardinality(Reasons(r)') /\ Cardinality(Reasons(r)') \in Nat
      BY <1>4, <1>7, Counts
<1>9. QED  BY <1>5, <1>6, <1>8, Limits

\* Neither decision takes one back: a request decided is one that was waiting.
LEMMA OneDecided ==
  ASSUME TypeOK, NEW r \in In({"sent"}), NEW st \in Decided, at' = [at EXCEPT ![r] = st]
  PROVE  /\ In(Decided) \subseteq In(Decided)'
         /\ \A x \in Requests \ {r} : at'[x] = at[x]
         /\ at'[r] = st /\ r \in Requests /\ r \notin In(Decided)
<1>1. r \in Requests /\ at[r] = "sent"  BY DEF In
<1>2. at'[r] = st /\ \A x \in Requests \ {r} : at'[x] = at[x]  BY <1>1 DEF TypeOK
<1>3. QED  BY <1>1, <1>2 DEF In, Decided

LEMMA DecideKeeps ==
  ASSUME IInv, NEW r \in Requests, Decide(r)
  PROVE  IInv'
<1>1. r \in In({"sent"}) /\ Execute(r) /\ UNCHANGED <<pool, clock, received, now>>
      BY DEF Decide, In
<1>2. CASE Cardinality(Added(r)) > RATE_LIMIT_REQUESTS
  <2>1. at' = [at EXCEPT ![r] = "rejected"]  BY <1>2 DEF Decide
  <2>2. "rejected" \in Decided  BY DEF Decided
  <2>3. TypeOK' /\ Timed' /\ Entered' /\ Remembered'
        BY <1>1, <2>1, <2>2, ExecuteKeeps
  <2>4. /\ In(Decided) \subseteq In(Decided)' /\ at'[r] = "rejected"
        /\ \A x \in Requests \ {r} : at'[x] = at[x]
        BY <1>1, <2>1, <2>2, OneDecided DEF IInv
  <2>5. In({"admitted"})' \subseteq In({"admitted"})  BY <2>4 DEF In
  <2>6. AdmittedBounded'  BY <1>1, <2>5, SpansKept DEF IInv
  <2>7. Cardinality(Reasons(r)') >= RATE_LIMIT_REQUESTS
        BY <1>1, <1>2, <2>1, RejectKeeps
  <2>8. ASSUME NEW x \in In({"rejected"})'
        PROVE  Cardinality(Reasons(x)') >= RATE_LIMIT_REQUESTS
    <3>1. x = r \/ x \in In({"rejected"})  BY <2>4, <2>8 DEF In
    <3>2. CASE x \in In({"rejected"})  BY <1>1, <2>4, <3>2, ReasonsKept DEF IInv
    <3>3. QED  BY <2>7, <3>1, <3>2
  <2>9. RejectedOnlyWhenBusy'  BY <2>8 DEF RejectedOnlyWhenBusy, Reasons, Decided
  <2>10. QED  BY <2>3, <2>6, <2>9 DEF IInv
<1>3. CASE ~(Cardinality(Added(r)) > RATE_LIMIT_REQUESTS)
  <2>1. at' = [at EXCEPT ![r] = "admitted"]  BY <1>3 DEF Decide
  <2>2. "admitted" \in Decided  BY DEF Decided
  <2>3. TypeOK' /\ Timed' /\ Entered' /\ Remembered'
        BY <1>1, <2>1, <2>2, ExecuteKeeps
  <2>4. /\ In(Decided) \subseteq In(Decided)' /\ at'[r] = "admitted"
        /\ \A x \in Requests \ {r} : at'[x] = at[x]
        BY <1>1, <2>1, <2>2, OneDecided DEF IInv
  <2>5. AdmittedBounded'  BY <1>1, <1>3, <2>1, AdmitKeeps
  <2>6. ASSUME NEW x \in In({"rejected"})'
        PROVE  Cardinality(Reasons(x)') >= RATE_LIMIT_REQUESTS
    <3>1. x \in In({"rejected"})  BY <2>4, <2>6 DEF In
    <3>2. QED  BY <1>1, <2>4, <3>1, ReasonsKept DEF IInv
  <2>7. RejectedOnlyWhenBusy'  BY <2>6 DEF RejectedOnlyWhenBusy, Reasons, Decided
  <2>8. QED  BY <2>3, <2>5, <2>7 DEF IInv
<1>4. QED  BY <1>2, <1>3

LEMMA UnansweredKeeps ==
  ASSUME IInv, NEW r \in Requests, Unanswered(r)
  PROVE  IInv'
<1>1. /\ r \in In({"sent"}) /\ UNCHANGED <<pool, clock, received, now>>
      /\ at' = [at EXCEPT ![r] = "passed"] /\ "passed" \in Decided
      BY DEF Unanswered, In, Decided
<1>2. /\ In(Decided) \subseteq In(Decided)' /\ at'[r] = "passed"
      /\ \A x \in Requests \ {r} : at'[x] = at[x]
      BY <1>1, OneDecided DEF IInv
<1>3. AdmittedBounded' /\ RejectedOnlyWhenBusy'
  <2>1. /\ In({"admitted"})' \subseteq In({"admitted"})
        /\ In({"rejected"})' \subseteq In({"rejected"})
        BY <1>2 DEF In
  <2>2. Keeps  BY <1>1, <1>2, <2>1 DEF Keeps
  <2>3. QED  BY <2>2, CountsKept DEF IInv
<1>4. CASE Execute(r)
  <2>1. TypeOK' /\ Timed' /\ Entered' /\ Remembered'  BY <1>1, <1>4, ExecuteKeeps
  <2>2. QED  BY <1>3, <2>1 DEF IInv
<1>5. CASE UNCHANGED <<entries, expiry>>
  <2>1. TypeOK'  BY <1>1, <1>5 DEF IInv, TypeOK
  <2>2. Timed'  BY <1>1, <1>2, <1>5 DEF IInv, Timed, In
  <2>3. Entered'  BY <1>2, <1>5 DEF IInv, Entered
  <2>4. Remembered'
    <3>1. In({"admitted"})' \subseteq In({"admitted"})  BY <1>2 DEF In
    <3>2. QED  BY <1>1, <1>5, <3>1 DEF IInv, Remembered
  <2>5. QED  BY <1>3, <2>1, <2>2, <2>3, <2>4 DEF IInv
<1>6. QED  BY <1>4, <1>5 DEF Unanswered

-----------------------------------------------------------------------------
(* The other steps. *)
LEMMA ReceiveKeeps ==
  ASSUME IInv, Receive
  PROVE  IInv'
<1> DEFINE n == received + 1
<1>1. n \in Requests /\ received \in Nat /\ received' = n /\ at[n] = "none"
  <2>1. received \in Nat  BY Numbers DEF IInv
  <2>2. n \in Requests  BY <2>1, Limits DEF Receive, Requests
  <2>3. QED  BY <2>1, <2>2 DEF IInv, Timed, Receive
<1>2. PICK st \in {"uncounted", "sent"} : at' = [at EXCEPT ![n] = st]  BY DEF Receive
<1>3. /\ now' = [now EXCEPT ![n] = clock]
      /\ UNCHANGED <<pool, clock, entries, expiry>>
      BY DEF Receive
<1>4. TypeOK'
  <2>1. at' \in [Requests -> {"none", "uncounted", "sent", "admitted", "rejected", "passed",
                              "history"}]
        BY <1>1, <1>2 DEF IInv, TypeOK
  <2>2. now' \in [Requests -> 0..MaxTime]  BY <1>1, <1>3 DEF IInv, TypeOK
  <2>3. received' \in 0..MaxRequests  BY <1>1, Limits DEF Requests
  <2>4. QED  BY <1>3, <2>1, <2>2, <2>3 DEF IInv, TypeOK
<1>5. /\ at'[n] = st /\ now'[n] = clock
      /\ \A x \in Requests \ {n} : at'[x] = at[x] /\ now'[x] = now[x]
      BY <1>1, <1>2, <1>3 DEF IInv, TypeOK
<1>6. In(Decided)' = In(Decided) /\ n \notin In(Decided)  BY <1>1, <1>5 DEF In, Decided
<1>7. In({"admitted"})' = In({"admitted"}) /\ In({"rejected"})' = In({"rejected"})
      BY <1>1, <1>5 DEF In
<1>8. \A x \in In(Decided) : now'[x] = now[x]  BY <1>5, <1>6 DEF In
<1>9. Timed'
  <2>1. ASSUME NEW x \in Requests
        PROVE  /\ x > received' => at'[x] = "none"
               /\ at'[x] # "none" => now'[x] <= clock'
               /\ at'[x] = "sent" => clock' <= now'[x] + Delay
    <3>1. x \in Nat /\ clock \in Nat /\ Delay \in Nat  BY Limits, Numbers DEF IInv
    <3>2. CASE x = n  BY <1>1, <1>3, <1>5, <3>1, <3>2
    <3>3. CASE x # n  BY <1>1, <1>3, <1>5, <3>1, <3>3 DEF IInv, Timed
    <3>4. QED  BY <3>2, <3>3
  <2>2. QED  BY <2>1 DEF Timed
<1>10. Entered'  BY <1>3, <1>6 DEF IInv, Entered
<1>11. Remembered'
  <2>1. \A x \in In({"admitted"}) : now'[x] = now[x]  BY <1>8 DEF In, Decided
  <2>2. QED  BY <1>3, <1>7, <2>1 DEF IInv, Remembered
<1>12. Keeps  BY <1>6, <1>7, <1>8 DEF Keeps
<1>13. AdmittedBounded' /\ RejectedOnlyWhenBusy'  BY <1>12, CountsKept DEF IInv
<1>14. QED  BY <1>4, <1>9, <1>10, <1>11, <1>13 DEF IInv

\* What Redis forgets is no longer asked about: no request is admitted or
\* rejected after it but history.
LEMMA ForgetKeeps ==
  ASSUME IInv, Forget
  PROVE  IInv'
<1>1. UNCHANGED <<pool, clock, received, now, expiry>> /\ entries' \subseteq entries
      BY DEF Forget
<1>2. \A x \in Requests :
        at'[x] = IF at[x] \in {"admitted", "rejected"} THEN "history" ELSE at[x]
      BY DEF Forget
<1>3. TypeOK'
  <2>1. at' \in [Requests -> {"none", "uncounted", "sent", "admitted", "rejected", "passed",
                              "history"}]
        BY DEF IInv, TypeOK, Forget
  <2>2. entries' \subseteq Requests  BY <1>1 DEF IInv, TypeOK
  <2>3. QED  BY <1>1, <2>1, <2>2 DEF IInv, TypeOK
<1>4. In(Decided)' = In(Decided)  BY <1>2 DEF In, Decided
<1>5. In({"admitted"})' = {} /\ In({"rejected"})' = {}  BY <1>2 DEF In
<1>6. Timed'  BY <1>1, <1>2 DEF IInv, Timed
<1>7. Entered'  BY <1>1, <1>4 DEF IInv, Entered
<1>8. Remembered'  BY <1>5 DEF Remembered
<1>9. Keeps  BY <1>1, <1>4, <1>5 DEF Keeps, In
<1>10. AdmittedBounded' /\ RejectedOnlyWhenBusy'  BY <1>9, CountsKept DEF IInv
<1>11. QED  BY <1>3, <1>6, <1>7, <1>8, <1>10 DEF IInv

LEMMA TickKeeps ==
  ASSUME IInv, Tick
  PROVE  IInv'
<1>1. UNCHANGED <<pool, received, now, at, entries, expiry>> /\ clock' = clock + 1
      /\ clock < MaxTime
      BY DEF Tick
<1>2. /\ clock \in Nat /\ expiry \in Nat /\ RATE_LIMIT_WINDOW \in Nat /\ Delay \in Nat
      /\ MaxTime \in Nat /\ \A x \in Requests : now[x] \in Nat
      BY Numbers, Limits DEF IInv
<1>3. clock' \in 0..MaxTime /\ expiry \in 0..(clock' + RATE_LIMIT_WINDOW)
      BY <1>1, <1>2 DEF IInv, TypeOK
<1>4. TypeOK'  BY <1>1, <1>3 DEF IInv, TypeOK
<1>5. Timed'
  <2>1. ASSUME NEW x \in Requests
        PROVE  /\ x > received' => at'[x] = "none"
               /\ at'[x] # "none" => now'[x] <= clock'
               /\ at'[x] = "sent" => clock' <= now'[x] + Delay
    <3>1. at[x] = "sent" => clock < now[x] + Delay  BY DEF Tick, In
    <3>2. QED  BY <1>1, <1>2, <3>1 DEF IInv, Timed
  <2>2. QED  BY <2>1 DEF Timed
<1>6. Entered'  BY <1>1 DEF IInv, Entered, In
<1>7. Remembered'
  <2>1. \A x \in In({"admitted"}) : x \in Requests  BY DEF In
  <2>2. In({"admitted"})' = In({"admitted"})  BY <1>1 DEF In
  <2>3. QED  BY <1>1, <1>2, <2>1, <2>2 DEF IInv, Remembered
<1>8. Keeps  BY <1>1 DEF Keeps, In
<1>9. AdmittedBounded' /\ RejectedOnlyWhenBusy'  BY <1>8, CountsKept DEF IInv
<1>10. QED  BY <1>4, <1>5, <1>6, <1>7, <1>9 DEF IInv

-----------------------------------------------------------------------------
LEMMA InitIInv == Init => IInv
<1> SUFFICES ASSUME Init PROVE IInv  OBVIOUS
<1>1. TypeOK  BY Limits DEF Init, TypeOK
<1>2. \A r \in Requests : at[r] = "none"  BY DEF Init
<1>3. \A st \in SUBSET Decided : In(st) = {}  BY <1>2 DEF In, Decided
<1>4. In({"admitted"}) = {} /\ In({"rejected"}) = {} /\ In(Decided) = {}
      BY <1>3 DEF Decided
<1>5. Timed  BY <1>2 DEF Timed
<1>6. Entered /\ Remembered /\ RejectedOnlyWhenBusy
      BY <1>4 DEF Init, Entered, Remembered, RejectedOnlyWhenBusy
<1>7. AdmittedBounded
  <2>1. \A s \in 0..MaxTime : Span(s) = {}  BY <1>4 DEF Span
  <2>2. Cardinality({}) = 0  BY FS_EmptySet
  <2>3. QED  BY <2>1, <2>2, CountedSets, Limits
<1>8. QED  BY <1>1, <1>5, <1>6, <1>7 DEF IInv

LEMMA NextIInv == IInv /\ [Next]_vars => IInv'
<1> SUFFICES ASSUME IInv, [Next]_vars PROVE IInv'  OBVIOUS
<1>1. CASE Receive  BY <1>1, ReceiveKeeps
<1>2. CASE Forget  BY <1>2, ForgetKeeps
<1>3. CASE Tick  BY <1>3, TickKeeps
<1>4. ASSUME NEW r \in Requests, Decide(r) PROVE IInv'  BY <1>4, DecideKeeps
<1>5. ASSUME NEW r \in Requests, Unanswered(r) PROVE IInv'  BY <1>5, UnansweredKeeps
<1>6. CASE UNCHANGED vars
  <2>1. Keeps  BY <1>6 DEF Keeps, vars, In
  <2>2. AdmittedBounded' /\ RejectedOnlyWhenBusy'  BY <2>1, CountsKept DEF IInv
  <2>3. TypeOK' /\ Timed' /\ Entered' /\ Remembered'
        BY <1>6 DEF IInv, vars, TypeOK, Timed, Entered, Remembered, In
  <2>4. QED  BY <2>2, <2>3 DEF IInv
<1>7. QED  BY <1>1, <1>2, <1>3, <1>4, <1>5, <1>6 DEF Next

LEMMA SpecIInv == Spec => []IInv
  BY InitIInv, NextIInv, PTL DEF Spec

\* The state of the limiter keeps its types; the key never outlives one window
\* from now, the reason that Retry-After is the window (main.py:75).
THEOREM TypeCorrect == Spec => []TypeOK
  BY SpecIInv, PTL DEF IInv

\* For every limit, window and delay, and any order in which Redis takes
\* concurrent pipelines: the admitted requests of a window, less the delay,
\* are no more than the limit while Redis forgets nothing (main.py:60).
THEOREM AdmittedIsBounded == Spec => []AdmittedBounded
  BY SpecIInv, PTL DEF IInv

\* Nobody is rejected whose window had room: there are as many others as the
\* limit that were counted around it (main.py:65).
THEOREM RejectionsHaveReasons == Spec => []RejectedOnlyWhenBusy
  BY SpecIInv, PTL DEF IInv
=============================================================================
