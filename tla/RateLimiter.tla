----------------------------- MODULE RateLimiter -----------------------------
(***************************************************************************)
(* RateLimitMiddleware: the requests of one client address and the sorted  *)
(* set that Redis keeps of them, by the time at which each was received.   *)
(* The time is taken before the pipeline is sent; requests of a client run *)
(* side by side, so pipelines are executed in any order of their times.    *)
(* Addresses have keys of their own.  The clock of the server is one and   *)
(* does not go back.                                                       *)
(***************************************************************************)
EXTENDS Integers, FiniteSets

CONSTANTS
  RATE_LIMIT_REQUESTS, RATE_LIMIT_WINDOW,
  Delay,        \* from the time taken to the pipeline executed, at most
  MaxRequests, MaxTime  \* bounds of a behaviour

ASSUME LimitsAssumption ==
  /\ {RATE_LIMIT_REQUESTS, RATE_LIMIT_WINDOW} \subseteq Nat \ {0}
  /\ {Delay, MaxRequests, MaxTime} \subseteq Nat

Requests == 1..MaxRequests

VARIABLES
  pool,     \* whether Redis answered when the application started
  clock,
  received, \* so many requests have been received
  now,      \* the time each of them has taken
  at,       \* what has become of it
  entries,  \* the requests in the sorted set; the score of each is its time
  expiry    \* when Redis drops the key
vars == <<pool, clock, received, now, at, entries, expiry>>

Init ==
  /\ pool \in BOOLEAN /\ clock = 0 /\ received = 0
  /\ now = [r \in Requests |-> 0] /\ at = [r \in Requests |-> "none"]
  /\ entries = {} /\ expiry = 0

In(st) == {r \in Requests : at[r] \in st}

\* Health checks, thumbnails and event streams are not counted, and nothing is
\* when there was no Redis at the start.
Receive ==
  /\ received < MaxRequests /\ received' = received + 1
  /\ now' = [now EXCEPT ![received + 1] = clock]
  /\ \E st \in {"uncounted"} \cup (IF pool THEN {"sent"} ELSE {}) :
       at' = [at EXCEPT ![received + 1] = st]
  /\ UNCHANGED <<pool, clock, entries, expiry>>

(***************************************************************************)
(* The pipeline is one transaction in Redis: the entries as old as the     *)
(* window are removed, this request is added, all are counted and the key  *)
(* gets another window to live.                                            *)
(***************************************************************************)
Live == IF clock < expiry THEN entries ELSE {}
\* Mutation: an entry as old as the window is kept.
KeptExclusive(r) == {x \in Live : now[x] >= now[r] - RATE_LIMIT_WINDOW}
Kept(r)  == {x \in Live : now[x] > now[r] - RATE_LIMIT_WINDOW}
\* Mutation: the time alone is the member, and stands for all requests of it.
AddedByTime(r) == {x \in Kept(r) : now[x] # now[r]} \cup {r}
Added(r) == Kept(r) \cup {r}
\* Mutation: the key outlives the window.
ExecuteTwice(r) == entries' = Added(r) /\ expiry' = clock + 2 * RATE_LIMIT_WINDOW
Execute(r) == entries' = Added(r) /\ expiry' = clock + RATE_LIMIT_WINDOW

\* A rejected request stays among the entries.
Decide(r) ==
  /\ at[r] = "sent" /\ Execute(r)
  /\ at' = [at EXCEPT ![r] = IF Cardinality(Added(r)) > RATE_LIMIT_REQUESTS THEN "rejected"
                             ELSE "admitted"]
  /\ UNCHANGED <<pool, clock, received, now>>
\* Redis cannot be reached, or its answer is lost: the request passes.
Unanswered(r) ==
  /\ at[r] = "sent" /\ at' = [at EXCEPT ![r] = "passed"]
  /\ Execute(r) \/ UNCHANGED <<entries, expiry>>
  /\ UNCHANGED <<pool, clock, received, now>>
\* Redis evicts the key, or starts again without what it had not yet written to
\* its file: what it has decided is history.
Forget ==
  /\ entries # {} /\ \E E \in SUBSET entries \ {entries} : entries' = E
  /\ at' = [r \in Requests |-> IF at[r] \in {"admitted", "rejected"} THEN "history" ELSE at[r]]
  /\ UNCHANGED <<pool, clock, received, now, expiry>>

Tick ==
  /\ clock < MaxTime /\ \A r \in In({"sent"}) : clock < now[r] + Delay
  /\ clock' = clock + 1
  /\ UNCHANGED <<pool, received, now, at, entries, expiry>>

Next ==
  \/ Receive \/ Forget \/ Tick
  \/ \E r \in Requests : Decide(r) \/ Unanswered(r)
Spec == Init /\ [][Next]_vars

-----------------------------------------------------------------------------
TypeOK ==
  /\ pool \in BOOLEAN /\ clock \in 0..MaxTime /\ received \in 0..MaxRequests
  /\ now \in [Requests -> 0..MaxTime]
  /\ at \in [Requests -> {"none", "uncounted", "sent", "admitted", "rejected", "passed", "history"}]
  /\ entries \subseteq Requests /\ expiry \in 0..(clock + RATE_LIMIT_WINDOW)

\* No span of the window, less the time that pipelines may be late, has more
\* admitted requests than the limit, in whatever order concurrent requests of
\* the same moment reach Redis and a late one prunes or is pruned (main.py:60).
AdmittedBounded == \A s \in 0..MaxTime :
  Cardinality({r \in In({"admitted"}) : s <= now[r] /\ now[r] < s + RATE_LIMIT_WINDOW - Delay})
    <= RATE_LIMIT_REQUESTS

\* A request is rejected only when the limit was used up within the window
\* before it: a client that obeys Retry-After, to the second, is admitted, even
\* though its rejected requests were counted too (main.py:65).
RejectedOnlyWhenBusy == \A r \in In({"rejected"}) :
  Cardinality({x \in In({"admitted", "rejected", "passed", "history"}) \ {r} :
                 now[r] - RATE_LIMIT_WINDOW < now[x] /\ now[x] <= now[r] + Delay})
    >= RATE_LIMIT_REQUESTS
=============================================================================
