----------------------------- MODULE EventProofs ----------------------------
(***************************************************************************)
(* Theorems about the way of an event from the task to the browser.        *)
(*                                                                         *)
(* SseHub, for every number of reports, connections, losses and every size *)
(* of the queues: types, that nothing falls between snapshot and stream,   *)
(* that events are sent in order, and that the hub implements SseStream.   *)
(* BookView, at the end of that stream, for any number of reconnections    *)
(* and failed requests: types, and that a job shown as ended stays so; the *)
(* invariant Settled says why: once the page shows the end of the job, the *)
(* end is committed, and no older answer is on its way to the cache.       *)
(***************************************************************************)
EXTENDS SseHub, BookView, SequenceTheorems, TLAPS

-----------------------------------------------------------------------------
(* SseHub. *)

TaskOK == db \in Versions /\ todo \in Seq(Events)
RedisOK ==
  /\ published \subseteq Events /\ wire \in Seq(Events) /\ lost \subseteq Events
  /\ losses \in 0..MaxLosses
QueueOK ==
  /\ queue \in [Conns -> Seq(Events)]
  /\ \A c \in Conns : Len(queue[c]) <= QUEUE_MAX_SIZE
Snaps == [book : Versions \cup {-1}, jobs : Versions \cup {-1}]
ConnOK ==
  /\ conn \in [Conns -> ConnStates] /\ snap \in [Conns -> Snaps]
  /\ sent \in [Conns -> Seq(Events)] /\ missed \in [Conns -> SUBSET Events]

LEMMA HubTypeParts == HubTypeOK <=> TaskOK /\ RedisOK /\ QueueOK /\ ConnOK
  BY DEF HubTypeOK, TaskOK, RedisOK, QueueOK, ConnOK, Snaps

LEMMA Sizes ==
  /\ Reports \in Nat /\ End \in Nat /\ End >= 3 /\ Versions \subseteq Nat /\ 0 \in Versions
  /\ QUEUE_MAX_SIZE \in Nat /\ QUEUE_MAX_SIZE > 0 /\ MaxLosses \in Nat
  BY ReportsAssumption, SizesAssumption DEF End, Versions

LEMMA EventsAreEvents ==
  \A v \in Versions, k \in Kinds : Event(v, k) \in Events
  BY DEF Event, Events

LEMMA NextVersion == ASSUME db \in Versions, db < End - 1 PROVE db + 1 \in Versions
  BY Sizes DEF Versions
LEMMA EndIsVersion == End \in Versions
  BY Sizes DEF Versions

-----------------------------------------------------------------------------
(* The task. *)
LEMMA CommitTypes == ASSUME TaskOK, TaskCommits PROVE TaskOK'
<1>1. db + 1 \in Versions BY NextVersion DEF TaskOK, TaskCommits
<1>2. Event(db + 1, "job.progress") \in Events
  BY <1>1, EventsAreEvents DEF Kinds
<1> QED BY <1>1, <1>2 DEF TaskOK, TaskCommits

LEMMA FailTypes == ASSUME TaskOK, TaskFails PROVE TaskOK'
<1>1. Event(End, "job.terminal") \in Events /\ Event(End, "book.status_changed") \in Events
  BY EndIsVersion, EventsAreEvents DEF Kinds
<1> QED BY <1>1, EndIsVersion DEF TaskOK, TaskFails

LEMMA TaskPublishTypes == ASSUME TaskOK, TaskPublishes PROVE TaskOK' /\ Head(todo) \in Events
  BY DEF TaskOK, TaskPublishes

(* Redis and the dispatcher. *)
LEMMA PublishTypes == ASSUME TaskOK, RedisOK, Publish PROVE TaskOK' /\ RedisOK'
<1>1. TaskOK' /\ Head(todo) \in Events BY TaskPublishTypes DEF Publish
<1> QED BY <1>1, Sizes DEF RedisOK, Publish, Loses

LEMMA WireIsEvents == ASSUME RedisOK PROVE ToSet(wire) \subseteq Events
  BY DEF RedisOK, ToSet

LEMMA BreakTypes == ASSUME RedisOK, SubscriptionBreaks PROVE RedisOK'
  BY Sizes, WireIsEvents DEF RedisOK, SubscriptionBreaks, Loses

LEMMA DispatchTypes ==
  ASSUME RedisOK, QueueOK, ConnOK, Fanout PROVE RedisOK' /\ QueueOK' /\ ConnOK'
<1>1. Head(wire) \in Events /\ Tail(wire) \in Seq(Events) BY DEF RedisOK, Fanout
<1>2. RedisOK' BY <1>1 DEF RedisOK, Fanout
<1>3. QueueOK'
  <2>1. queue' \in [Conns -> Seq(Events)]
    BY <1>1 DEF QueueOK, Fanout, Put
  <2>2. ASSUME NEW c \in Conns PROVE Len(queue'[c]) <= QUEUE_MAX_SIZE
    <3>1. queue[c] \in Seq(Events) /\ Len(queue[c]) <= QUEUE_MAX_SIZE BY DEF QueueOK
    <3>2. CASE Listens(c) /\ ~Skips(c)
      <4>1. queue'[c] = Append(queue[c], Head(wire)) BY <3>2 DEF Fanout, Put
      <4>2. Len(queue[c]) < QUEUE_MAX_SIZE BY <3>1, <3>2, Sizes DEF Skips, Full
      <4> QED BY <1>1, <3>1, <4>1, <4>2, Sizes
    <3>3. CASE ~(Listens(c) /\ ~Skips(c))
      BY <3>1, <3>3 DEF Fanout
    <3> QED BY <3>2, <3>3
  <2> QED BY <2>1, <2>2 DEF QueueOK
<1>4. ConnOK' BY <1>1 DEF ConnOK, Fanout
<1> QED BY <1>2, <1>3, <1>4

(* A connection. *)
LEMMA SnapshotTypes ==
  ASSUME TaskOK, QueueOK, ConnOK, NEW c \in Conns, Snapshot(c) PROVE QueueOK' /\ ConnOK'
<1>1. db \in Versions BY DEF TaskOK
<1>2. snap[c] \in Snaps BY DEF ConnOK
<1>3. NoSnapshot \in Snaps BY DEF NoSnapshot, Snaps
<1>4. [snap[c] EXCEPT !.book = db] \in Snaps /\ [snap[c] EXCEPT !.jobs = db] \in Snaps
  BY <1>1, <1>2 DEF Snaps
<1>5. QueueOK' BY DEF QueueOK, Snapshot, ReadBook, ReadJobs, SnapshotFails
<1>6. conn' \in [Conns -> ConnStates]
  BY DEF ConnOK, ConnStates, Snapshot, ReadBook, ReadJobs, SnapshotFails, Moves
<1>7. sent' \in [Conns -> Seq(Events)] /\ missed' \in [Conns -> SUBSET Events]
  BY DEF ConnOK, Snapshot, ReadBook, ReadJobs, SnapshotFails
<1>8. snap' \in [Conns -> Snaps]
  <2>1. CASE ReadBook(c) BY <2>1, <1>4 DEF ConnOK, ReadBook
  <2>2. CASE ReadJobs(c) BY <2>2, <1>4 DEF ConnOK, ReadJobs
  <2>3. CASE SnapshotFails(c) BY <2>3, <1>3 DEF ConnOK, SnapshotFails
  <2> QED BY <2>1, <2>2, <2>3 DEF Snapshot
<1> QED BY <1>5, <1>6, <1>7, <1>8 DEF ConnOK

LEMMA ReceiveTypes ==
  ASSUME QueueOK, ConnOK, NEW c \in Conns, Receive(c) PROVE QueueOK' /\ ConnOK'
<1>1. queue[c] \in Seq(Events) /\ queue[c] # <<>> /\ sent[c] \in Seq(Events)
  BY DEF QueueOK, ConnOK, Receive
<1>2. /\ Head(queue[c]) \in Events /\ Tail(queue[c]) \in Seq(Events)
      /\ Len(Tail(queue[c])) = Len(queue[c]) - 1
  BY <1>1
<1>3. Append(sent[c], Head(queue[c])) \in Seq(Events) BY <1>1, <1>2
<1>4. QueueOK'
  <2>1. queue' \in [Conns -> Seq(Events)] BY <1>2 DEF QueueOK, Receive
  <2>2. ASSUME NEW d \in Conns PROVE Len(queue'[d]) <= QUEUE_MAX_SIZE
    <3>1. Len(queue[d]) \in Nat /\ Len(queue[d]) <= QUEUE_MAX_SIZE BY DEF QueueOK
    <3>2. CASE d = c BY <1>2, <3>1, <3>2, Sizes DEF QueueOK, Receive
    <3>3. CASE d # c BY <3>1, <3>3 DEF QueueOK, Receive
    <3> QED BY <3>2, <3>3
  <2> QED BY <2>1, <2>2 DEF QueueOK
<1>5. ConnOK' BY <1>3 DEF ConnOK, Receive
<1> QED BY <1>4, <1>5

LEMMA ConnectTypes ==
  ASSUME QueueOK, ConnOK, NEW c \in Conns, Connect(c) \/ LeaveEarly(c)
  PROVE QueueOK' /\ ConnOK'
BY DEF QueueOK, ConnOK, ConnStates, Connect, LeaveEarly, Moves

LEMMA ClosedTypes ==
  ASSUME QueueOK, ConnOK, NEW c \in Conns, Disconnect(c) PROVE QueueOK' /\ ConnOK'
<1>1. NoSnapshot \in Snaps BY DEF NoSnapshot, Snaps
<1>2. QueueOK' BY Sizes DEF QueueOK, Disconnect
<1>3. ConnOK' BY <1>1 DEF ConnOK, ConnStates, Disconnect, Moves
<1> QED BY <1>2, <1>3

LEMMA RestartTypes ==
  ASSUME RedisOK, QueueOK, ConnOK, Restart PROVE RedisOK' /\ QueueOK' /\ ConnOK'
<1>1. NoSnapshot \in Snaps BY DEF NoSnapshot, Snaps
<1>2. RedisOK' BY Sizes, WireIsEvents DEF RedisOK, Restart, Loses
<1>3. QueueOK' BY Sizes DEF QueueOK, Restart
<1>4. ConnOK'
  <2>1. conn' \in [Conns -> ConnStates] BY DEF ConnOK, ConnStates, Restart
  <2>2. snap' \in [Conns -> Snaps] BY <1>1 DEF Restart
  <2>3. sent' \in [Conns -> Seq(Events)] /\ missed' \in [Conns -> SUBSET Events] BY DEF Restart
  <2> QED BY <2>1, <2>2, <2>3 DEF ConnOK
<1> QED BY <1>2, <1>3, <1>4

LEMMA InitTypes == HubInit => HubTypeOK
<1> SUFFICES ASSUME HubInit PROVE HubTypeOK OBVIOUS
<1>1. TaskOK BY Sizes DEF HubInit, TaskInit, TaskOK
<1>2. RedisOK BY Sizes DEF HubInit, RedisOK
<1>3. QueueOK BY Sizes DEF HubInit, QueueOK
<1>4. NoSnapshot \in Snaps BY DEF NoSnapshot, Snaps
<1>5. ConnOK BY <1>4 DEF HubInit, ConnOK, ConnStates
<1> QED BY <1>1, <1>2, <1>3, <1>5, HubTypeParts

LEMMA StepTypes == HubTypeOK /\ [HubNext]_hub => HubTypeOK'
<1> SUFFICES ASSUME HubTypeOK, [HubNext]_hub PROVE TaskOK' /\ RedisOK' /\ QueueOK' /\ ConnOK'
  BY HubTypeParts, PTL
<1> USE HubTypeParts
<1>1. CASE (TaskCommits \/ TaskFails) /\ UNCHANGED <<redis, conns>>
  <2>1. TaskOK' BY <1>1, CommitTypes, FailTypes
  <2> QED BY <1>1, <2>1 DEF RedisOK, QueueOK, ConnOK, redis, conns
<1>2. CASE Publish
  BY <1>2, PublishTypes DEF Publish, conns, QueueOK, ConnOK
<1>3. CASE SubscriptionBreaks
  BY <1>3, BreakTypes DEF SubscriptionBreaks, task, conns, TaskOK, QueueOK, ConnOK
<1>4. CASE Fanout
  BY <1>4, DispatchTypes DEF Fanout, task, TaskOK
<1>5. CASE Restart
  BY <1>5, RestartTypes DEF Restart, task, TaskOK
<1>6. ASSUME NEW c \in Conns, Snapshot(c)
      PROVE TaskOK' /\ RedisOK' /\ QueueOK' /\ ConnOK'
  BY <1>6, SnapshotTypes
     DEF Snapshot, ReadBook, ReadJobs, SnapshotFails, task, redis, TaskOK, RedisOK
<1>7. ASSUME NEW c \in Conns, Receive(c) PROVE TaskOK' /\ RedisOK' /\ QueueOK' /\ ConnOK'
  BY <1>7, ReceiveTypes DEF Receive, task, redis, TaskOK, RedisOK
<1>8. ASSUME NEW c \in Conns, Connect(c) \/ LeaveEarly(c)
      PROVE TaskOK' /\ RedisOK' /\ QueueOK' /\ ConnOK'
  BY <1>8, ConnectTypes DEF Connect, LeaveEarly, task, redis, TaskOK, RedisOK
<1>9. ASSUME NEW c \in Conns, Disconnect(c) PROVE TaskOK' /\ RedisOK' /\ QueueOK' /\ ConnOK'
  BY <1>9, ClosedTypes DEF Disconnect, task, redis, TaskOK, RedisOK
<1>10. CASE UNCHANGED hub
  BY <1>10 DEF hub, task, redis, conns, TaskOK, RedisOK, QueueOK, ConnOK
<1> QED
  BY <1>1, <1>2, <1>3, <1>4, <1>5, <1>6, <1>7, <1>8, <1>9, <1>10
     DEF HubNext, TaskStep, ServerStep

(* Events, queues and snapshots keep their types, and no queue ever holds  *)
(* more than its maximum size, for any connections, sizes and losses.      *)
THEOREM HubTypes == HubSpec => []HubTypeOK
  BY InitTypes, StepTypes, PTL DEF HubSpec

-----------------------------------------------------------------------------
(* Nothing falls between the snapshot and the stream. *)
LEMMA AppendedSet ==
  ASSUME NEW S, NEW s \in Seq(S), NEW e \in S
  PROVE ToSet(Append(s, e)) = ToSet(s) \cup {e}
<1> DEFINE t == Append(s, e)
<1>1. /\ DOMAIN t = DOMAIN s \cup {Len(s) + 1} /\ t[Len(s) + 1] = e
      /\ \A i \in DOMAIN s : t[i] = s[i]
  OBVIOUS
<1> HIDE DEF t
<1>2. ToSet(t) = ToSet(s) \cup {e} BY <1>1 DEF ToSet
<1> QED BY <1>2 DEF t

LEMMA HeadAndTailSet ==
  ASSUME NEW S, NEW s \in Seq(S), s # <<>>
  PROVE ToSet(s) \subseteq {Head(s)} \cup ToSet(Tail(s))
<1> SUFFICES ASSUME NEW i \in DOMAIN s, i # 1 PROVE s[i] \in ToSet(Tail(s))
  BY DEF ToSet
<1>1. i - 1 \in DOMAIN Tail(s) /\ Tail(s)[i - 1] = s[i] OBVIOUS
<1> QED BY <1>1 DEF ToSet

\* Where an event may be that the snapshot of c does not cover.
Away(c) == ToSet(wire) \cup ToSet(queue[c]) \cup ToSet(sent[c]) \cup missed[c] \cup lost
\* The rows that the snapshot of c has read so far.
Covered(c) ==
  IF conn[c] = "book_read" THEN {"book"}
  ELSE IF conn[c] = "streaming" /\ snap[c] # NoSnapshot THEN {"book", "jobs"}
  ELSE {}
Kept(c) == \A e \in published : About(e) \in Covered(c) => Accounted(c, e)

\* What is published has been committed.
Committed ==
  /\ \A e \in published : e.version <= db
  /\ \A i \in DOMAIN todo : todo[i].version <= db
HubIInv == HubTypeOK /\ Committed /\ \A c \in Conns : Kept(c)

LEMMA AccountedIs ==
  \A c, e : Accounted(c, e) <=> e.version <= snap[c][About(e)] \/ e \in Away(c)
  BY DEF Accounted, Away

LEMMA Enough == HubIInv => NothingBetween
<1> SUFFICES ASSUME HubIInv, NEW c \in Conns, conn[c] = "streaming", snap[c] # NoSnapshot,
                    NEW e \in published
             PROVE Accounted(c, e)
  BY DEF NothingBetween
<1>1. Covered(c) = {"book", "jobs"} BY DEF Covered
<1>2. About(e) \in {"book", "jobs"} BY DEF About
<1> QED BY <1>1, <1>2 DEF HubIInv, Kept

LEMMA CommittedStays ==
  ASSUME HubTypeOK, Committed, [HubNext]_hub PROVE Committed'
<1>1. db \in Nat /\ todo \in Seq(Events) /\ Versions \subseteq Nat /\ published \subseteq Events
  BY Sizes, HubTypeParts DEF TaskOK, RedisOK
<1>0. \A e \in Events : e.version \in Nat BY <1>1 DEF Events
<1>2. CASE TaskCommits /\ UNCHANGED <<redis, conns>>
  BY <1>0, <1>1, <1>2 DEF TaskCommits, redis, Committed, Event
<1>3. CASE TaskFails /\ UNCHANGED <<redis, conns>>
  <2>1. db' >= db /\ db' = End BY <1>1, <1>3, Sizes DEF TaskFails
  <2>2. \A i \in DOMAIN todo' : todo'[i].version = End BY <1>3 DEF TaskFails, Event
  <2>3. published' = published BY <1>3 DEF redis
  <2> QED BY <1>0, <1>1, <2>1, <2>2, <2>3, Sizes DEF Committed
<1>4. CASE Publish
  <2>1. db' = db /\ todo # <<>> /\ todo' = Tail(todo) BY <1>4 DEF Publish, TaskPublishes
  <2>2. published' = published \cup {Head(todo)} BY <1>4 DEF Publish
  <2>3. Head(todo).version <= db BY <1>1, <2>1 DEF Committed
  <2>4. \A i \in DOMAIN Tail(todo) : i + 1 \in DOMAIN todo /\ Tail(todo)[i] = todo[i + 1]
    BY <1>1, <2>1
  <2> QED BY <2>1, <2>2, <2>3, <2>4 DEF Committed
<1>5. CASE UNCHANGED <<task, published>> BY <1>5 DEF task, Committed
<1> QED
  BY <1>2, <1>3, <1>4, <1>5
     DEF HubNext, TaskStep, ServerStep, Snapshot, SubscriptionBreaks, Fanout, Restart, Connect,
         ReadBook, ReadJobs, SnapshotFails, Receive, Disconnect, LeaveEarly, hub, redis

\* A connection keeps what it has while it stays as it is and loses sight of
\* nothing.
LEMMA Keeps ==
  ASSUME NEW c, Kept(c), conn'[c] = conn[c], snap'[c] = snap[c], Away(c) \subseteq Away(c)',
         \A e \in published' : e \in published \/ e \in Away(c)'
  PROVE Kept(c)'
BY DEF Kept, Covered, Accounted, Away

LEMMA KeepsNothing ==
  ASSUME NEW c, Covered(c)' = {} PROVE Kept(c)'
BY DEF Kept

LEMMA PublishKeeps ==
  ASSUME HubTypeOK, NEW c \in Conns, Kept(c), Publish PROVE Kept(c)'
<1>1. wire \in Seq(Events) /\ Head(todo) \in Events
  BY HubTypeParts, TaskPublishTypes DEF RedisOK, Publish
<1>2. Away(c) \subseteq Away(c)' /\ Head(todo) \in Away(c)'
  <2>1. CASE wire' = Append(wire, Head(todo)) /\ UNCHANGED lost
    <3>1. ToSet(wire') = ToSet(wire) \cup {Head(todo)} BY <1>1, <2>1, AppendedSet
    <3> QED BY <2>1, <3>1 DEF Publish, conns, Away
  <2>2. CASE lost' = lost \cup {Head(todo)} /\ UNCHANGED wire
    BY <2>2 DEF Publish, conns, Away
  <2> QED BY <2>1, <2>2 DEF Publish
<1> QED BY <1>2, Keeps DEF Publish, conns

LEMMA BreakKeeps ==
  ASSUME NEW c \in Conns, Kept(c), SubscriptionBreaks PROVE Kept(c)'
<1>1. Away(c) \subseteq Away(c)' BY DEF SubscriptionBreaks, conns, Away
<1> QED BY <1>1, Keeps DEF SubscriptionBreaks, conns

LEMMA DispatchKeeps ==
  ASSUME HubTypeOK, NEW c \in Conns, Kept(c), Fanout PROVE Kept(c)'
<1>1. /\ wire \in Seq(Events) /\ wire # <<>> /\ Head(wire) \in Events
      /\ queue[c] \in Seq(Events)
  BY HubTypeParts DEF RedisOK, QueueOK, Fanout
<1>2. ToSet(wire) \subseteq {Head(wire)} \cup ToSet(wire')
  BY <1>1, HeadAndTailSet DEF Fanout
<1>3. CASE Listens(c)
  <2>1. /\ ToSet(queue[c]) \cup missed[c] \subseteq ToSet(queue'[c]) \cup missed'[c]
        /\ Head(wire) \in ToSet(queue'[c]) \cup missed'[c]
    <3>1. CASE Skips(c) BY <1>3, <3>1 DEF Fanout
    <3>2. CASE ~Skips(c)
      <4>1. queue'[c] = Append(queue[c], Head(wire)) /\ missed'[c] = missed[c]
        BY <1>3, <3>2 DEF Fanout, Put
      <4>2. ToSet(queue'[c]) = ToSet(queue[c]) \cup {Head(wire)}
        BY <1>1, <4>1, AppendedSet
      <4> QED BY <4>1, <4>2
    <3> QED BY <3>1, <3>2
  <2>2. Away(c) \subseteq Away(c)' BY <1>2, <2>1 DEF Fanout, Away
  <2> QED BY <2>2, Keeps DEF Fanout
<1>4. CASE ~Listens(c)
  <2>1. Covered(c)' = {} BY <1>4 DEF Listens, Listening, Fanout, Covered
  <2> QED BY <2>1, KeepsNothing
<1> QED BY <1>3, <1>4

LEMMA ReceiveKeeps ==
  ASSUME HubTypeOK, NEW c \in Conns, Kept(c), Receive(c) PROVE Kept(c)'
<1>1. /\ queue[c] \in Seq(Events) /\ queue[c] # <<>> /\ Head(queue[c]) \in Events
      /\ sent[c] \in Seq(Events)
      /\ queue \in [Conns -> Seq(Events)] /\ sent \in [Conns -> Seq(Events)]
  BY HubTypeParts DEF QueueOK, ConnOK, Receive
<1>2. queue'[c] = Tail(queue[c]) /\ sent'[c] = Append(sent[c], Head(queue[c]))
  BY <1>1 DEF Receive
<1>3. ToSet(queue[c]) \subseteq {Head(queue[c])} \cup ToSet(queue'[c])
  BY <1>1, <1>2, HeadAndTailSet
<1>4. ToSet(sent'[c]) = ToSet(sent[c]) \cup {Head(queue[c])}
  BY <1>1, <1>2, AppendedSet
<1>5. Away(c) \subseteq Away(c)' BY <1>3, <1>4 DEF Receive, redis, Away
<1> QED BY <1>5, Keeps DEF Receive, redis

\* The first read covers the book: whatever is published about it by then
\* was committed before.  The second one does the same for the jobs.
LEMMA SnapshotKeeps ==
  ASSUME HubTypeOK, Committed, NEW c \in Conns, Kept(c), Snapshot(c) PROVE Kept(c)'
<1>1. conn \in [Conns -> ConnStates] /\ snap \in [Conns -> Snaps]
  BY HubTypeParts DEF ConnOK
<1>2. CASE ReadBook(c)
  <2>1. Covered(c)' = {"book"} BY <1>1, <1>2 DEF ReadBook, Moves, Covered
  <2>2. snap'[c]["book"] = db BY <1>1, <1>2 DEF ReadBook, Snaps
  <2>3. \A e \in published : e.version <= db BY DEF Committed
  <2> QED BY <1>2, <2>1, <2>2, <2>3 DEF ReadBook, redis, Kept, Accounted
<1>3. CASE ReadJobs(c)
  <2>1. conn[c] = "book_read" /\ Covered(c) = {"book"} BY <1>3 DEF ReadJobs, Covered
  <2>2. snap'[c]["jobs"] = db /\ snap'[c]["book"] = snap[c]["book"]
    BY <1>1, <1>3 DEF ReadJobs, Snaps
  <2>3. \A e \in published : e.version <= db BY DEF Committed
  <2>4. Away(c)' = Away(c) /\ published' = published BY <1>3 DEF ReadJobs, redis, Away
  <2> SUFFICES ASSUME NEW e \in published PROVE Accounted(c, e)'
    BY <2>4 DEF Kept
  <2>5. CASE About(e) = "book"
    <3>1. Accounted(c, e) BY <2>1, <2>5 DEF Kept
    <3> QED BY <2>2, <2>4, <2>5, <3>1 DEF Accounted, Away
  <2>6. CASE About(e) = "jobs" BY <2>2, <2>3, <2>6 DEF Accounted
  <2> QED BY <2>5, <2>6 DEF About
<1>4. CASE SnapshotFails(c)
  <2>1. Covered(c)' = {} BY <1>1, <1>4 DEF SnapshotFails, Moves, Covered
  <2> QED BY <2>1, KeepsNothing
<1> QED BY <1>2, <1>3, <1>4 DEF Snapshot

\* A connection that is being set up or is over has nothing to keep.
LEMMA MoveKeeps ==
  ASSUME HubTypeOK, NEW c \in Conns, Connect(c) \/ LeaveEarly(c) \/ Disconnect(c) PROVE Kept(c)'
<1>1. conn \in [Conns -> ConnStates] BY HubTypeParts DEF ConnOK
<1>2. conn'[c] \in {"registered", "left", "closed"}
  BY <1>1 DEF Connect, LeaveEarly, Disconnect, Moves
<1>3. Covered(c)' = {} BY <1>2 DEF Covered
<1> QED BY <1>3, KeepsNothing

\* What one connection does, another does not notice.
LEMMA OthersKeep ==
  ASSUME HubTypeOK, NEW c \in Conns, NEW d \in Conns, d # c, Kept(c),
         Connect(d) \/ Snapshot(d) \/ Receive(d) \/ Disconnect(d) \/ LeaveEarly(d)
  PROVE Kept(c)'
<1>1. /\ conn'[c] = conn[c] /\ queue'[c] = queue[c] /\ snap'[c] = snap[c]
      /\ sent'[c] = sent[c] /\ missed'[c] = missed[c] /\ UNCHANGED redis
  BY HubTypeParts DEF QueueOK, ConnOK, Connect, Snapshot, ReadBook, ReadJobs, SnapshotFails,
                   Receive, Disconnect, LeaveEarly, Moves
<1>2. Away(c)' = Away(c) BY <1>1 DEF Away, redis
<1> QED BY <1>1, <1>2, Keeps DEF redis

LEMMA HubStepKeeps ==
  ASSUME HubTypeOK, Committed, NEW c \in Conns, Kept(c), [HubNext]_hub PROVE Kept(c)'
<1>1. CASE UNCHANGED <<redis, conns>>
  <2>1. Away(c)' = Away(c) BY <1>1 DEF redis, conns, Away
  <2> QED BY <1>1, <2>1, Keeps DEF redis, conns
<1>2. CASE Publish BY <1>2, PublishKeeps
<1>3. CASE SubscriptionBreaks BY <1>3, BreakKeeps
<1>4. CASE Fanout BY <1>4, DispatchKeeps
<1>5. CASE Restart
  <2>1. Covered(c)' = {} BY <1>5 DEF Restart, Covered, Listens, Listening
  <2> QED BY <2>1, KeepsNothing
<1>6. ASSUME NEW d \in Conns,
             Connect(d) \/ Snapshot(d) \/ Receive(d) \/ Disconnect(d) \/ LeaveEarly(d)
      PROVE Kept(c)'
  BY <1>6, OthersKeep, SnapshotKeeps, ReceiveKeeps, MoveKeeps
<1> QED
  BY <1>1, <1>2, <1>3, <1>4, <1>5, <1>6 DEF HubNext, TaskStep, ServerStep, hub

(* An event that is published is covered by the snapshot of a connection   *)
(* that streams, under way to it, received, or lost where the code says    *)
(* so: at Redis or at the connection's own full queue.                     *)
THEOREM NothingFallsBetween == HubSpec => []NothingBetween
<1>1. HubInit => HubIInv
  <2> SUFFICES ASSUME HubInit PROVE Committed /\ \A c \in Conns : Kept(c)
    BY InitTypes DEF HubIInv
  <2>1. Committed BY DEF HubInit, TaskInit, Committed
  <2>2. ASSUME NEW c \in Conns PROVE Kept(c) BY DEF HubInit, Kept
  <2> QED BY <2>1, <2>2
<1>2. HubIInv /\ [HubNext]_hub => HubIInv'
  <2> SUFFICES ASSUME HubIInv, [HubNext]_hub PROVE HubIInv' OBVIOUS
  <2>1. HubTypeOK' BY StepTypes DEF HubIInv
  <2>2. Committed' BY CommittedStays DEF HubIInv
  <2>3. \A c \in Conns : Kept(c)' BY HubStepKeeps DEF HubIInv
  <2> QED BY <2>1, <2>2, <2>3 DEF HubIInv
<1> QED BY <1>1, <1>2, Enough, PTL DEF HubSpec

-----------------------------------------------------------------------------
(* The order of what a connection is sent. *)
Before(s, t) == \A x \in ToSet(s), y \in ToSet(t) : Rank(x) < Rank(y)
\* Everything on the way from the task to c, from what it has to what is not
\* yet published.
InLine(c) ==
  /\ Increasing(sent[c]) /\ Increasing(queue[c]) /\ Increasing(wire) /\ Increasing(todo)
  /\ Before(sent[c], queue[c]) /\ Before(sent[c], wire) /\ Before(sent[c], todo)
  /\ Before(queue[c], wire) /\ Before(queue[c], todo)
  /\ Before(wire, todo)
Known(c) ==
  \A e \in ToSet(sent[c]) \cup ToSet(queue[c]) \cup ToSet(wire) \cup ToSet(todo) : e.version <= db
Ordered(c) == InLine(c) /\ Known(c)

LEMMA RankIsInt == \A e \in Events : Rank(e) \in Nat /\ e.version \in Nat
<1> SUFFICES ASSUME NEW e \in Events PROVE Rank(e) \in Nat /\ e.version \in Nat OBVIOUS
<1>1. e.version \in Nat BY Sizes DEF Events
<1> QED BY <1>1 DEF Rank

LEMMA NewerRank ==
  ASSUME NEW x \in Events, NEW y \in Events, x.version < y.version PROVE Rank(x) < Rank(y)
<1>1. x.version \in Nat /\ y.version \in Nat BY RankIsInt
<1>2. x.version + 1 <= y.version BY <1>1
<1> QED BY <1>1, <1>2 DEF Rank

LEMMA ElementsAreEvents ==
  ASSUME NEW s \in Seq(Events) PROVE ToSet(s) \subseteq Events
BY DEF ToSet

LEMMA JoinedSet ==
  ASSUME NEW s \in Seq(Events), NEW t \in Seq(Events)
  PROVE ToSet(s \o t) = ToSet(s) \cup ToSet(t)
<1> DEFINE u == s \o t
<1>1. /\ DOMAIN u = 1..(Len(s) + Len(t)) /\ DOMAIN s = 1..Len(s) /\ DOMAIN t = 1..Len(t)
      /\ Len(s) \in Nat /\ Len(t) \in Nat
      /\ \A i \in 1..Len(s) : u[i] = s[i]
      /\ \A i \in 1..Len(t) : u[Len(s) + i] = t[i]
      /\ \A i \in (Len(s) + 1)..(Len(s) + Len(t)) : u[i] = t[i - Len(s)]
  OBVIOUS
<1> HIDE DEF u
<1>2. ASSUME NEW i \in DOMAIN u PROVE u[i] \in ToSet(s) \cup ToSet(t)
  <2>1. CASE i <= Len(s) BY <1>1, <2>1 DEF ToSet
  <2>2. CASE i > Len(s)
    <3>1. i - Len(s) \in DOMAIN t /\ u[i] = t[i - Len(s)] BY <1>1, <2>2
    <3> QED BY <3>1 DEF ToSet
  <2> QED BY <1>1, <2>1, <2>2
<1>3. ASSUME NEW i \in DOMAIN s PROVE s[i] \in ToSet(u)
  BY <1>1 DEF ToSet
<1>4. ASSUME NEW i \in DOMAIN t PROVE t[i] \in ToSet(u)
  <2>1. Len(s) + i \in DOMAIN u /\ u[Len(s) + i] = t[i] BY <1>1
  <2> QED BY <2>1 DEF ToSet
<1>5. ToSet(u) = ToSet(s) \cup ToSet(t) BY <1>2, <1>3, <1>4 DEF ToSet
<1> QED BY <1>5 DEF u

LEMMA JoinedIncreases ==
  ASSUME NEW s \in Seq(Events), NEW t \in Seq(Events),
         Increasing(s), Increasing(t), Before(s, t)
  PROVE Increasing(s \o t)
<1> SUFFICES ASSUME NEW i \in DOMAIN (s \o t), NEW j \in DOMAIN (s \o t), i < j
             PROVE Rank((s \o t)[i]) < Rank((s \o t)[j])
  BY DEF Increasing
<1>1. Len(s) \in Nat /\ Len(t) \in Nat /\ i \in Int /\ j \in Int OBVIOUS
<1>2. CASE j <= Len(s)
  <2>1. i \in DOMAIN s /\ j \in DOMAIN s /\ (s \o t)[i] = s[i] /\ (s \o t)[j] = s[j]
    BY <1>1, <1>2
  <2> QED BY <2>1 DEF Increasing
<1>3. CASE i <= Len(s) /\ j > Len(s)
  <2>1. i \in DOMAIN s /\ j - Len(s) \in DOMAIN t BY <1>1, <1>3
  <2>2. (s \o t)[i] = s[i] /\ (s \o t)[j] = t[j - Len(s)] BY <1>1, <1>3
  <2> QED BY <2>1, <2>2 DEF Before, ToSet
<1>4. CASE i > Len(s)
  <2>1. i - Len(s) \in DOMAIN t /\ j - Len(s) \in DOMAIN t /\ i - Len(s) < j - Len(s)
    BY <1>1, <1>4
  <2>2. (s \o t)[i] = t[i - Len(s)] /\ (s \o t)[j] = t[j - Len(s)] BY <1>1, <1>4
  <2> QED BY <2>1, <2>2 DEF Increasing
<1> QED BY <1>1, <1>2, <1>3, <1>4

\* What is taken from the front of a line comes before the rest of it.
LEMMA TailIncreases ==
  ASSUME NEW s \in Seq(Events), s # <<>>, Increasing(s)
  PROVE /\ Tail(s) \in Seq(Events) /\ Head(s) \in Events /\ Increasing(Tail(s))
        /\ Head(s) \in ToSet(s) /\ ToSet(Tail(s)) \subseteq ToSet(s)
        /\ \A y \in ToSet(Tail(s)) : Rank(Head(s)) < Rank(y)
<1> DEFINE t == Tail(s)
<1>1. /\ t \in Seq(Events) /\ Head(s) \in Events /\ Head(s) = s[1] /\ 1 \in DOMAIN s
      /\ \A i \in DOMAIN t : i \in Nat /\ i >= 1 /\ i + 1 \in DOMAIN s /\ t[i] = s[i + 1]
  OBVIOUS
<1> HIDE DEF t
<1>2. Increasing(t) BY <1>1 DEF Increasing
<1>3. Head(s) \in ToSet(s) /\ ToSet(t) \subseteq ToSet(s) BY <1>1 DEF ToSet
<1>4. ASSUME NEW i \in DOMAIN t PROVE Rank(Head(s)) < Rank(t[i])
  <2>1. 1 < i + 1 /\ i + 1 \in DOMAIN s BY <1>1
  <2> QED BY <1>1, <2>1 DEF Increasing
<1>5. \A y \in ToSet(t) : Rank(Head(s)) < Rank(y) BY <1>4 DEF ToSet
<1> QED BY <1>1, <1>2, <1>3, <1>5 DEF t

LEMMA AppendIncreases ==
  ASSUME NEW s \in Seq(Events), NEW e \in Events, Increasing(s),
         \A x \in ToSet(s) : Rank(x) < Rank(e)
  PROVE Increasing(Append(s, e))
<1> DEFINE t == Append(s, e)
<1>1. /\ DOMAIN t = DOMAIN s \cup {Len(s) + 1} /\ t[Len(s) + 1] = e
      /\ \A i \in DOMAIN s : t[i] = s[i] /\ i \in Nat /\ i <= Len(s)
      /\ Len(s) \in Nat
  OBVIOUS
<1> HIDE DEF t
<1>2. ASSUME NEW i \in DOMAIN t, NEW j \in DOMAIN t, i < j PROVE Rank(t[i]) < Rank(t[j])
  <2>1. i \in DOMAIN s BY <1>1, <1>2
  <2>2. CASE j \in DOMAIN s BY <1>1, <1>2, <2>1, <2>2 DEF Increasing
  <2>3. CASE j = Len(s) + 1 BY <1>1, <2>1, <2>3 DEF ToSet
  <2> QED BY <1>1, <2>2, <2>3
<1>3. Increasing(t) BY <1>2 DEF Increasing
<1> QED BY <1>3 DEF t

LEMMA EmptySequence == ToSet(<<>>) = {} /\ Increasing(<<>>)
  BY DEF ToSet, Increasing

LEMMA LineIncreases == ASSUME HubTypeOK, NEW c \in Conns, InLine(c)
                       PROVE Increasing(sent[c] \o queue[c] \o wire \o todo)
<1>1. sent[c] \in Seq(Events) /\ queue[c] \in Seq(Events) /\ wire \in Seq(Events) /\ todo \in Seq(Events)
  BY HubTypeParts DEF ConnOK, QueueOK, RedisOK, TaskOK
<1> DEFINE a == sent[c] \o queue[c]
           b == a \o wire
<1>2. a \in Seq(Events) /\ b \in Seq(Events) BY <1>1
<1>3. ToSet(a) = ToSet(sent[c]) \cup ToSet(queue[c]) BY <1>1, JoinedSet
<1>4. Increasing(a) BY <1>1, JoinedIncreases DEF InLine
<1>5. ToSet(b) = ToSet(a) \cup ToSet(wire) BY <1>1, <1>2, JoinedSet
<1> HIDE DEF a
<1>6. Before(a, wire) BY <1>3 DEF InLine, Before
<1>7. Increasing(b) BY <1>1, <1>2, <1>4, <1>6, JoinedIncreases DEF InLine
<1> HIDE DEF b
<1>8. Before(b, todo) BY <1>3, <1>5 DEF InLine, Before
<1>9. Increasing(b \o todo) BY <1>1, <1>2, <1>7, <1>8, JoinedIncreases DEF InLine
<1> QED BY <1>9 DEF a, b

LEMMA LineTypes ==
  ASSUME HubTypeOK, NEW c \in Conns
  PROVE /\ sent[c] \in Seq(Events) /\ queue[c] \in Seq(Events)
        /\ wire \in Seq(Events) /\ todo \in Seq(Events) /\ db \in Nat
        /\ sent \in [Conns -> Seq(Events)] /\ queue \in [Conns -> Seq(Events)]
BY HubTypeParts, Sizes DEF ConnOK, QueueOK, RedisOK, TaskOK

LEMMA ShortSequences ==
  /\ \A a : ToSet(<<a>>) = {a} /\ Len(<<a>>) = 1
  /\ \A a, b : ToSet(<<a, b>>) = {a, b}
BY DEF ToSet

\* What the task adds is newer than all there is.
LEMMA CommitOrdered ==
  ASSUME HubTypeOK, NEW c \in Conns, Ordered(c), TaskCommits \/ TaskFails,
         UNCHANGED <<redis, conns>>
  PROVE Ordered(c)'
<1> DEFINE L == ToSet(sent[c]) \cup ToSet(queue[c]) \cup ToSet(wire)
<1>1. L \subseteq Events /\ \A e \in L : e.version <= db
  BY LineTypes, ElementsAreEvents DEF Ordered, Known
<1>2. todo' \in Seq(Events) /\ ToSet(todo') \subseteq Events
  <2>1. TaskOK' BY CommitTypes, FailTypes, HubTypeParts
  <2> QED BY <2>1, ElementsAreEvents DEF TaskOK
<1>0. db \in Nat /\ End \in Nat BY LineTypes, Sizes
<1>3. db' > db /\ db' \in Nat /\ \A e \in ToSet(todo') : e.version = db'
  <2>1. db' > db /\ db' \in Nat BY <1>0 DEF TaskCommits, TaskFails
  <2>2. CASE todo' = <<>> BY <2>1, <2>2, EmptySequence
  <2>3. ASSUME NEW k, todo' = <<Event(db', k)>> PROVE \A e \in ToSet(todo') : e.version = db'
    BY <2>3, ShortSequences DEF Event
  <2>4. ASSUME NEW k, NEW l, todo' = <<Event(db', k), Event(db', l)>>
        PROVE \A e \in ToSet(todo') : e.version = db'
    BY <2>4, ShortSequences DEF Event
  <2> QED BY <2>1, <2>2, <2>3, <2>4 DEF TaskCommits, TaskFails
<1>4. Increasing(todo')
  <2>1. CASE todo' = <<>> BY <2>1, EmptySequence
  <2>2. ASSUME NEW e, todo' = <<e>> PROVE Increasing(todo') BY <2>2 DEF Increasing
  <2>3. CASE todo' = <<Event(End, "job.terminal"), Event(End, "book.status_changed")>>
    <3>1. Rank(Event(End, "job.terminal")) < Rank(Event(End, "book.status_changed"))
      BY <1>0 DEF Rank, Event
    <3> QED BY <2>3, <3>1 DEF Increasing
  <2> QED BY <2>1, <2>2, <2>3 DEF TaskCommits, TaskFails
<1>5. ASSUME NEW x \in L, NEW y \in ToSet(todo') PROVE Rank(x) < Rank(y)
  <2>1. x \in Events /\ y \in Events /\ x.version <= db /\ y.version = db'
    BY <1>1, <1>2, <1>3
  <2>2. x.version < y.version BY <1>3, <2>1, LineTypes, RankIsInt
  <2> QED BY <2>1, <2>2, NewerRank
<1>6. wire' = wire /\ queue' = queue /\ sent' = sent BY DEF redis, conns
<1>7. InLine(c)' BY <1>4, <1>5, <1>6 DEF Ordered, InLine, Before
<1>8. Known(c)'
  <2>1. ASSUME NEW e \in L PROVE e.version <= db'
    <3>1. e.version \in Nat /\ e.version <= db BY <1>1, RankIsInt
    <3> QED BY <1>3, <3>1, LineTypes
  <2> QED BY <1>3, <1>6, <2>1 DEF Known
<1> QED BY <1>7, <1>8 DEF Ordered

LEMMA PublishOrdered ==
  ASSUME HubTypeOK, NEW c \in Conns, Ordered(c), Publish PROVE Ordered(c)'
<1>1. /\ todo \in Seq(Events) /\ todo # <<>> /\ todo' = Tail(todo)
      /\ queue' = queue /\ sent' = sent /\ db' = db /\ wire \in Seq(Events)
  BY LineTypes DEF Publish, TaskPublishes, conns
<1> DEFINE h == Head(todo)
<1>2. /\ h \in Events /\ h \in ToSet(todo) /\ Increasing(todo')
      /\ ToSet(todo') \subseteq ToSet(todo) /\ \A y \in ToSet(todo') : Rank(h) < Rank(y)
  BY <1>1, TailIncreases DEF Ordered, InLine
<1> HIDE DEF h
<1>3. /\ Increasing(wire') /\ ToSet(wire') \subseteq ToSet(wire) \cup {h}
  <2>1. CASE wire' = Append(wire, h)
    <3>1. \A x \in ToSet(wire) : Rank(x) < Rank(h) BY <1>2 DEF Ordered, InLine, Before
    <3> QED BY <1>1, <1>2, <2>1, <3>1, AppendIncreases, AppendedSet DEF Ordered, InLine
  <2>2. CASE UNCHANGED wire BY <2>2 DEF Ordered, InLine
  <2> QED BY <2>1, <2>2 DEF Publish, h
<1>4. InLine(c)' BY <1>1, <1>2, <1>3 DEF Ordered, InLine, Before
<1>5. Known(c)' BY <1>1, <1>2, <1>3 DEF Ordered, Known
<1> QED BY <1>4, <1>5 DEF Ordered

\* Whatever leaves the line where it is, or takes some of it away, keeps the
\* order.
LEMMA LessOrdered ==
  ASSUME NEW c \in Conns, Ordered(c), UNCHANGED task,
         sent'[c] = sent[c] \/ sent'[c] = <<>>,
         queue'[c] = queue[c] \/ queue'[c] = <<>>,
         wire' = wire \/ wire' = <<>>
  PROVE Ordered(c)'
BY EmptySequence DEF task, Ordered, InLine, Known, Before

LEMMA DispatchOrdered ==
  ASSUME HubTypeOK, NEW c \in Conns, Ordered(c), Fanout PROVE Ordered(c)'
<1>1. /\ wire \in Seq(Events) /\ wire # <<>> /\ wire' = Tail(wire) /\ queue[c] \in Seq(Events)
      /\ sent' = sent /\ todo' = todo /\ db' = db
  BY LineTypes DEF Fanout, task
<1> DEFINE h == Head(wire)
<1>2. /\ h \in Events /\ h \in ToSet(wire) /\ Increasing(wire')
      /\ ToSet(wire') \subseteq ToSet(wire) /\ \A y \in ToSet(wire') : Rank(h) < Rank(y)
  BY <1>1, TailIncreases DEF Ordered, InLine
<1> HIDE DEF h
<1>3. Increasing(queue'[c]) /\ ToSet(queue'[c]) \subseteq ToSet(queue[c]) \cup {h}
  <2>1. CASE queue'[c] = Append(queue[c], h)
    <3>1. \A x \in ToSet(queue[c]) : Rank(x) < Rank(h) BY <1>2 DEF Ordered, InLine, Before
    <3> QED BY <1>1, <1>2, <2>1, <3>1, AppendIncreases, AppendedSet DEF Ordered, InLine
  <2>2. CASE queue'[c] = queue[c] BY <2>2 DEF Ordered, InLine
  <2> QED BY <2>1, <2>2 DEF Fanout, Put, h
<1>4. InLine(c)' BY <1>1, <1>2, <1>3 DEF Ordered, InLine, Before
<1>5. Known(c)' BY <1>1, <1>2, <1>3 DEF Ordered, Known
<1> QED BY <1>4, <1>5 DEF Ordered

LEMMA ReceiveOrdered ==
  ASSUME HubTypeOK, NEW c \in Conns, Ordered(c), Receive(c) PROVE Ordered(c)'
<1> DEFINE h == Head(queue[c])
<1>1. /\ queue[c] \in Seq(Events) /\ queue[c] # <<>> /\ queue'[c] = Tail(queue[c])
      /\ sent[c] \in Seq(Events) /\ sent'[c] = Append(sent[c], h)
      /\ todo' = todo /\ db' = db /\ wire' = wire
  BY LineTypes DEF Receive, task, redis
<1>2. /\ h \in Events /\ h \in ToSet(queue[c]) /\ Increasing(queue'[c])
      /\ ToSet(queue'[c]) \subseteq ToSet(queue[c])
      /\ \A y \in ToSet(queue'[c]) : Rank(h) < Rank(y)
  BY <1>1, TailIncreases DEF Ordered, InLine
<1> HIDE DEF h
<1>3. Increasing(sent'[c]) /\ ToSet(sent'[c]) = ToSet(sent[c]) \cup {h}
  <2>1. \A x \in ToSet(sent[c]) : Rank(x) < Rank(h) BY <1>2 DEF Ordered, InLine, Before
  <2> QED BY <1>1, <1>2, <2>1, AppendIncreases, AppendedSet DEF Ordered, InLine
<1>4. InLine(c)' BY <1>1, <1>2, <1>3 DEF Ordered, InLine, Before
<1>5. Known(c)' BY <1>1, <1>2, <1>3 DEF Ordered, Known
<1> QED BY <1>4, <1>5 DEF Ordered

LEMMA StepOrdered ==
  ASSUME HubTypeOK, NEW c \in Conns, Ordered(c), [HubNext]_hub PROVE Ordered(c)'
<1>1. CASE (TaskCommits \/ TaskFails) /\ UNCHANGED <<redis, conns>>
  BY <1>1, CommitOrdered
<1>2. CASE Publish BY <1>2, PublishOrdered
<1>3. CASE Fanout BY <1>3, DispatchOrdered
<1>4. CASE SubscriptionBreaks
  BY <1>4, LessOrdered DEF SubscriptionBreaks, conns
<1>5. CASE Restart BY <1>5, LessOrdered DEF Restart
<1>6. ASSUME NEW d \in Conns, Receive(d) PROVE Ordered(c)'
  <2>1. CASE d = c BY <1>6, <2>1, ReceiveOrdered
  <2>2. CASE d # c BY <1>6, <2>2, LessOrdered, LineTypes DEF Receive, redis
  <2> QED BY <2>1, <2>2
<1>7. ASSUME NEW d \in Conns, Connect(d) \/ Snapshot(d) \/ LeaveEarly(d) PROVE Ordered(c)'
  BY <1>7, LessOrdered DEF Connect, Snapshot, ReadBook, ReadJobs, SnapshotFails, LeaveEarly, redis
<1>8. ASSUME NEW d \in Conns, Disconnect(d) PROVE Ordered(c)'
  <2>1. (sent'[c] = sent[c] \/ sent'[c] = <<>>) /\ (queue'[c] = queue[c] \/ queue'[c] = <<>>)
    BY <1>8, LineTypes DEF Disconnect
  <2> QED BY <1>8, <2>1, LessOrdered DEF Disconnect, redis
<1>9. CASE UNCHANGED hub BY <1>9, LessOrdered DEF hub, redis, conns
<1> QED
  BY <1>1, <1>2, <1>3, <1>4, <1>5, <1>6, <1>7, <1>8, <1>9 DEF HubNext, TaskStep, ServerStep

(* A client is never sent older news after newer nor the same twice,       *)
(* whatever is dropped, lost or restarted, and what is under way to it is  *)
(* newer than what it has.                                                 *)
THEOREM SentInOrder == HubSpec => []EventsInOrder
<1> DEFINE OInv == HubTypeOK /\ \A c \in Conns : Ordered(c)
<1>1. HubInit => OInv
  <2> SUFFICES ASSUME HubInit, NEW c \in Conns PROVE Ordered(c) BY InitTypes
  <2>1. sent[c] = <<>> /\ queue[c] = <<>> /\ wire = <<>> /\ todo = <<>>
    BY DEF HubInit, TaskInit
  <2> QED BY <2>1, EmptySequence DEF Ordered, InLine, Known, Before
<1>2. OInv /\ [HubNext]_hub => OInv'
  <2> SUFFICES ASSUME OInv, [HubNext]_hub PROVE OInv' OBVIOUS
  <2>1. HubTypeOK' BY StepTypes
  <2>2. \A c \in Conns : Ordered(c)' BY StepOrdered
  <2> QED BY <2>1, <2>2
<1>3. OInv => EventsInOrder BY LineIncreases DEF EventsInOrder, Ordered
<1> QED BY <1>1, <1>2, <1>3, PTL DEF HubSpec

-----------------------------------------------------------------------------
(* The hub implements the stream that it promises a client. *)
Air == queue[Client] \o wire
AirCut(i, j) == SubSeq(Air, 1, i) \o SubSeq(Air, j + 1, Len(Air))

LEMMA AirTypes ==
  ASSUME HubTypeOK
  PROVE /\ Client \in Conns /\ queue[Client] \in Seq(Events) /\ wire \in Seq(Events)
        /\ Air \in Seq(Events) /\ Len(Air) = Len(queue[Client]) + Len(wire)
BY LineTypes, SizesAssumption DEF Air

LEMMA AppendRight ==
  ASSUME NEW s \in Seq(Events), NEW t \in Seq(Events), NEW e \in Events
  PROVE s \o Append(t, e) = Append(s \o t, e)
OBVIOUS

LEMMA MoveHead ==
  ASSUME NEW s \in Seq(Events), NEW t \in Seq(Events), t # <<>>
  PROVE Append(s, Head(t)) \o Tail(t) = s \o t
OBVIOUS

LEMMA TakeHead ==
  ASSUME NEW s \in Seq(Events), NEW t \in Seq(Events), s # <<>>
  PROVE s \o t # <<>> /\ Head(s \o t) = Head(s) /\ Tail(s \o t) = Tail(s) \o t
OBVIOUS

LEMMA Suffix ==
  ASSUME NEW S, NEW s \in Seq(S), NEW m \in Nat, m >= 1, m <= Len(s) + 1
  PROVE /\ SubSeq(s, m, Len(s)) \in Seq(S) /\ Len(SubSeq(s, m, Len(s))) = Len(s) - m + 1
        /\ \A i \in 1..(Len(s) - m + 1) : SubSeq(s, m, Len(s))[i] = s[m + i - 1]
<1>1. \A i \in m..Len(s) : s[i] \in S OBVIOUS
<1>2. m \in Int /\ Len(s) \in Int OBVIOUS
<1> QED BY <1>1, <1>2, SubSeqProperties

LEMMA CutHead ==
  ASSUME NEW s \in Seq(Events), NEW t \in Seq(Events), t # <<>>
  PROVE s \o Tail(t) = SubSeq(s \o t, 1, Len(s)) \o SubSeq(s \o t, Len(s) + 2, Len(s \o t))
<1> DEFINE u == s \o t
           v == SubSeq(u, Len(s) + 2, Len(u))
<1>1. SubSeq(u, 1, Len(s)) = s OBVIOUS
<1>2. /\ Len(t) \in Nat /\ Len(t) >= 1 /\ Len(s) \in Nat /\ u \in Seq(Events)
      /\ Len(u) = Len(s) + Len(t)
      /\ \A i \in 1..(Len(t) - 1) : u[Len(s) + 2 + i - 1] = t[i + 1]
  OBVIOUS
<1> HIDE DEF u
<1>3. /\ v \in Seq(Events) /\ Len(v) = Len(t) - 1
      /\ \A i \in 1..(Len(t) - 1) : v[i] = u[Len(s) + 2 + i - 1]
  <2> DEFINE m == Len(s) + 2
  <2>1. m \in Nat /\ m >= 1 /\ m <= Len(u) + 1 /\ Len(u) - m + 1 = Len(t) - 1 BY <1>2
  <2> HIDE DEF m
  <2>2. /\ SubSeq(u, m, Len(u)) \in Seq(Events)
        /\ Len(SubSeq(u, m, Len(u))) = Len(u) - m + 1
        /\ \A i \in 1..(Len(u) - m + 1) : SubSeq(u, m, Len(u))[i] = u[m + i - 1]
    BY <1>2, <2>1, Suffix
  <2> QED BY <2>1, <2>2 DEF m
<1> HIDE DEF v
<1>4. /\ Tail(t) \in Seq(Events) /\ Len(Tail(t)) = Len(t) - 1
      /\ \A i \in 1..(Len(t) - 1) : Tail(t)[i] = t[i + 1]
  BY <1>2
<1>5. v = Tail(t) BY <1>2, <1>3, <1>4
<1> QED BY <1>1, <1>5 DEF u, v

LEMMA CutRight ==
  ASSUME NEW s \in Seq(Events), NEW t \in Seq(Events)
  PROVE s \o <<>> = SubSeq(s \o t, 1, Len(s)) \o SubSeq(s \o t, Len(s \o t) + 1, Len(s \o t))
OBVIOUS

LEMMA CutLeft ==
  ASSUME NEW s \in Seq(Events), NEW t \in Seq(Events)
  PROVE <<>> \o t = SubSeq(s \o t, 1, 0) \o SubSeq(s \o t, Len(s) + 1, Len(s \o t))
OBVIOUS

\* Each kind of step of the hub, as a step of the stream or as none.
Seen == <<task, Air, conn[Client] = "streaming", sent[Client]>>
StreamStep == Stream!StreamNext \/ UNCHANGED Seen

LEMMA AirIs == Air = queue[Client] \o wire /\ Air' = queue'[Client] \o wire'
  BY DEF Air

LEMMA DropStep ==
  ASSUME NEW i \in 0..Len(Air), NEW j \in 0..Len(Air), i <= j, Air' = AirCut(i, j),
         UNCHANGED <<task, conn>>, sent'[Client] = sent[Client]
  PROVE StreamStep
<1>1. Stream!Drops BY DEF Stream!Drops, Stream!AirWithout, Stream!task, task, Air, AirCut
<1> QED BY <1>1 DEF StreamStep, Stream!StreamNext

LEMMA ShutStep ==
  ASSUME NEW i \in 0..Len(Air), Air' = AirCut(0, i), UNCHANGED task,
         conn'[Client] # "streaming", sent'[Client] = <<>>
  PROVE StreamStep
<1>1. Stream!Shuts BY DEF Stream!Shuts, Stream!AirWithout, Stream!task, task, Air, AirCut
<1> QED BY <1>1 DEF StreamStep, Stream!StreamNext

LEMMA OpenStep ==
  ASSUME conn[Client] # "streaming", conn'[Client] = "streaming",
         UNCHANGED <<task, redis, queue>>, sent'[Client] = sent[Client]
  PROVE StreamStep
<1>1. Air' = Air BY DEF Air, redis
<1>2. Stream!Opens BY <1>1 DEF Stream!Opens, Stream!task, task, Air
<1> QED BY <1>2 DEF StreamStep, Stream!StreamNext

LEMMA StayStep ==
  ASSUME UNCHANGED task, Air' = Air, (conn'[Client] = "streaming") = (conn[Client] = "streaming"),
         sent'[Client] = sent[Client]
  PROVE StreamStep
BY DEF StreamStep, Seen

LEMMA TaskStreamStep ==
  ASSUME TaskCommits \/ TaskFails, UNCHANGED <<redis, conns>> PROVE StreamStep
<1>1. /\ queue'[Client] \o wire' = queue[Client] \o wire /\ sent'[Client] = sent[Client]
      /\ conn' = conn
  BY DEF redis, conns
<1>2. Stream!TaskCommits \/ Stream!TaskFails
  BY DEF TaskCommits, TaskFails, Stream!TaskCommits, Stream!TaskFails, Event, Stream!Event, End, Stream!End
<1> QED BY <1>1, <1>2 DEF StreamStep, Stream!StreamNext, Stream!stream

LEMMA PublishStreamStep ==
  ASSUME HubTypeOK, Publish PROVE StreamStep
<1>1. /\ queue' = queue /\ conn' = conn /\ sent' = sent BY DEF Publish, conns
<1>2. Head(todo) \in Events BY HubTypeParts, TaskPublishTypes DEF Publish
<1>3. Air' = Append(Air, Head(todo)) \/ Air' = Air
  <2>1. CASE wire' = Append(wire, Head(todo))
    BY <1>1, <1>2, <2>1, AirTypes, AppendRight DEF Air
  <2>2. CASE UNCHANGED wire BY <1>1, <2>2 DEF Air
  <2> QED BY <2>1, <2>2 DEF Publish
<1>4. Stream!TaskPublishes BY DEF Publish, TaskPublishes, Stream!TaskPublishes
<1>5. Stream!Publishes BY <1>1, <1>3, <1>4 DEF Stream!Publishes, Air
<1> QED BY <1>5 DEF StreamStep, Stream!StreamNext

\* What the subscription loses is the end of what is under way.
LEMMA BreakStreamStep ==
  ASSUME HubTypeOK, SubscriptionBreaks PROVE StreamStep
<1>1. queue' = queue /\ conn' = conn /\ sent' = sent /\ UNCHANGED task /\ wire' = <<>>
  BY DEF SubscriptionBreaks, conns
<1>2. Air' = AirCut(Len(queue[Client]), Len(Air))
  BY <1>1, AirTypes, CutRight DEF Air, AirCut
<1>3. Len(queue[Client]) \in 0..Len(Air) /\ Len(Air) \in 0..Len(Air) /\ Len(queue[Client]) <= Len(Air)
  BY AirTypes
<1> QED BY <1>1, <1>2, <1>3, DropStep

\* A message moves from Redis to the queue, which the client does not see, or
\* is lost from the middle.
LEMMA DispatchStreamStep ==
  ASSUME HubTypeOK, Fanout PROVE StreamStep
<1>1. /\ conn' = conn /\ sent' = sent /\ UNCHANGED task
      /\ wire # <<>> /\ wire' = Tail(wire)
  BY DEF Fanout
<1>2. CASE queue'[Client] = Append(queue[Client], Head(wire))
  <2>1. Air' = Air BY <1>1, <1>2, AirTypes, MoveHead DEF Air
  <2> QED BY <1>1, <2>1, StayStep
<1>3. CASE queue'[Client] = queue[Client]
  <2> DEFINE n == Len(queue[Client])
  <2>1. Air' = AirCut(n, n + 1)
    <3>1. n + 1 + 1 = n + 2 BY AirTypes
    <3> QED BY <1>1, <1>3, <3>1, AirTypes, CutHead DEF Air, AirCut
  <2>2. n \in 0..Len(Air) /\ n + 1 \in 0..Len(Air) /\ n <= n + 1 BY <1>1, AirTypes
  <2> QED BY <1>1, <2>1, <2>2, DropStep
<1> QED BY <1>2, <1>3, AirTypes DEF Fanout, Put

LEMMA ReceiveStreamStep ==
  ASSUME HubTypeOK, Receive(Client) PROVE StreamStep
<1>1. /\ queue[Client] # <<>> /\ queue'[Client] = Tail(queue[Client])
      /\ sent'[Client] = Append(sent[Client], Head(queue[Client]))
      /\ conn' = conn /\ conn[Client] = "streaming" /\ wire' = wire /\ UNCHANGED task
  BY LineTypes, AirTypes DEF Receive, redis
<1>2. Air # <<>> /\ Head(Air) = Head(queue[Client]) /\ Air' = Tail(Air)
  BY <1>1, AirTypes, TakeHead DEF Air
<1>3. Stream!Sends BY <1>1, <1>2 DEF Stream!Sends, Stream!task, task, Air
<1> QED BY <1>3 DEF StreamStep, Stream!StreamNext

LEMMA CloseStreamStep ==
  ASSUME HubTypeOK, Disconnect(Client) \/ Restart PROVE StreamStep
<1>1. conn \in [Conns -> ConnStates] /\ queue \in [Conns -> Seq(Events)] /\ sent \in [Conns -> Seq(Events)]
  BY HubTypeParts, LineTypes, AirTypes DEF ConnOK
<1>2. /\ queue'[Client] = <<>> /\ sent'[Client] = <<>> /\ UNCHANGED task
      /\ conn'[Client] # "streaming"
  BY <1>1, AirTypes DEF Disconnect, Restart, Moves, Listens, Listening
<1>3. CASE wire' = wire
  <2>1. Air' = AirCut(0, Len(queue[Client]))
    BY <1>2, <1>3, AirTypes, CutLeft DEF Air, AirCut
  <2>2. Len(queue[Client]) \in 0..Len(Air) BY AirTypes
  <2> QED BY <1>2, <2>1, <2>2, ShutStep
<1>4. CASE wire' = <<>>
  <2>1. Air' = <<>> BY <1>2, <1>4 DEF Air
  <2>2. AirCut(0, Len(Air)) = <<>> BY AirTypes DEF AirCut
  <2>3. Len(Air) \in 0..Len(Air) BY AirTypes
  <2> QED BY <1>2, <2>1, <2>2, <2>3, ShutStep
<1> QED BY <1>3, <1>4 DEF Disconnect, Restart, redis

LEMMA SetupStreamStep ==
  ASSUME HubTypeOK, Connect(Client) \/ LeaveEarly(Client) \/ Snapshot(Client) PROVE StreamStep
<1>1. conn \in [Conns -> ConnStates] BY HubTypeParts DEF ConnOK
<1>2. UNCHANGED <<task, redis, queue, sent>> /\ Air' = Air
  BY DEF Connect, LeaveEarly, Snapshot, ReadBook, ReadJobs, SnapshotFails, redis, Air
<1>3. conn[Client] # "streaming"
  BY DEF Connect, LeaveEarly, Snapshot, ReadBook, ReadJobs, SnapshotFails
<1>4. CASE conn'[Client] = "streaming" BY <1>2, <1>3, <1>4, OpenStep
<1>5. CASE conn'[Client] # "streaming" BY <1>2, <1>3, <1>5, StayStep
<1> QED BY <1>4, <1>5

LEMMA OthersStreamStep ==
  ASSUME HubTypeOK, NEW d \in Conns, d # Client,
         Connect(d) \/ Snapshot(d) \/ Receive(d) \/ Disconnect(d) \/ LeaveEarly(d)
  PROVE StreamStep
<1>1. /\ conn'[Client] = conn[Client] /\ queue'[Client] = queue[Client]
      /\ sent'[Client] = sent[Client] /\ UNCHANGED <<task, redis>>
  BY HubTypeParts, AirTypes
     DEF QueueOK, ConnOK, Connect, Snapshot, ReadBook, ReadJobs, SnapshotFails, Receive,
         Disconnect, LeaveEarly, Moves
<1>2. Air' = Air BY <1>1 DEF Air, redis
<1> QED BY <1>1, <1>2, StayStep

(* The hub implements the lossy stream in order, for any client of it and  *)
(* whatever the others do: every step of the hub is a step of the stream   *)
(* or changes nothing of it.                                               *)
THEOREM HubImplementsStream == HubSpec => ImplementsStream
<1>1. HubInit => Stream!StreamInit
  BY SizesAssumption DEF HubInit, TaskInit, Stream!StreamInit, Stream!TaskInit
<1>2. HubTypeOK /\ [HubNext]_hub => [Stream!StreamNext]_<<Stream!task, Stream!stream>>
  <2> SUFFICES ASSUME HubTypeOK, [HubNext]_hub PROVE StreamStep
    BY DEF StreamStep, Seen, Stream!task, Stream!stream, task, Air
  <2>1. CASE (TaskCommits \/ TaskFails) /\ UNCHANGED <<redis, conns>> BY <2>1, TaskStreamStep
  <2>2. CASE Publish BY <2>2, PublishStreamStep
  <2>3. CASE SubscriptionBreaks BY <2>3, BreakStreamStep
  <2>4. CASE Fanout BY <2>4, DispatchStreamStep
  <2>5. CASE Restart BY <2>5, CloseStreamStep
  <2>6. ASSUME NEW d \in Conns,
               Connect(d) \/ Snapshot(d) \/ Receive(d) \/ Disconnect(d) \/ LeaveEarly(d)
        PROVE StreamStep
    <3>1. CASE d = Client
      BY <2>6, <3>1, SetupStreamStep, ReceiveStreamStep, CloseStreamStep
    <3>2. CASE d # Client BY <2>6, <3>2, OthersStreamStep
    <3> QED BY <3>1, <3>2
  <2>7. CASE UNCHANGED hub
    <3>1. Air' = Air BY <2>7 DEF hub, redis, conns, Air
    <3> QED BY <2>7, <3>1, StayStep DEF hub, conns
  <2> QED
    BY <2>1, <2>2, <2>3, <2>4, <2>5, <2>6, <2>7 DEF HubNext, TaskStep, ServerStep
<1> QED BY <1>1, <1>2, HubTypes, PTL DEF HubSpec, ImplementsStream, Stream!StreamSpec

-----------------------------------------------------------------------------
(* BookView. *)

SourceOK == source \in {"timer", "open", "given up"} /\ (open => source = "open")
AttemptsOK == attempts \in 0..maxReconnectAttempts
CacheOK ==
  /\ view \in [Queries -> Versions \cup {None}]
  /\ fetch \in [Queries -> Versions \cup {None, Asked}]
CountsOK == failures \in 0..MaxFailures /\ told \in BOOLEAN

\* What an event may say when v is committed: the end only at the end.
TrueAt(v, e) == e \in Events /\ (e.kind = "job.terminal" => e.version = End /\ v = End)
AllTrue(v, s) == \A i \in DOMAIN s : TrueAt(v, s[i])
StreamOK ==
  /\ db \in Versions /\ open \in BOOLEAN
  /\ todo \in Seq(Events) /\ air \in Seq(Events)
  /\ AllTrue(db, todo) /\ AllTrue(db, air)
Settled ==
  /\ End \in {view["jobs"], fetch["jobs"]} => db = End
  /\ view["jobs"] = End => fetch["jobs"] \in {None, Asked, End}
Parts == SourceOK /\ AttemptsOK /\ CacheOK /\ CountsOK
ViewIInv == Parts /\ StreamOK /\ Settled

LEMMA ViewTypeParts == TypeOK <=> Parts
  BY DEF TypeOK, Parts, SourceOK, AttemptsOK, CacheOK, CountsOK

LEMMA Numbers ==
  /\ End \in Nat /\ End >= 3 /\ Versions = 0..End /\ End \in Versions
  /\ None \notin Versions /\ Asked \notin Versions /\ None # Asked
  /\ maxReconnectAttempts \in Nat /\ MaxFailures \in Nat
  BY ReportsAssumption, TabAssumption DEF End, Versions, None, Asked

LEMMA QueryNames == "book" \in Queries /\ "jobs" \in Queries
  BY DEF Queries
-----------------------------------------------------------------------------
(* The task and the stream. *)
LEMMA ShortTrue ==
  ASSUME NEW v, NEW e \in Events, NEW f \in Events, TrueAt(v, e), TrueAt(v, f)
  PROVE /\ AllTrue(v, <<>>) /\ <<>> \in Seq(Events)
        /\ AllTrue(v, <<e>>) /\ <<e>> \in Seq(Events)
        /\ AllTrue(v, <<e, f>>) /\ <<e, f>> \in Seq(Events)
<1>1. <<>> \in Seq(Events) /\ <<e>> \in Seq(Events) /\ <<e, f>> \in Seq(Events) OBVIOUS
<1>2. AllTrue(v, <<>>) BY DEF AllTrue
<1>3. AllTrue(v, <<e>>)
  <2>1. \A i \in DOMAIN <<e>> : <<e>>[i] = e OBVIOUS
  <2> QED BY <2>1 DEF AllTrue
<1>4. AllTrue(v, <<e, f>>)
  <2>1. \A i \in DOMAIN <<e, f>> : <<e, f>>[i] = e \/ <<e, f>>[i] = f OBVIOUS
  <2> QED BY <2>1 DEF AllTrue
<1> QED BY <1>1, <1>2, <1>3, <1>4

LEMMA CommitsTrue ==
  ASSUME StreamOK, TaskCommits \/ TaskFails, UNCHANGED stream
  PROVE StreamOK' /\ db' >= db /\ db < End
<1>1. db \in Nat /\ db < End /\ AllTrue(db, air)
  BY Numbers DEF StreamOK, TaskCommits, TaskFails
<1>2. db' \in Versions /\ db' >= db BY <1>1, Numbers DEF TaskCommits, TaskFails
<1>3. AllTrue(db', air) BY <1>1 DEF AllTrue, TrueAt
<1>4. todo' \in Seq(Events) /\ AllTrue(db', todo')
  <2>1. CASE TaskCommits
    <3> DEFINE e == Event(db + 1, "job.progress")
    <3>1. e \in Events BY <1>1, <1>2, <2>1 DEF TaskCommits, Event, Events, Kinds
    <3>2. e.kind # "job.terminal" BY DEF Event
    <3>3. todo' = <<e>> \/ todo' = <<>> BY <2>1 DEF TaskCommits
    <3> HIDE DEF e
    <3>4. TrueAt(db', e) BY <3>1, <3>2 DEF TrueAt
    <3> QED BY <3>1, <3>3, <3>4, ShortTrue
  <2>2. CASE TaskFails
    <3> DEFINE e == Event(End, "job.terminal")
               f == Event(End, "book.status_changed")
    <3>1. e \in Events /\ f \in Events BY Numbers DEF Event, Events, Kinds
    <3>2. e.version = End /\ f.version = End /\ db' = End BY <2>2 DEF Event, TaskFails
    <3>3. todo' = <<e, f>> \/ todo' = <<e>> BY <2>2 DEF TaskFails
    <3> HIDE DEF e, f
    <3>4. TrueAt(db', e) /\ TrueAt(db', f) BY <3>1, <3>2 DEF TrueAt
    <3> QED BY <3>1, <3>3, <3>4, ShortTrue
  <2> QED BY <2>1, <2>2
<1> QED BY <1>1, <1>2, <1>3, <1>4 DEF StreamOK, stream

LEMMA PublishesTrue == ASSUME StreamOK, Publishes PROVE StreamOK' /\ db' = db
<1>1. /\ todo \in Seq(Events) /\ todo # <<>> /\ todo' = Tail(todo) /\ db' = db /\ open' = open
      /\ air \in Seq(Events) /\ AllTrue(db, todo) /\ AllTrue(db, air)
  BY DEF StreamOK, Publishes, TaskPublishes
<1>2. TrueAt(db, Head(todo)) /\ AllTrue(db, Tail(todo)) /\ Head(todo) \in Events /\ Tail(todo) \in Seq(Events)
  BY <1>1 DEF AllTrue
<1>3. AllTrue(db, Append(air, Head(todo))) /\ Append(air, Head(todo)) \in Seq(Events)
  BY <1>1, <1>2 DEF AllTrue
<1>4. AllTrue(db, air') /\ air' \in Seq(Events) BY <1>1, <1>3 DEF Publishes
<1> QED BY <1>1, <1>2, <1>4 DEF StreamOK

\* What is left in the air of what was there is as true as before.
LEMMA TakenTrue ==
  ASSUME StreamOK, UNCHANGED task, open' \in BOOLEAN, air' \in Seq(Events),
         \A i \in DOMAIN air' : \E j \in DOMAIN air : air'[i] = air[j]
  PROVE StreamOK'
BY DEF StreamOK, AllTrue, task

LEMMA CutTrue ==
  ASSUME StreamOK, NEW i \in 0..Len(air), NEW j \in 0..Len(air)
  PROVE /\ AirWithout(i, j) \in Seq(Events)
        /\ \A k \in DOMAIN AirWithout(i, j) : \E l \in DOMAIN air : AirWithout(i, j)[k] = air[l]
<1> DEFINE s == SubSeq(air, 1, i)
           t == SubSeq(air, j + 1, Len(air))
<1>1. air \in Seq(Events) /\ Len(air) \in Nat /\ i \in Nat /\ j \in Nat /\ i <= Len(air) /\ j <= Len(air)
  BY DEF StreamOK
<1>2. /\ s \in Seq(Events) /\ Len(s) = i
      /\ \A k \in 1..i : s[k] = air[k]
  BY <1>1
<1>3. /\ t \in Seq(Events) /\ Len(t) = Len(air) - j
      /\ \A k \in 1..(Len(air) - j) : t[k] = air[j + k]
  <2>1. j + 1 \in Int /\ Len(air) \in Int /\ \A k \in (j + 1)..Len(air) : air[k] \in Events BY <1>1
  <2> QED BY <1>1, <2>1, SubSeqProperties
<1>4. AirWithout(i, j) = s \o t BY DEF AirWithout
<1> HIDE DEF s, t
<1>5. s \o t \in Seq(Events) /\ Len(s \o t) = i + (Len(air) - j)
  <2>1. s \o t \in Seq(Events) /\ Len(s \o t) = Len(s) + Len(t)
    BY <1>2, <1>3, ConcatProperties
  <2> QED BY <1>2, <1>3, <2>1
<1>6. ASSUME NEW k \in DOMAIN (s \o t) PROVE \E l \in DOMAIN air : (s \o t)[k] = air[l]
  <2>1. CASE k <= i
    <3>1. (s \o t)[k] = air[k] /\ k \in DOMAIN air BY <1>1, <1>2, <1>3, <1>5, <2>1
    <3> QED BY <3>1
  <2>2. CASE k > i
    <3>1. k - i \in 1..(Len(air) - j) /\ j + (k - i) \in DOMAIN air BY <1>1, <1>5, <2>2
    <3>2. (s \o t)[k] = t[k - i] BY <1>1, <1>2, <1>3, <1>5, <2>2
    <3> QED BY <1>3, <3>1, <3>2
  <2> QED BY <1>1, <1>5, <2>1, <2>2
<1> QED BY <1>4, <1>5, <1>6

LEMMA DropsTrue == ASSUME StreamOK, Drops PROVE StreamOK' /\ db' = db
<1>1. PICK i \in 0..Len(air), j \in 0..Len(air) : air' = AirWithout(i, j) BY DEF Drops
<1> QED BY <1>1, CutTrue, TakenTrue DEF Drops, StreamOK, task

LEMMA ShutsTrue == ASSUME StreamOK, Shuts PROVE StreamOK' /\ db' = db
<1>1. PICK i \in 0..Len(air) : air' = AirWithout(0, i) BY DEF Shuts
<1>2. 0 \in 0..Len(air) BY DEF StreamOK
<1> QED BY <1>1, <1>2, CutTrue, TakenTrue DEF Shuts, task

LEMMA SendsTrue == ASSUME StreamOK, Sends PROVE StreamOK' /\ db' = db /\ TrueAt(db, Head(air))
<1>1. air \in Seq(Events) /\ air # <<>> /\ air' = Tail(air) /\ AllTrue(db, air)
  BY DEF StreamOK, Sends
<1>2. TrueAt(db, Head(air)) BY <1>1 DEF AllTrue
<1>3. AllTrue(db, Tail(air)) /\ Tail(air) \in Seq(Events) BY <1>1 DEF AllTrue
<1> QED BY <1>1, <1>2, <1>3 DEF StreamOK, Sends, task
-----------------------------------------------------------------------------
(* The cache. *)
LEMMA InvalidateTypes ==
  ASSUME NEW Q \in SUBSET Queries, Invalidate(Q),
         fetch \in [Queries -> Versions \cup {None, Asked}]
  PROVE /\ fetch' \in [Queries -> Versions \cup {None, Asked}]
        /\ \A q \in Queries : fetch'[q] = fetch[q] \/ fetch'[q] = Asked
        /\ \A q \in Q : Loaded(q) => fetch'[q] = Asked
BY DEF Invalidate, KeepsFetch

LEMMA AnswerStep ==
  ASSUME ViewIInv, NEW q \in Queries, Answer(q) PROVE ViewIInv'
<1>1. db \in Versions /\ fetch \in [Queries -> Versions \cup {None, Asked}]
  BY DEF ViewIInv, Parts, CacheOK, StreamOK
<1>2. CacheOK' BY <1>1 DEF ViewIInv, Parts, CacheOK, Answer
<1>3. Settled' BY <1>1, QueryNames DEF ViewIInv, Settled, Answer, task
<1> QED BY <1>2, <1>3
     DEF ViewIInv, Parts, SourceOK, AttemptsOK, CountsOK, StreamOK, Answer, task, stream

LEMMA ApplyStep ==
  ASSUME ViewIInv, NEW q \in Queries, Apply(q) PROVE ViewIInv' /\ (view["jobs"] = End => view'["jobs"] = End)
<1>1. /\ db \in Versions /\ fetch[q] \in Versions
      /\ fetch \in [Queries -> Versions \cup {None, Asked}]
      /\ view \in [Queries -> Versions \cup {None}]
  BY DEF ViewIInv, Parts, CacheOK, StreamOK, Apply
<1>2. CacheOK' BY <1>1 DEF CacheOK, Apply
<1>3. Settled' /\ (view["jobs"] = End => view'["jobs"] = End)
  <2>1. CASE q = "jobs"
    <3>1. view'["jobs"] = fetch["jobs"] /\ fetch'["jobs"] = None /\ db' = db
      BY <1>1, <2>1 DEF Apply, task
    <3>2. view["jobs"] = End => fetch["jobs"] = End
      BY <1>1, <2>1, Numbers DEF ViewIInv, Settled
    <3> QED BY <3>1, <3>2, Numbers DEF ViewIInv, Settled
  <2>2. CASE q # "jobs"
    <3>1. view'["jobs"] = view["jobs"] /\ fetch'["jobs"] = fetch["jobs"] /\ db' = db
      BY <1>1, <2>2, QueryNames DEF Apply, task
    <3> QED BY <3>1 DEF ViewIInv, Settled
  <2> QED BY <2>1, <2>2
<1> QED BY <1>2, <1>3
     DEF ViewIInv, Parts, SourceOK, AttemptsOK, CountsOK, StreamOK, Apply, task, stream

LEMMA FetchFailsStep ==
  ASSUME ViewIInv, NEW q \in Queries, FetchFails(q) PROVE ViewIInv'
<1>1. /\ fetch \in [Queries -> Versions \cup {None, Asked}]
      /\ failures \in Nat /\ failures + 1 \in 0..MaxFailures /\ told \in BOOLEAN
  BY Numbers DEF ViewIInv, Parts, CacheOK, CountsOK, FetchFails
<1>2. CacheOK' BY <1>1 DEF ViewIInv, Parts, CacheOK, FetchFails
<1>3. CountsOK' BY <1>1 DEF CountsOK, FetchFails
<1>4. Settled' BY <1>1, QueryNames, Numbers DEF ViewIInv, Settled, FetchFails, task
<1> QED BY <1>2, <1>3, <1>4
     DEF ViewIInv, Parts, SourceOK, AttemptsOK, StreamOK, FetchFails, task, stream

LEMMA PollStep == ASSUME ViewIInv, PollJobs PROVE ViewIInv'
<1>1. fetch \in [Queries -> Versions \cup {None, Asked}]
  BY DEF ViewIInv, Parts, CacheOK
<1>2. CacheOK' BY <1>1 DEF ViewIInv, Parts, CacheOK, PollJobs
<1>3. Settled' BY <1>1, QueryNames, Numbers DEF ViewIInv, Settled, PollJobs, task
<1> QED BY <1>2, <1>3
     DEF ViewIInv, Parts, SourceOK, AttemptsOK, CountsOK, StreamOK, PollJobs, task, stream
-----------------------------------------------------------------------------
(* The event source. *)
LEMMA SourceStep == ASSUME ViewIInv, Connects \/ Breaks PROVE ViewIInv'
<1>1. StreamOK' BY DEF ViewIInv, StreamOK, Connects, Breaks, Opens, task, stream
<1>2. SourceOK'
  <2>1. CASE Connects BY <2>1 DEF SourceOK, Connects
  <2>2. CASE Breaks
    <3>1. ~open /\ open' = open /\ source' \in {"timer", "given up"}
      BY <2>2 DEF ViewIInv, Parts, SourceOK, Breaks, stream
    <3> QED BY <3>1 DEF SourceOK
  <2> QED BY <2>1, <2>2
<1>3. AttemptsOK'
  <2>1. attempts \in Nat /\ attempts <= maxReconnectAttempts /\ maxReconnectAttempts \in Nat
    BY Numbers DEF ViewIInv, Parts, AttemptsOK
  <2>2. attempts' = 0 \/ attempts' = attempts \/ (attempts < maxReconnectAttempts /\ attempts' = attempts + 1)
    <3>1. CASE Connects BY <3>1 DEF Connects
    <3>2. CASE Breaks /\ AttemptsLeft BY <3>2, Zenon DEF Breaks, AttemptsLeft
    <3>3. CASE Breaks /\ ~AttemptsLeft BY <3>3, Zenon DEF Breaks
    <3> QED BY <3>1, <3>2, <3>3
  <2> QED BY <2>1, <2>2 DEF AttemptsOK
<1>4. CacheOK' /\ CountsOK' /\ Settled'
  BY DEF ViewIInv, Parts, CacheOK, CountsOK, Settled, Connects, Breaks, Opens, cache, task
<1> QED BY <1>1, <1>2, <1>3, <1>4 DEF ViewIInv, Parts

LEMMA RemountStep == ASSUME ViewIInv, Remounts PROVE ViewIInv'
<1>1. StreamOK' /\ db' = db BY ShutsTrue DEF ViewIInv, Remounts
<1>2. SourceOK' BY DEF SourceOK, Remounts, Shuts
<1>3. AttemptsOK' BY Numbers DEF AttemptsOK, Remounts
<1>4. PICK Stale \in SUBSET Queries :
        fetch' = [q \in Queries |-> IF q \in Stale /\ fetch[q] = None THEN Asked ELSE fetch[q]]
  BY DEF Remounts
<1>5. CacheOK' /\ CountsOK' BY <1>4 DEF ViewIInv, Parts, CacheOK, CountsOK, Remounts
<1>6. fetch'["jobs"] = fetch["jobs"] \/ fetch'["jobs"] = Asked BY <1>4, QueryNames
<1>7. Settled' BY <1>1, <1>6, Numbers DEF ViewIInv, Settled, Remounts
<1> QED BY <1>1, <1>2, <1>3, <1>5, <1>7 DEF ViewIInv, Parts

LEMMA ReceiveStep ==
  ASSUME ViewIInv, Receives PROVE ViewIInv' /\ (view["jobs"] = End => view'["jobs"] = End)
<1> DEFINE e == Head(air)
<1>1. StreamOK' /\ db' = db /\ TrueAt(db, e) BY SendsTrue DEF ViewIInv, Receives
<1>2. Dispatch(e) BY DEF Receives
<1>3. SourceOK' /\ AttemptsOK' /\ failures' = failures
  BY DEF ViewIInv, Parts, SourceOK, AttemptsOK, Receives, Sends
<1>4. /\ view \in [Queries -> Versions \cup {None}]
      /\ fetch \in [Queries -> Versions \cup {None, Asked}]
      /\ failures \in 0..MaxFailures /\ told \in BOOLEAN
  BY DEF ViewIInv, Parts, CacheOK, CountsOK
<1> HIDE DEF e
<1>5. CASE UNCHANGED <<cache, told>>
  BY <1>1, <1>3, <1>4, <1>5 DEF ViewIInv, Parts, CacheOK, CountsOK, Settled, cache
<1>6. CASE /\ e.kind = "job.terminal"
           /\ view' = IF Loaded("jobs") THEN [view EXCEPT !["jobs"] = e.version] ELSE view
           /\ Invalidate({"jobs"}) /\ UNCHANGED told
  <2>1. e.version = End /\ db = End BY <1>1, <1>6 DEF TrueAt
  <2>2. /\ fetch' \in [Queries -> Versions \cup {None, Asked}]
        /\ fetch'["jobs"] = fetch["jobs"] \/ fetch'["jobs"] = Asked
        /\ Loaded("jobs") => fetch'["jobs"] = Asked
    <3>1. {"jobs"} \in SUBSET Queries BY DEF Queries
    <3> QED BY <1>4, <1>6, <3>1, InvalidateTypes, QueryNames
  <2>3. CASE Loaded("jobs")
    <3>1. view' = [view EXCEPT !["jobs"] = End] BY <1>6, <2>1, <2>3
    <3>2. view' \in [Queries -> Versions \cup {None}] /\ view'["jobs"] = End
      BY <1>4, <3>1, Numbers, QueryNames
    <3>3. Settled' BY <1>1, <2>1, <2>2, <2>3 DEF Settled
    <3> QED BY <1>1, <1>3, <1>4, <1>6, <2>2, <3>2, <3>3 DEF ViewIInv, Parts, CacheOK, CountsOK
  <2>4. CASE ~Loaded("jobs")
    <3>1. view' = view BY <1>6, <2>4
    <3>2. view["jobs"] # End BY <2>4, Numbers DEF Loaded
    <3>3. Settled' BY <1>1, <2>1, <3>1, <3>2 DEF Settled
    <3> QED BY <1>1, <1>3, <1>4, <1>6, <2>2, <3>1, <3>3 DEF ViewIInv, Parts, CacheOK, CountsOK
  <2> QED BY <2>3, <2>4
<1>7. CASE Invalidate(Queries) /\ told' = Loaded("book") /\ UNCHANGED view
  <2>1. /\ fetch' \in [Queries -> Versions \cup {None, Asked}]
        /\ fetch'["jobs"] = fetch["jobs"] \/ fetch'["jobs"] = Asked
    BY <1>4, <1>7, InvalidateTypes, QueryNames
  <2>2. told' \in BOOLEAN BY <1>7 DEF Loaded
  <2>3. Settled' BY <1>1, <1>7, <2>1, Numbers DEF ViewIInv, Settled
  <2> QED BY <1>1, <1>3, <1>4, <1>7, <2>1, <2>2, <2>3 DEF ViewIInv, Parts, CacheOK, CountsOK
<1> QED BY <1>2, <1>5, <1>6, <1>7 DEF Dispatch
-----------------------------------------------------------------------------
LEMMA OutsideKeeps == ASSUME ViewIInv, OutsideStep PROVE ViewIInv' /\ UNCHANGED view
<1>1. StreamOK' /\ (db = End => db' = End)
  <2>1. CASE (TaskCommits \/ TaskFails) /\ UNCHANGED stream
    BY <2>1, CommitsTrue, Numbers DEF ViewIInv, StreamOK
  <2>2. CASE Publishes BY <2>2, PublishesTrue DEF ViewIInv
  <2>3. CASE Drops BY <2>3, DropsTrue DEF ViewIInv
  <2>4. CASE Shuts BY <2>4, ShutsTrue DEF ViewIInv
  <2> QED BY <2>1, <2>2, <2>3, <2>4 DEF OutsideStep
<1>2. /\ open' => open
      /\ UNCHANGED <<source, attempts, view, fetch, failures, told>>
  BY DEF OutsideStep, stream, Publishes, Drops, Shuts, cache
<1> QED BY <1>1, <1>2
     DEF ViewIInv, Parts, SourceOK, AttemptsOK, CacheOK, CountsOK, Settled

LEMMA ViewIInvInit == Init => ViewIInv
<1> SUFFICES ASSUME Init PROVE ViewIInv OBVIOUS
<1>1. StreamOK
  <2>1. db \in Versions /\ open \in BOOLEAN /\ todo = <<>> /\ air = <<>>
    <3>1. db = 0 /\ todo = <<>> /\ air = <<>> BY DEF Init, StreamInit, TaskInit
    <3>2. open \in BOOLEAN BY DEF Init, StreamInit
    <3> QED BY <3>1, <3>2, Numbers
  <2>2. todo \in Seq(Events) /\ air \in Seq(Events) BY <2>1
  <2>3. AllTrue(db, <<>>) BY DEF AllTrue
  <2> QED BY <2>1, <2>2, <2>3 DEF StreamOK
<1>2. SourceOK BY DEF Init, StreamInit, SourceOK
<1>3. AttemptsOK /\ CountsOK
  <2>1. attempts = 0 /\ failures = 0 BY DEF Init
  <2>2. told \in BOOLEAN BY DEF Init
  <2> QED BY <2>1, <2>2, Numbers DEF AttemptsOK, CountsOK
<1>4. CacheOK BY DEF Init, CacheOK
<1>5. Settled
  <2>1. view["jobs"] = None /\ fetch["jobs"] = Asked BY QueryNames DEF Init
  <2> QED BY <2>1, Numbers DEF Settled
<1> QED BY <1>1, <1>2, <1>3, <1>4, <1>5 DEF ViewIInv, Parts

LEMMA ViewStepKeeps ==
  ASSUME ViewIInv, [Next]_vars PROVE ViewIInv' /\ (view["jobs"] = End => view'["jobs"] = End)
<1>1. CASE UNCHANGED vars
  BY <1>1 DEF ViewIInv, Parts, SourceOK, AttemptsOK, CacheOK, CountsOK, StreamOK, Settled,
              vars, cache, task, stream
<1>2. CASE OutsideStep BY <1>2, OutsideKeeps
<1>3. CASE Connects \/ Breaks BY <1>3, SourceStep DEF Connects, Breaks, cache
<1>4. CASE Remounts BY <1>4, RemountStep DEF Remounts
<1>5. CASE Receives BY <1>5, ReceiveStep
<1>6. CASE PollJobs BY <1>6, PollStep DEF PollJobs
<1>7. ASSUME NEW q \in Queries, Answer(q) \/ Apply(q) \/ FetchFails(q)
      PROVE ViewIInv' /\ (view["jobs"] = End => view'["jobs"] = End)
  <2>1. CASE Answer(q) BY <2>1, AnswerStep DEF Answer
  <2>2. CASE Apply(q) BY <2>2, ApplyStep
  <2>3. CASE FetchFails(q) BY <2>3, FetchFailsStep DEF FetchFails
  <2> QED BY <1>7, <2>1, <2>2, <2>3
<1> QED BY <1>1, <1>2, <1>3, <1>4, <1>5, <1>6, <1>7 DEF Next, TabStep

(* What the other two rest on. *)
THEOREM ViewInvariance == Spec => []ViewIInv
<1>1. ViewIInv /\ [Next]_vars => ViewIInv' BY ViewStepKeeps
<1> QED BY <1>1, ViewIInvInit, PTL DEF Spec

(* TypeOK for any number of reports, attempts and failures: among it that *)
(* a stream is open only while the tab holds it open, and that the        *)
(* attempts to reconnect stay within their bound (connect of useSSE).     *)
THEOREM ViewTypes == Spec => []TypeOK
<1>1. ViewIInv => TypeOK BY ViewTypeParts DEF ViewIInv
<1> QED BY <1>1, ViewInvariance, PTL

(* A job shown as ended is not shown as running again, whatever answers   *)
(* were under way when the event came (dispatch, handleJobFailed).        *)
THEOREM EndedStays == Spec => EndedStaysShown
<1>1. ViewIInv /\ [Next]_vars => [view["jobs"] = End => view'["jobs"] = End]_vars BY ViewStepKeeps
<1> QED BY <1>1, ViewInvariance, PTL DEF Spec, EndedStaysShown
=============================================================================
