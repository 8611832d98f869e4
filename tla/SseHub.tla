------------------------------- MODULE SseHub -------------------------------
(***************************************************************************)
(* The SSE hub of the API process and what feeds it: an extraction task    *)
(* that commits and then publishes, Redis pub/sub, the dispatcher that     *)
(* puts each message in the queue of every connection to the book, and     *)
(* the generator of a connection, which reads a snapshot and then its      *)
(* queue.                                                                  *)
(*                                                                         *)
(* The state of the book and its job is the number of commits of the task; *)
(* an event carries the number of the commit it tells of.                  *)
(***************************************************************************)
EXTENDS TaskEvents, SequencesExt

CONSTANTS
  Conns,           \* the connections of a behaviour; each is opened once
  Client,          \* any one of them
  QUEUE_MAX_SIZE,
  MaxLosses        \* bound: failures of Redis and restarts of the server

ASSUME SizesAssumption ==
  /\ Client \in Conns
  /\ QUEUE_MAX_SIZE \in Nat \ {0} /\ MaxLosses \in Nat

VARIABLES
  published,  \* every event published so far
  wire,       \* published and not yet dispatched
  lost,       \* the events lost between publisher and dispatcher
  losses,     \* failures so far
  conn,       \* the state of each connection
  queue,      \* its asyncio.Queue
  snap,       \* the commits its snapshot covers, by row
  sent,       \* the events it has been sent
  missed      \* the events dropped at its full queue
redis == <<published, wire, lost, losses>>
conns == <<conn, queue, snap, sent, missed>>
hub == <<task, redis, conns>>

About(e) == IF e.kind = "book.status_changed" THEN "book" ELSE "jobs"

\* In "left" the response ended before its generator began, and so before the
\* finally clause that removes the queue.
ConnStates == {"none", "registered", "book_read", "streaming", "left", "closed"}
\* Mutation: the queue is registered after the snapshot has been read.
ListeningLate == {"streaming", "left"}
Listening == {"registered", "book_read", "streaming", "left"}
Listens(c) == conn[c] \in Listening
NoSnapshot == [book |-> -1, jobs |-> -1]

HubInit ==
  /\ TaskInit
  /\ published = {} /\ wire = <<>> /\ lost = {} /\ losses = 0
  /\ conn = [c \in Conns |-> "none"]
  /\ queue = [c \in Conns |-> <<>>]
  /\ snap = [c \in Conns |-> NoSnapshot]
  /\ sent = [c \in Conns |-> <<>>] /\ missed = [c \in Conns |-> {}]
-----------------------------------------------------------------------------
(* From the task to the dispatcher. *)
Loses == losses < MaxLosses /\ losses' = losses + 1
Publish ==
  /\ TaskPublishes
  /\ published' = published \cup {Head(todo)}
  /\ \/ wire' = Append(wire, Head(todo)) /\ UNCHANGED <<lost, losses>>
     \/ Loses /\ lost' = lost \cup {Head(todo)} /\ UNCHANGED wire
  /\ UNCHANGED conns
\* The subscription breaks; the loop starts again after a second.
SubscriptionBreaks ==
  /\ Loses
  /\ lost' = lost \cup ToSet(wire) /\ wire' = <<>>
  /\ UNCHANGED <<task, published, conns>>

Full(c) == Len(queue[c]) >= QUEUE_MAX_SIZE
Skips(c) == Full(c)
\* Mutation: the queue is served from the other end.
PutFirst(q, e) == <<e>> \o q
Put(q, e) == Append(q, e)
Fanout ==
  /\ wire # <<>>
  /\ wire' = Tail(wire)
  /\ queue' = [c \in Conns |-> IF Listens(c) /\ ~Skips(c) THEN Put(queue[c], Head(wire))
                               ELSE queue[c]]
  /\ missed' = [c \in Conns |-> IF Listens(c) /\ Skips(c) THEN missed[c] \cup {Head(wire)}
                                ELSE missed[c]]
  /\ UNCHANGED <<task, published, lost, losses, conn, snap, sent>>
-----------------------------------------------------------------------------
(* A connection. *)
Moves(c, st) == conn' = [conn EXCEPT ![c] = st]
Connect(c) ==
  /\ conn[c] = "none" /\ Moves(c, "registered")
  /\ UNCHANGED <<task, redis, queue, snap, sent, missed>>
\* The snapshot is two reads; another transaction may commit in between.
ReadBook(c) ==
  /\ conn[c] = "registered" /\ Moves(c, "book_read")
  /\ snap' = [snap EXCEPT ![c].book = db]
  /\ UNCHANGED <<task, redis, queue, sent, missed>>
ReadJobs(c) ==
  /\ conn[c] = "book_read" /\ Moves(c, "streaming")
  /\ snap' = [snap EXCEPT ![c].jobs = db]
  /\ UNCHANGED <<task, redis, queue, sent, missed>>
\* A database error makes the snapshot an empty one.
SnapshotFails(c) ==
  /\ conn[c] \in {"registered", "book_read"} /\ Moves(c, "streaming")
  /\ snap' = [snap EXCEPT ![c] = NoSnapshot]
  /\ UNCHANGED <<task, redis, queue, sent, missed>>
Receive(c) ==
  /\ conn[c] = "streaming" /\ queue[c] # <<>>
  /\ queue' = [queue EXCEPT ![c] = Tail(@)]
  /\ sent' = [sent EXCEPT ![c] = Append(@, Head(queue[c]))]
  /\ UNCHANGED <<task, redis, conn, snap, missed>>
Disconnect(c) ==
  /\ conn[c] \in {"registered", "book_read", "streaming"} /\ Moves(c, "closed")
  /\ queue' = [queue EXCEPT ![c] = <<>>]
  /\ snap' = [snap EXCEPT ![c] = NoSnapshot]
  /\ sent' = [sent EXCEPT ![c] = <<>>] /\ missed' = [missed EXCEPT ![c] = {}]
  /\ UNCHANGED <<task, redis>>
LeaveEarly(c) ==
  /\ conn[c] = "registered" /\ Moves(c, "left")
  /\ UNCHANGED <<task, redis, queue, snap, sent, missed>>

\* The API process is replaced.
Restart ==
  /\ Loses
  /\ conn' = [c \in Conns |-> IF Listens(c) THEN "closed" ELSE conn[c]]
  /\ queue' = [c \in Conns |-> <<>>] /\ snap' = [c \in Conns |-> NoSnapshot]
  /\ sent' = [c \in Conns |-> <<>>] /\ missed' = [c \in Conns |-> {}]
  /\ lost' = lost \cup ToSet(wire) /\ wire' = <<>>
  /\ UNCHANGED <<task, published>>

TaskStep ==
  \/ (TaskCommits \/ TaskFails) /\ UNCHANGED <<redis, conns>>
  \/ Publish
ServerStep == SubscriptionBreaks \/ Fanout \/ Restart
Snapshot(c) == ReadBook(c) \/ ReadJobs(c) \/ SnapshotFails(c)
HubNext ==
  \/ TaskStep \/ ServerStep
  \/ \E c \in Conns : Connect(c) \/ Snapshot(c) \/ Receive(c) \/ Disconnect(c) \/ LeaveEarly(c)

HubSpec == HubInit /\ [][HubNext]_hub
-----------------------------------------------------------------------------
HubTypeOK ==
  /\ db \in Versions /\ todo \in Seq(Events)
  /\ published \subseteq Events /\ wire \in Seq(Events) /\ lost \subseteq Events
  /\ losses \in 0..MaxLosses
  /\ conn \in [Conns -> ConnStates]
  /\ queue \in [Conns -> Seq(Events)]
  /\ \A c \in Conns : Len(queue[c]) <= QUEUE_MAX_SIZE
  /\ snap \in [Conns -> [book : Versions \cup {-1}, jobs : Versions \cup {-1}]]
  /\ sent \in [Conns -> Seq(Events)] /\ missed \in [Conns -> SUBSET Events]

(* The promise to a client, for whichever Client stands: what waits in its *)
(* queue is under way to it before what waits in Redis.                    *)
Stream == INSTANCE SseStream WITH
  air <- queue[Client] \o wire, open <- conn[Client] = "streaming", got <- sent[Client]
ImplementsStream == Stream!StreamSpec

(* A client is never sent older news after newer, nor the same twice,      *)
(* and what is on its way to it is newer than what it has.                 *)
EventsInOrder == \A c \in Conns : Increasing(sent[c] \o queue[c] \o wire \o todo)

(* Nothing falls between the snapshot and the stream (connect registers    *)
(* the queue before it reads): an event is covered by the snapshot, still  *)
(* under way, received, or lost in one of the two ways the code logs.      *)
Accounted(c, e) ==
  \/ e.version <= snap[c][About(e)]
  \/ e \in ToSet(wire) \cup ToSet(queue[c]) \cup ToSet(sent[c]) \cup missed[c] \cup lost
NothingBetween ==
  \A c \in Conns : conn[c] = "streaming" /\ snap[c] # NoSnapshot =>
    \A e \in published : Accounted(c, e)
=============================================================================
