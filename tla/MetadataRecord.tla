--------------------------- MODULE MetadataRecord ---------------------------
(***************************************************************************)
(* The metadata row and the evidence rows of each book, and the            *)
(* transactions that read and write them: a human edit (PUT metadata), a   *)
(* CSV import, the end of an extraction task, and the two admin operations *)
(* that clear a book.  A step is one statement with the row locks that     *)
(* PostgreSQL (READ COMMITTED) takes for it, or a commit.  The session of  *)
(* a transaction keeps its own copy of a row from the first read on.       *)
(***************************************************************************)
EXTENDS Naturals, Sequences, FiniteSets

CONSTANTS
  Books,
  Fields,       \* names of metadata fields
  BookColumns,  \* fields that an import takes for columns of the book (title, language)
  Edits, Imports, Extractions, \* transactions that write values; each runs once
  Reruns, Resets,              \* transactions of the admin service
  MaxTx,        \* bound: so many of them begin
  NoBook, Nobody, NoValue

Clears  == Reruns \cup Resets
Writers == Edits \cup Imports \cup Extractions
Tx      == Writers \cup Clears

ASSUME DistinctTransactions ==
  /\ Edits \cap Imports = {} /\ Edits \cap Extractions = {} /\ Imports \cap Extractions = {}
  /\ Clears \cap Writers = {} /\ Reruns \cap Resets = {}
  /\ NoBook \notin Books /\ Nobody \notin Tx /\ NoValue \notin Tx /\ BookColumns \subseteq Fields

\* A value is the transaction that wrote it.  A stored record is a partial
\* function: extraction stores null for what it has not found, an edit leaves
\* a key out.  A row is known by who inserted it, as it is by its id.
Values  == Writers \cup {NoValue}
Records == UNION {[S -> Values] : S \in SUBSET Fields}
Empty   == [f \in {} |-> NoValue]
Absent  == [by |-> Nobody, fields |-> Empty]
Rows    == [by : Writers, fields : Records] \cup {Absent}

VARIABLES
  row,       \* metadata: the committed row of each book
  evidence,  \* metadata_field_evidence: committed, by field; the extraction that wrote it
  job,       \* the job row of each extraction
  at,        \* how far each transaction is
  book,      \* the book its current statement is about
  given,     \* the fields it provides
  todo,      \* the books of the CSV rows an import has still to read
  overwrite, \* the mode of an import
  own,       \* its session's copy of the row of each book
  known,     \* the evidence rows an extraction's session has read
  locks,     \* the metadata rows it has locked, by book
  evLocks,   \* the evidence rows of its book it has locked, by field
  jobLocks   \* the job rows it has locked
db   == <<row, evidence, job>>
data == <<given, todo, overwrite>>
lcks == <<locks, evLocks, jobLocks>>
vars == <<row, evidence, job, at, book, given, todo, overwrite, own, known, locks, evLocks, jobLocks>>

Init ==
  /\ row = [b \in Books |-> Absent]
  /\ evidence = [b \in Books |-> [f \in {} |-> NoValue]]
  /\ job = [x \in Extractions |-> "active"]
  /\ at = [t \in Tx |-> "idle"] /\ book = [t \in Tx |-> NoBook]
  /\ given = [t \in Tx |-> {}] /\ todo = [t \in Tx |-> <<>>]
  /\ overwrite = [t \in Tx |-> FALSE]
  /\ own = [t \in Tx |-> [b \in Books |-> Absent]]
  /\ known = [t \in Tx |-> {}]
  /\ locks = [t \in Tx |-> {}] /\ evLocks = [t \in Tx |-> {}] /\ jobLocks = [t \in Tx |-> {}]

-----------------------------------------------------------------------------
\* dict.update of a stored record.
Updated(old, new) ==
  [f \in DOMAIN old \cup DOMAIN new |-> IF f \in DOMAIN new THEN new[f] ELSE old[f]]
Provided(t, S) == [f \in S |-> t]
\* Mutation: the record is assigned to a row that was never created.
InsertedNowhere(t, rec) == [Absent EXCEPT !.fields = rec]
Inserted(t, rec) == [by |-> t, fields |-> rec]

(***************************************************************************)
(* Locks.  A statement waits for whoever holds a row it needs; a lookup    *)
(* for update of a row that is not committed finds nothing and does not    *)
(* wait, an insertion waits for another insertion of the same book.        *)
(***************************************************************************)
RowHolders(t, b) == {u \in Tx \ {t} : b \in locks[u]}
EvidenceHolders(t, S) == {u \in Tx \ {t} : book[u] = book[t] /\ evLocks[u] \cap S # {}}
JobHolders(t, X) == {u \in Tx \ {t} : jobLocks[u] \cap X # {}}

ActiveOn(b)  == {x \in Extractions : book[x] = b /\ job[x] = "active"}
JobsOf(b)    == {x \in Extractions : book[x] = b /\ job[x] # "gone"}
\* The run records of an extraction refer to its job and keep it from deletion.
Referring(b) == {x \in Extractions : book[x] = b /\ at[x] = "recorded"}

Rewritten(t) == known[t] \cap given[t]
Locking   == Edits \cup Extractions   \* they read the row for update
NeedsRow(t) ==
  \/ at[t] = "begun" /\ t \in Locking /\ row[book[t]] # Absent
  \/ at[t] = "read"
  \/ at[t] = "evidence" /\ row[book[t]] # Absent
NeedsEvidence(t) ==
  CASE at[t] = "flushed"  -> Rewritten(t)
    [] at[t] = "deleting" -> known[t] \cap DOMAIN evidence[book[t]]
    [] OTHER              -> {}
NeedsJobs(t) ==
  CASE at[t] = "begun" /\ t \in Clears    -> ActiveOn(book[t])
    [] at[t] = "cleared" /\ t \in Resets  -> JobsOf(book[t])
    [] at[t] = "recorded"                 -> {t}
    [] OTHER                              -> {}
WaitsFor(t) ==
  (IF NeedsRow(t) THEN RowHolders(t, book[t]) ELSE {})
  \cup EvidenceHolders(t, NeedsEvidence(t)) \cup JobHolders(t, NeedsJobs(t))
  \cup (IF at[t] = "cleared" /\ t \in Resets THEN Referring(book[t]) ELSE {})
Ready(t, step) == at[t] = step /\ WaitsFor(t) = {}

Goto(t, step) == at' = [at EXCEPT ![t] = step]
Written(t) == row' = [b \in Books |-> IF b \in locks[t] THEN own[t][b] ELSE row[b]]

\* The transaction ends and its session with it.  Mutation: an error leaves the
\* session open, and its locks taken.
CloseNotOnError(t, outcome) ==
  /\ Goto(t, outcome)
  /\ IF outcome = "failed" THEN UNCHANGED lcks
     ELSE /\ locks' = [locks EXCEPT ![t] = {}]
          /\ evLocks' = [evLocks EXCEPT ![t] = {}]
          /\ jobLocks' = [jobLocks EXCEPT ![t] = {}]
  /\ UNCHANGED <<book, own, known>> /\ UNCHANGED data
Close(t, outcome) ==
  /\ Goto(t, outcome)
  /\ own' = [own EXCEPT ![t] = [b \in Books |-> Absent]]
  /\ known' = [known EXCEPT ![t] = {}]
  /\ given' = [given EXCEPT ![t] = {}]
  /\ todo' = [todo EXCEPT ![t] = <<>>]
  /\ overwrite' = [overwrite EXCEPT ![t] = FALSE]
  /\ locks' = [locks EXCEPT ![t] = {}]
  /\ evLocks' = [evLocks EXCEPT ![t] = {}]
  /\ jobLocks' = [jobLocks EXCEPT ![t] = {}]
  /\ book' = [book EXCEPT ![t] = IF t \in Extractions THEN @ ELSE NoBook]
\* Mutation: the error is caught and the session committed.
RollbackCommits(t) == Close(t, "failed") /\ Written(t) /\ UNCHANGED <<evidence, job>>
Rollback(t) == Close(t, "failed") /\ UNCHANGED db

-----------------------------------------------------------------------------
(***************************************************************************)
(* Writing the row.  An insertion fails when the book has a row by then    *)
(* (book_id is unique), an update when the row it read is gone.            *)
(***************************************************************************)
Flush(t, b, fresh, changed) ==
  IF IF own[t][b] = Absent THEN row[b] # Absent ELSE row[b].by # own[t][b].by
    THEN Rollback(t)
    ELSE /\ own' = [own EXCEPT ![t][b] = IF @ = Absent THEN Inserted(t, fresh)
                                         ELSE [@ EXCEPT !.fields = changed]]
         /\ locks' = [locks EXCEPT ![t] = @ \cup {b}]
         /\ known' = [known EXCEPT ![t] = IF t \in Extractions THEN DOMAIN evidence[b] ELSE @]
         /\ Goto(t, IF t \in Imports THEN "begun" ELSE "flushed")
         /\ UNCHANGED <<row, evidence, job, book, evLocks, jobLocks>> /\ UNCHANGED data

\* SELECT ... FOR UPDATE.  Mutation: a plain SELECT.
ReadUnlocked(t) ==
  /\ at[t] = "begun" /\ t \in Locking
  /\ own' = [own EXCEPT ![t][book[t]] = row[book[t]]]
  /\ Goto(t, "read")
  /\ UNCHANGED <<row, evidence, job, book, known, locks, evLocks, jobLocks>> /\ UNCHANGED data
ReadForUpdate(t) ==
  /\ Ready(t, "begun") /\ t \in Locking
  /\ own' = [own EXCEPT ![t][book[t]] = row[book[t]]]
  /\ locks' = [locks EXCEPT ![t] = IF row[book[t]] = Absent THEN @ ELSE {book[t]}]
  /\ Goto(t, "read")
  /\ UNCHANGED <<row, evidence, job, book, known, evLocks, jobLocks>> /\ UNCHANGED data

\* Transactions of a kind are alike until they begin: they do so in one order.
Begins(t, kind, b) ==
  /\ t \in kind /\ at[t] = "idle" /\ t = CHOOSE u \in kind : at[u] = "idle"
  /\ Cardinality({u \in Tx : at[u] # "idle"}) < MaxTx
  /\ Goto(t, "begun") /\ book' = [book EXCEPT ![t] = b]
  /\ UNCHANGED db /\ UNCHANGED lcks /\ UNCHANGED <<own, known>>

-----------------------------------------------------------------------------
\* PUT metadata.  The insertion or update is flushed by the lookup of the book
\* that follows it.
EditBegin(t) == \E b \in Books, S \in SUBSET Fields :
  /\ Begins(t, Edits, b)
  /\ given' = [given EXCEPT ![t] = S] /\ UNCHANGED <<todo, overwrite>>
EditFlush(t) ==
  /\ t \in Edits /\ Ready(t, "read")
  /\ Flush(t, book[t], Provided(t, given[t]),
           Updated(own[t][book[t]].fields, Provided(t, given[t])))
\* For a book under review the stage transaction comes first, and raises.
EditFails(t) == t \in Edits /\ at[t] = "flushed" /\ Rollback(t)
EditCommit(t) ==
  /\ t \in Edits /\ at[t] = "flushed"
  /\ Written(t) /\ Close(t, "done") /\ UNCHANGED <<evidence, job>>

-----------------------------------------------------------------------------
(***************************************************************************)
(* CSV import.  A row is read without a lock and changed in the session;   *)
(* the statement for the next row flushes it, or the commit.  A CSV names  *)
(* a book once here, and its columns are the same for all rows.            *)
(***************************************************************************)
Listings == {q \in UNION {[1..n -> Books] : n \in 1..Cardinality(Books)} :
               \A i, j \in DOMAIN q : q[i] = q[j] => i = j}
ImportBegin(t) == \E q \in Listings, S \in SUBSET (Fields \ BookColumns) \ {{}}, o \in BOOLEAN :
  /\ Begins(t, Imports, NoBook)
  /\ todo' = [todo EXCEPT ![t] = q] /\ given' = [given EXCEPT ![t] = S]
  /\ overwrite' = [overwrite EXCEPT ![t] = o]
ImportRead(t) ==
  /\ t \in Imports /\ at[t] = "begun" /\ todo[t] # <<>>
  /\ LET b == Head(todo[t]) IN
       /\ book' = [book EXCEPT ![t] = b]
       /\ own' = [own EXCEPT ![t][b] = row[b]]
  /\ todo' = [todo EXCEPT ![t] = Tail(@)]
  /\ Goto(t, "read")
  /\ UNCHANGED db /\ UNCHANGED lcks /\ UNCHANGED <<given, overwrite, known>>
ImportFlush(t) ==
  /\ t \in Imports /\ Ready(t, "read")
  /\ LET new == Provided(t, given[t]) IN
       Flush(t, book[t], new,
             IF overwrite[t] THEN new ELSE Updated(own[t][book[t]].fields, new))
ImportCommit(t) ==
  /\ t \in Imports /\ at[t] = "begun" /\ todo[t] = <<>>
  /\ Written(t) /\ Close(t, "done") /\ UNCHANGED <<evidence, job>>

-----------------------------------------------------------------------------
(***************************************************************************)
(* The end of an extraction task.  The stored dictionary is changed in     *)
(* place and assigned back: the mapper compares it with itself and writes  *)
(* no UPDATE, unless it was empty, when a new dictionary takes its place.  *)
(***************************************************************************)
PersistBegin(t) == \E b \in Books, S \in SUBSET Fields :
  /\ Begins(t, Extractions, b)
  /\ given' = [given EXCEPT ![t] = S] /\ UNCHANGED <<todo, overwrite>>
Found(t) == [f \in Fields |-> IF f \in given[t] THEN t ELSE NoValue]
\* Mutation: the attribute is flagged as modified.
MergedFlagged(t, old) == Updated(old, Provided(t, given[t]))
Merged(t, old) == IF DOMAIN old = {} THEN Provided(t, given[t]) ELSE old
PersistFlush(t) ==
  /\ t \in Extractions /\ Ready(t, "read")
  /\ Flush(t, book[t], Found(t), Merged(t, own[t][book[t]].fields))
\* Evidence and run records.  A job or an evidence row that is gone by now fails
\* the transaction; one of several rewritten at once may be missed unnoticed.
Lost(t) == Rewritten(t) \ DOMAIN evidence[book[t]]
PersistRecord(t) ==
  /\ t \in Extractions /\ Ready(t, "flushed")
  /\ \/ (job[t] = "gone" \/ Lost(t) # {}) /\ Rollback(t)
     \/ /\ job[t] # "gone" /\ (Lost(t) = {} \/ Cardinality(Rewritten(t)) > 1)
        /\ evLocks' = [evLocks EXCEPT ![t] = Rewritten(t) \ Lost(t)]
        /\ Goto(t, "recorded")
        /\ UNCHANGED db /\ UNCHANGED data
        /\ UNCHANGED <<book, own, known, locks, jobLocks>>
Kept(t) == given[t] \ (Rewritten(t) \ evLocks[t])
\* The stage transaction raises.
PersistFails(t) == t \in Extractions /\ at[t] = "recorded" /\ Rollback(t)
PersistCommit(t) ==
  /\ t \in Extractions /\ Ready(t, "recorded")
  /\ Written(t) /\ Close(t, "done")
  /\ evidence' = [evidence EXCEPT ![book[t]] = Updated(@, Provided(t, Kept(t)))]
  /\ job' = [job EXCEPT ![t] = "ended"]

-----------------------------------------------------------------------------
(***************************************************************************)
(* rerun_ocr and reset_book: active jobs are cancelled, the evidence is    *)
(* deleted, then the row; reset deletes the jobs too.  A deletion covers   *)
(* the rows that were there when the statement began.                      *)
(***************************************************************************)
ClearBegin(t) == \E b \in Books : 
  (Begins(t, Reruns, b) \/ Begins(t, Resets, b)) /\ UNCHANGED data
ClearJobs(t) ==
  /\ t \in Clears /\ Ready(t, "begun") /\ Goto(t, "jobs")
  /\ jobLocks' = [jobLocks EXCEPT ![t] = ActiveOn(book[t])]
  /\ UNCHANGED db /\ UNCHANGED data /\ UNCHANGED <<book, own, known, locks, evLocks>>
ClearLooks(t) ==
  /\ t \in Clears /\ at[t] = "jobs" /\ Goto(t, "deleting")
  /\ known' = [known EXCEPT ![t] = DOMAIN evidence[book[t]]]
  /\ UNCHANGED db /\ UNCHANGED lcks /\ UNCHANGED data /\ UNCHANGED <<book, own>>
ClearEvidence(t) ==
  /\ t \in Clears /\ Ready(t, "deleting") /\ Goto(t, "evidence")
  /\ evLocks' = [evLocks EXCEPT ![t] = NeedsEvidence(t)]
  /\ UNCHANGED db /\ UNCHANGED data /\ UNCHANGED <<book, own, known, locks, jobLocks>>
ClearMetadata(t) ==
  /\ t \in Clears /\ Ready(t, "evidence") /\ Goto(t, "cleared")
  /\ locks' = [locks EXCEPT ![t] = IF row[book[t]] = Absent THEN {} ELSE {book[t]}]
  /\ UNCHANGED db /\ UNCHANGED data /\ UNCHANGED <<book, own, known, evLocks, jobLocks>>
ClearCommit(t) ==
  /\ t \in Clears /\ Ready(t, "cleared") /\ Written(t) /\ Close(t, "done")
  /\ evidence' = [evidence EXCEPT ![book[t]] = [f \in DOMAIN @ \ evLocks[t] |-> @[f]]]
  /\ job' = [x \in Extractions |->
               IF t \in Resets /\ book[x] = book[t] THEN "gone"
               ELSE IF x \in jobLocks[t] THEN "ended" ELSE job[x]]

\* cancel_job, at any time before the task writes its job: the task goes on.
CancelJob(x) ==
  /\ at[x] \in {"begun", "read", "flushed", "recorded"}
  /\ job[x] = "active" /\ {u \in Tx : x \in jobLocks[u]} = {}
  /\ job' = [job EXCEPT ![x] = "ended"]
  /\ UNCHANGED <<row, evidence, at, book, own, known>> /\ UNCHANGED lcks /\ UNCHANGED data

-----------------------------------------------------------------------------
\* PostgreSQL breaks a circle of waiting transactions by failing one of them.
Circular(T) == T # {} /\ \A t \in T : WaitsFor(t) \cap T # {}
Deadlocked(t) == WaitsFor(t) # {} /\
  \E T \in SUBSET {u \in Tx : WaitsFor(u) # {}} :
    t \in T /\ Circular(T) /\ \A U \in SUBSET T : Circular(U) => U = T
DeadlockVictim(t) == Deadlocked(t) /\ Rollback(t)

Step(t) ==
  \/ ReadForUpdate(t)
  \/ EditFlush(t) \/ EditCommit(t)
  \/ ImportRead(t) \/ ImportFlush(t) \/ ImportCommit(t)
  \/ PersistFlush(t) \/ PersistRecord(t) \/ PersistCommit(t)
  \/ ClearJobs(t) \/ ClearLooks(t) \/ ClearEvidence(t) \/ ClearMetadata(t) \/ ClearCommit(t)
Next ==
  \/ \E t \in Tx : EditBegin(t) \/ ImportBegin(t) \/ PersistBegin(t) \/ ClearBegin(t)
  \/ \E t \in Tx : Step(t) \/ EditFails(t) \/ PersistFails(t) \/ DeadlockVictim(t)
  \/ \E x \in Extractions : CancelJob(x)

Spec == Init /\ [][Next]_vars
\* As long as some transaction can go on, one does, and deadlocks are looked for.
FairSpec ==
  /\ Spec
  /\ WF_vars(\E t \in Tx : Step(t))
  /\ WF_vars(\E t \in Tx : DeadlockVictim(t))

-----------------------------------------------------------------------------
TypeOK ==
  /\ row \in [Books -> Rows]
  /\ evidence \in [Books -> UNION {[S -> Extractions] : S \in SUBSET Fields}]
  /\ job \in [Extractions -> {"active", "ended", "gone"}]
  /\ at \in [Tx -> {"idle", "begun", "read", "flushed", "recorded", "jobs", "deleting",
                     "evidence", "cleared", "done", "failed"}]
  /\ book \in [Tx -> Books \cup {NoBook}]
  /\ given \in [Tx -> SUBSET Fields] /\ todo \in [Tx -> Seq(Books)] /\ overwrite \in [Tx -> BOOLEAN]
  /\ own \in [Tx -> [Books -> Rows]] /\ known \in [Tx -> SUBSET Fields]
  /\ locks \in [Tx -> SUBSET Books]
  /\ evLocks \in [Tx -> SUBSET Fields] /\ jobLocks \in [Tx -> SUBSET Extractions]

\* Nothing of a transaction that has not been acknowledged is ever stored: no
\* row, field or evidence of an import that fails at a later CSV row, of an edit
\* whose stage call raises, of a deadlock's victim or of a lost insertion.
Wrote(t) == \E b \in Books :
  \/ row[b].by = t
  \/ \E f \in DOMAIN row[b].fields : row[b].fields[f] = t
  \/ \E f \in DOMAIN evidence[b] : evidence[b][f] = t
NothingOfTheUnfinished == \A t \in Tx : Wrote(t) => at[t] = "done"

Acknowledged(t) == at[t] # "done" /\ at'[t] = "done"
\* Two edits of a book never undo each other: what an edit does not provide it
\* leaves as it is in the row at its commit, whatever was committed while it
\* waited for the row or for its stage call (api/metadata.py:72).
EditTouchesOnlyGiven == [][\A e \in Edits, b \in Books :
  Acknowledged(e) /\ row[b] # Absent =>
    /\ row'[b].by = row[b].by
    /\ \A f \in DOMAIN row[b].fields :
         f \notin given[e] => f \in DOMAIN row'[b].fields /\ row'[b].fields[f] = row[b].fields[f]]_vars

\* An extraction, however long ago it read, never replaces a value that a
\* human gave by an edit or an import (tasks/llm_tasks.py:124).
TaskKeepsHumanValues == [][\A x \in Extractions, b \in Books :
  Acknowledged(x) => \A f \in DOMAIN row[b].fields :
    row[b].fields[f] \in Edits \cup Imports =>
      f \in DOMAIN row'[b].fields /\ row'[b].fields[f] = row[b].fields[f]]_vars

\* schemas/bulk.py:24 says that a merge updates only provided fields.
MergeUpdatesOnlyProvided == [][\A i \in Imports, b \in Books :
  Acknowledged(i) /\ ~overwrite[i] => \A f \in DOMAIN row[b].fields :
    f \notin given[i] => f \in DOMAIN row'[b].fields /\ row'[b].fields[f] = row[b].fields[f]]_vars

\* Every request or task that has begun ends, whatever order the transactions
\* take their locks in: imports list books in any order, a clearing locks jobs,
\* evidence and row, a task row, evidence and job.
InProgress == {t \in Tx : at[t] \notin {"idle", "done", "failed"}}
EveryTransactionEnds == <>[](InProgress = {})
=============================================================================
