---------------------------- MODULE StageManager ----------------------------
(***************************************************************************)
(* StageManager as a library: callers that run its methods concurrently on *)
(* one book, each in a session of its own under READ COMMITTED, while      *)
(* handlers write books.status directly.                                   *)
(*                                                                         *)
(* An action is one statement or the statements between two that may wait. *)
(* The reads of _validate_sequential and get_stage take no lock.           *)
(* _lock_stage locks the row but leaves the object that get_stage loaded   *)
(* as it was (no populate_existing), so the guards test the status read    *)
(* before the lock.  The book is locked only at the end, by                *)
(* _update_book_status, and from then on to the commit; reset_book alone   *)
(* locks it at the beginning.  An insertion locks the key of the book,     *)
(* which its foreign key refers to.                                        *)
(*                                                                         *)
(* The lookups are taken to be StageManager.get_stage (l. 84), the static  *)
(* method whose signature the call sites use; StageCallers.tla covers the  *)
(* name as the file really binds it.                                       *)
(***************************************************************************)
EXTENDS StageTable, FiniteSets

CONSTANTS
  Callers,
  Stages,       \* bound: the stages that are called upon
  MaxRows,      \* bound: the rows there are when a caller adds one
  MaxAttempt,   \* bound: attempts of a stage (an unbounded integer)
  HandlerSets   \* bound: the statuses that handlers write directly
ASSUME ManagerAssumption ==
  Stages \subseteq BookStage /\ HandlerSets \subseteq BookStatus 
  /\ MaxRows \in Nat /\ MaxAttempt \in Nat

Methods == {"initiate", "start", "complete", "fail", "cancel", "reset"}
Steps == {"idle",        \* no session
          "validate", "attempt", "insert",   \* initiate_stage
          "find", "lock",                    \* the four that change a row
          "open", "delete",                  \* reset_book
          "update",      \* _update_book_status is next
          "returned"}    \* the method returned; the session is not committed yet

VARIABLES
  rows,        \* the committed rows of the book
  bookStatus,  \* books.status, committed
  at,          \* the step each caller is at
  method,      \* the method it runs
  seen,        \* the row it is about: as loaded, or as it will be inserted
  own,         \* its uncommitted rows
  gone,        \* the committed rows it has replaced or deleted
  bookLock,    \* its lock on the book's row
  derived      \* the status it has derived
sessionVars == <<at, method, seen, own, gone, bookLock, derived>>
managerVars == <<rows, bookStatus, at, method, seen, own, gone, bookLock, derived>>

SameKey(q, r) == q.stage = r.stage /\ q.attempt = r.attempt

\* What a statement of c sees: what is committed, and its own changes.
View(c) == (rows \ gone[c]) \cup own[c]

\* Nobody else has touched the row with r's key, so it can be locked.
RowFree(c, r) ==
  \A d \in Callers \ {c} : \A q \in own[d] \cup gone[d] : ~SameKey(q, r)
\* FOR UPDATE waits for every lock of others, an insertion for those only.
BookFree(c)    == \A d \in Callers \ {c} : bookLock[d] = "none"
BookKeyFree(c) == \A d \in Callers \ {c} : bookLock[d] # "update"

SomeRow == [stage |-> UPLOAD, attempt |-> 1, status |-> "initiated"]

\* Beside the types: a key has one row, and one session at most holds the book.
ManagerTypeOK ==
  /\ rows \in Tables /\ bookStatus \in BookStatus
  /\ at \in [Callers -> Steps] /\ method \in [Callers -> Methods]
  /\ seen \in [Callers -> Row]
  /\ own \in [Callers -> Tables] /\ gone \in [Callers -> Tables]
  /\ bookLock \in [Callers -> {"none", "key", "update"}]
  /\ derived \in [Callers -> BookStatus]
  /\ \A q, r \in rows : SameKey(q, r) => q = r
  /\ \A c, d \in Callers : bookLock[c] = "update" /\ bookLock[d] # "none" => c = d

\* A new book: status "uploaded", no row.
ManagerInit ==
  /\ rows = Empty /\ bookStatus = "uploaded"
  /\ at = [c \in Callers |-> "idle"] /\ method = [c \in Callers |-> "reset"]
  /\ seen = [c \in Callers |-> SomeRow]
  /\ own = [c \in Callers |-> {}] /\ gone = [c \in Callers |-> {}]
  /\ bookLock = [c \in Callers |-> "none"]
  /\ derived = [c \in Callers |-> "uploaded"]

-----------------------------------------------------------------------------
Goto(c, step) == at' = [at EXCEPT ![c] = step]

\* The session ends: its locks, its uncommitted rows and what it has read.
Closes(c) ==
  /\ Goto(c, "idle")
  /\ method' = [method EXCEPT ![c] = "reset"]
  /\ seen' = [seen EXCEPT ![c] = SomeRow]
  /\ own' = [own EXCEPT ![c] = {}]
  /\ gone' = [gone EXCEPT ![c] = {}]
  /\ bookLock' = [bookLock EXCEPT ![c] = "none"]
  /\ derived' = [derived EXCEPT ![c] = "uploaded"]

\* A method raises, a statement fails, or the database has chosen the session
\* to resolve a deadlock: nothing is stored.
Raises(c) == Closes(c) /\ UNCHANGED <<rows, bookStatus>>
Fails(c)  == at[c] # "idle" /\ Raises(c)

\* What the call sites call next in the same session.
Follows == {<<"initiate", "start">>, <<"initiate", "complete">>, <<"complete", "initiate">>}

\* A method is called in a new session, or in one whose last method returned.
Calls(c, m, s) ==
  /\ at[c] = "idle" \/ (at[c] = "returned" /\ <<method[c], m>> \in Follows)
  /\ method' = [method EXCEPT ![c] = m]
  /\ seen' = [seen EXCEPT ![c] = [SomeRow EXCEPT !.stage = s]]
  /\ Goto(c, IF m = "reset" THEN "open" ELSE IF m = "initiate" THEN "validate" ELSE "find")
  /\ UNCHANGED <<rows, bookStatus, own, gone, bookLock, derived>>

\* _validate_sequential, with no lock.
ValidateSequential(c) ==
  /\ at[c] = "validate"
  /\ IF SequentialOk(View(c), seen[c].stage)
       THEN Goto(c, "attempt") /\ UNCHANGED <<method, seen, own, gone, bookLock, derived>>
       ELSE Closes(c)
  /\ UNCHANGED <<rows, bookStatus>>

\* The latest attempt is read, with no lock, and the next one taken.
ChooseAttempt(c) ==
  /\ at[c] = "attempt" /\ Cardinality(View(c)) < MaxRows
  /\ IF Recorded(View(c), seen[c].stage)
       THEN \E r \in Of(View(c), seen[c].stage) :
              /\ IsLatest(View(c), r) /\ r.attempt < MaxAttempt
              /\ seen' = [seen EXCEPT ![c].attempt = r.attempt + 1]
       ELSE UNCHANGED seen
  /\ Goto(c, "insert")
  /\ UNCHANGED <<rows, bookStatus, method, own, gone, bookLock, derived>>

\* Mutation: the constraint of the migration is not there.
InsertUnconstrained(c) ==
  /\ at[c] = "insert" /\ RowFree(c, seen[c]) /\ BookKeyFree(c)
  /\ own' = [own EXCEPT ![c] = @ \cup {seen[c]}]
  /\ bookLock' = [bookLock EXCEPT ![c] = IF @ = "update" THEN @ ELSE "key"]
  /\ Goto(c, "update")
  /\ UNCHANGED <<rows, bookStatus, method, seen, gone, derived>>

\* The row is inserted, after the sessions have ended that touch its key (for
\* the unique constraint) or hold the book (for the foreign key).
InitiateStage(c) ==
  /\ at[c] = "insert" /\ RowFree(c, seen[c]) /\ BookKeyFree(c)
  /\ IF \E r \in View(c) : SameKey(r, seen[c])
       THEN Raises(c)
       ELSE /\ own' = [own EXCEPT ![c] = @ \cup {seen[c]}]
            /\ bookLock' = [bookLock EXCEPT ![c] = IF @ = "update" THEN @ ELSE "key"]
            /\ Goto(c, "update")
            /\ UNCHANGED <<rows, bookStatus, method, seen, gone, derived>>

\* get_stage, with no lock, at the beginning of the next four.
GetStage(c) ==
  /\ at[c] = "find"
  /\ IF Recorded(View(c), seen[c].stage)
       THEN /\ \E r \in Of(View(c), seen[c].stage) :
                 /\ IsLatest(View(c), r) /\ r.attempt < MaxAttempt
              /\ seen' = [seen EXCEPT ![c] = r]
            /\ Goto(c, "lock")
            /\ UNCHANGED <<method, own, gone, bookLock, derived>>
       ELSE Closes(c)
  /\ UNCHANGED <<rows, bookStatus>>

\* _lock_stage, the guard on the status read before, and the write.  A row
\* that is gone raises as well (its status is asked of None).
Transition(c, m, from, to) ==
  /\ at[c] = "lock" /\ method[c] = m /\ RowFree(c, seen[c])
  /\ IF seen[c].status \in from /\ \E r \in View(c) : SameKey(r, seen[c])
       THEN /\ \E r \in View(c) :
                 /\ SameKey(r, seen[c])
                 /\ own' = [own EXCEPT ![c] = (@ \ {r}) \cup {[r EXCEPT !.status = to]}]
                 /\ gone' = [gone EXCEPT ![c] = @ \cup ({r} \cap rows)]
            /\ Goto(c, "update")
            /\ UNCHANGED <<rows, bookStatus, method, seen, bookLock, derived>>
       ELSE Raises(c)

StartStage(c)    == Transition(c, "start", CanStart, "processing")
CompleteStage(c) == Transition(c, "complete", CanComplete, "completed")
FailStage(c)     == Transition(c, "fail", CanStop, "failed")
CancelStage(c)   == Transition(c, "cancel", CanStop, "cancelled")

\* Mutation: the reset does not lock the book before it looks for rows.
OpenUnlocked(c) ==
  /\ at[c] = "open"
  /\ Goto(c, "delete")
  /\ UNCHANGED <<rows, bookStatus, method, seen, own, gone, bookLock, derived>>

\* reset_book: lock the book, then delete the rows found.
LockBook(c) ==
  /\ at[c] = "open" /\ BookFree(c)
  /\ bookLock' = [bookLock EXCEPT ![c] = "update"]
  /\ Goto(c, "delete")
  /\ UNCHANGED <<rows, bookStatus, method, seen, own, gone, derived>>

ResetBook(c) ==
  /\ at[c] = "delete" /\ \A r \in View(c) : RowFree(c, r)
  /\ own' = [own EXCEPT ![c] = {}]
  /\ gone' = [gone EXCEPT ![c] = rows]
  /\ Goto(c, "update")
  /\ UNCHANGED <<rows, bookStatus, method, seen, bookLock, derived>>

\* Mutation: the book is read without FOR UPDATE.
DeriveUnlocked(c) ==
  /\ at[c] = "update"
  /\ derived' = [derived EXCEPT ![c] = DeriveBookStatus(View(c))]
  /\ Goto(c, "returned")
  /\ UNCHANGED <<rows, bookStatus, method, seen, own, gone, bookLock>>

\* _update_book_status ends every method.
UpdateBookStatus(c) ==
  /\ at[c] = "update" /\ BookFree(c)
  /\ bookLock' = [bookLock EXCEPT ![c] = "update"]
  /\ derived' = [derived EXCEPT ![c] = DeriveBookStatus(View(c))]
  /\ Goto(c, "returned")
  /\ UNCHANGED <<rows, bookStatus, method, seen, own, gone>>

\* The caller commits.
Commit(c) ==
  /\ at[c] = "returned"
  /\ rows' = View(c) /\ bookStatus' = derived[c]
  /\ Closes(c)

\* A handler commits a status of its own choice (SelectPages, RunOcr, ... of
\* StageCallers).
HandlerSetsStatus ==
  /\ \A c \in Callers : bookLock[c] # "update"
  /\ bookStatus' \in HandlerSets
  /\ UNCHANGED rows /\ UNCHANGED sessionVars

CallerStep(c) ==
  \/ \E m \in Methods, s \in Stages : Calls(c, m, s)
  \/ ValidateSequential(c)
  \/ ChooseAttempt(c)
  \/ InitiateStage(c)
  \/ GetStage(c)
  \/ StartStage(c)
  \/ CompleteStage(c)
  \/ FailStage(c)
  \/ CancelStage(c)
  \/ LockBook(c)
  \/ ResetBook(c)
  \/ UpdateBookStatus(c)
  \/ Commit(c)
  \/ Fails(c)

ManagerNext == HandlerSetsStatus \/ \E c \in Callers : CallerStep(c)

ManagerSpec == ManagerInit /\ [][ManagerNext]_managerVars

-----------------------------------------------------------------------------
(* The status a session commits is the one _derive_book_status gives for   *)
(* all rows there are once it has committed, those of sessions that ran    *)
(* beside it included: a row is written before the book is locked, but     *)
(* nobody commits between the derivation and the commit of another.        *)
StatusDerivedFromAll ==
  \A c \in Callers : Commit(c) => bookStatus' = DeriveBookStatus(rows')
CommitsDerivedStatus == [][StatusDerivedFromAll]_managerVars

(* A reset leaves no row, whatever was initiated or changed beside it: an  *)
(* insertion holds the key of the book or waits for the reset.             *)
LeavesNothing ==
  \A c \in Callers : method[c] = "reset" /\ Commit(c) => rows' = Empty
ResetLeavesNoRow == [][LeavesNothing]_managerVars
=============================================================================
