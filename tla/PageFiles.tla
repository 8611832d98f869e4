------------------------------ MODULE PageFiles ------------------------------
(***************************************************************************)
(* The page rows of one book, their OCR results, and the files behind      *)
(* them: rendered page images, processed images and the PDF.  Requests     *)
(* (page selection, preprocessing of a page, OCR correction, the admin     *)
(* operations) and tasks (preprocessing, OCR of a page) change both, and   *)
(* only the rows are transactional: a rollback brings no file back.        *)
(*                                                                         *)
(* Paths are made of the book and the page number: a page selected again   *)
(* has the path of the row it replaces.                                    *)
(***************************************************************************)
EXTENDS Integers, FiniteSets

CONSTANTS
  Pages,          \* the page numbers of the PDF
  MaxSelections,  \* bound: selections of the book, numbered as they begin
  Preprocessors,  \* runs of preprocess_pages_for_book
  Readers,        \* calls of _process_page_async, each for one page
  Correctors, Tuners,        \* requests to correct a text, to preprocess a page
  Reruns, Resets, Deletions, \* requests of the admin
  Overlapping,    \* whether a selection may begin while another is under way
  MaxTx,          \* bound: so many of them all begin
  Nobody

Selections == 1..MaxSelections
Others == Preprocessors \cup Readers \cup Correctors \cup Tuners \cup Reruns \cup Resets \cup Deletions
Tx == Selections \cup Others
Rows == Selections \X Pages  \* a row is known by its selection and its number
Number(r) == r[2]

ASSUME DistinctActors ==
  /\ MaxSelections \in Nat /\ Overlapping \in BOOLEAN /\ Nobody \notin Correctors
  /\ Selections \cap Others = {}
  /\ Correctors \cap (Preprocessors \cup Readers \cup Tuners \cup Reruns \cup Resets \cup Deletions) = {}
  /\ Preprocessors \cap (Readers \cup Tuners \cup Reruns \cup Resets \cup Deletions) = {}
  /\ Readers \cap (Tuners \cup Reruns \cup Resets \cup Deletions) = {}
  /\ Tuners \cap (Reruns \cup Resets \cup Deletions) = {}
  /\ Reruns \cap (Resets \cup Deletions) = {} /\ Resets \cap Deletions = {}

VARIABLES
  exists,     \* the book row
  page,       \* the committed page rows, each with its OCR result
  pdf,        \* original.pdf
  images,     \* the numbers whose rendered image is on disk
  processed,  \* the numbers whose processed image is
  begun,      \* selections begun
  given,      \* the numbers each selection was given
  at,         \* how far each transaction is
  seen,       \* the rows it has read, as they were
  todo,       \* rows it has still to look at
  made,       \* rows whose processed image it has made
  locked      \* rows it has changed and not committed
files == <<pdf, images, processed>>
vars == <<exists, page, pdf, images, processed, begun, given, at, seen, todo, made, locked>>

\* Which of processed_image_path, preprocessing_config and the OCR result a row
\* has, and whose correction.  image_path is never null.
Row == [processed : BOOLEAN, config : BOOLEAN, result : BOOLEAN, corrected : Correctors \cup {Nobody}]
Fresh == [processed |-> FALSE, config |-> TRUE, result |-> FALSE, corrected |-> Nobody]
Tables == UNION {[R -> Row] : R \in SUBSET Rows}
NoRows == [r \in {} |-> Fresh]

\* upload_book has stored the PDF and committed the book.
Init ==
  /\ exists = TRUE /\ page = NoRows
  /\ pdf = TRUE /\ images = {} /\ processed = {}
  /\ begun = 0 /\ given = [s \in Selections |-> {}]
  /\ at = [t \in Tx |-> "idle"] /\ seen = [t \in Tx |-> NoRows]
  /\ todo = [t \in Tx |-> {}] /\ made = [t \in Tx |-> {}] /\ locked = [t \in Tx |-> {}]

-----------------------------------------------------------------------------
InProgress == {t \in Tx : at[t] \notin {"idle", "done", "failed"}}
\* A statement waits for rows that another transaction has changed; a reader
\* of a page locks the page row alone, a rerun does not change a row's key.
RowsFree(t, R)    == \A u \in Tx \ {t} : R \cap locked[u] = {}
ResultsFree(t, R) == \A u \in Tx \ (Readers \cup {t}) : R \cap locked[u] = {}
KeysFree(t, R)    == \A u \in Tx \ (Readers \cup Reruns \cup {t}) : R \cap locked[u] = {}
Changed(R, row)   == [r \in DOMAIN page |-> IF r \in R THEN row[r] ELSE page[r]]

Goto(t, step) == at' = [at EXCEPT ![t] = step]
Begins(t) == at[t] = "idle" /\ exists /\ Cardinality({u \in Tx : at[u] # "idle"}) < MaxTx
Reads(t, rows, step) ==
  /\ Begins(t) /\ Goto(t, step)
  /\ seen' = [seen EXCEPT ![t] = rows] /\ todo' = [todo EXCEPT ![t] = DOMAIN rows]
  /\ UNCHANGED <<exists, page, pdf, images, processed, made, locked>>
ReadsOne(t) == \E r \in DOMAIN page :
  Reads(t, [x \in {r} |-> page[x]], "read") /\ UNCHANGED <<begun, given>>
Ends(t, outcome) ==
  /\ Goto(t, outcome)
  /\ seen' = [seen EXCEPT ![t] = NoRows] /\ todo' = [todo EXCEPT ![t] = {}]
  /\ made' = [made EXCEPT ![t] = {}] /\ locked' = [locked EXCEPT ![t] = {}]
  /\ UNCHANGED <<begun, given>>
Commits(t) == Ends(t, "done") /\ UNCHANGED <<exists, pdf, images, processed>>
\* An error or the end of its process: the rows are as before, the files are not.
Fails(t) == Ends(t, "failed") /\ UNCHANGED <<exists, page, pdf, images, processed>>
Fail(t) == t \in InProgress /\ Fails(t)

-----------------------------------------------------------------------------
(***************************************************************************)
(* POST pages.  Row by row the image is unlinked and the row marked        *)
(* deleted; after the flush the new pages are rendered; then all is        *)
(* committed.  The stage call that follows raises, and changes nothing.    *)
(***************************************************************************)
\* Mutation: numbers out of the range of the PDF are taken.
SelectReadAny(s) ==
  /\ s \in Selections /\ s = begun + 1 /\ begun' = s
  /\ Overlapping \/ InProgress \cap Selections = {}
  /\ \E N \in SUBSET (Pages \cup {0}) \ {{}} : given' = [given EXCEPT ![s] = N]
  /\ Reads(s, page, "read")
SelectRead(s) ==
  /\ s \in Selections /\ s = begun + 1 /\ begun' = s
  /\ Overlapping \/ InProgress \cap Selections = {}
  /\ \E N \in SUBSET Pages \ {{}} : given' = [given EXCEPT ![s] = N]
  /\ Reads(s, page, "read")
SelectUnlink(s) ==
  /\ s \in Selections /\ at[s] = "read"
  /\ \E r \in todo[s] :
       images' = images \ {Number(r)} /\ todo' = [todo EXCEPT ![s] = @ \ {r}]
  /\ UNCHANGED <<exists, page, pdf, processed, begun, given, at, seen, made, locked>>
SelectFlush(s) ==
  /\ s \in Selections /\ at[s] = "read" /\ todo[s] = {} /\ RowsFree(s, DOMAIN seen[s])
  /\ Goto(s, "flushed") /\ locked' = [locked EXCEPT ![s] = DOMAIN seen[s]]
  /\ UNCHANGED <<exists, page, pdf, images, processed, begun, given, seen, todo, made>>
SelectRender(s) ==
  /\ s \in Selections /\ at[s] = "flushed" /\ pdf
  /\ images' = images \cup given[s] /\ Goto(s, "rendered")
  /\ UNCHANGED <<exists, page, pdf, processed, begun, given, seen, todo, made, locked>>
\* No PDF, or a page that cannot be rendered after some that could.
SelectRenderFails(s) ==
  /\ s \in Selections /\ at[s] = "flushed"
  /\ \E N \in SUBSET given[s] : (pdf \/ N = {}) /\ images' = images \cup N
  /\ Ends(s, "failed") /\ UNCHANGED <<exists, page, pdf, processed>>
NewRows(s) == {s} \X given[s]
\* Mutation: the rows refer to no book.
SelectCommitUnchecked(s) ==
  /\ s \in Selections /\ at[s] = "rendered"
  /\ page' = [r \in (DOMAIN page \ locked[s]) \cup NewRows(s) |->
                IF r \in NewRows(s) THEN Fresh ELSE page[r]]
  /\ Commits(s)
\* Mutation: as rerun_ocr means to, images are unlinked once the rows are committed.
SelectCommitUnlinks(s) ==
  /\ s \in Selections /\ at[s] = "rendered" /\ exists
  /\ page' = [r \in (DOMAIN page \ locked[s]) \cup NewRows(s) |->
                IF r \in NewRows(s) THEN Fresh ELSE page[r]]
  /\ images' = images \ {Number(r) : r \in locked[s]}
  /\ Ends(s, "done") /\ UNCHANGED <<exists, pdf, processed>>
SelectCommit(s) ==
  /\ s \in Selections /\ at[s] = "rendered" /\ exists
  /\ page' = [r \in (DOMAIN page \ locked[s]) \cup NewRows(s) |->
                IF r \in NewRows(s) THEN Fresh ELSE page[r]]
  /\ Commits(s)

-----------------------------------------------------------------------------
(***************************************************************************)
(* The preprocessing task, and PUT preprocessing.  An update writes the    *)
(* columns that differ from what the session has read; it passes over a    *)
(* row that is gone, or raises (Fail).                                     *)
(***************************************************************************)
PrepRead(p) == p \in Preprocessors /\ Reads(p, page, "read") /\ UNCHANGED <<begun, given>>
\* Mutation: a missing image is not skipped.
PrepPageBlind(p) ==
  /\ p \in Preprocessors /\ at[p] = "read"
  /\ \E r \in todo[p] :
       /\ todo' = [todo EXCEPT ![p] = @ \ {r}]
       /\ made' = [made EXCEPT ![p] = @ \cup {r}] /\ processed' = processed \cup ({Number(r)} \cap images)
  /\ UNCHANGED <<exists, page, pdf, images, begun, given, at, seen, locked>>
PrepPage(p) ==
  /\ p \in Preprocessors /\ at[p] = "read"
  /\ \E r \in todo[p] :
       /\ todo' = [todo EXCEPT ![p] = @ \ {r}]
       /\ IF seen[p][r].config /\ ~seen[p][r].processed /\ Number(r) \in images
            THEN made' = [made EXCEPT ![p] = @ \cup {r}] /\ processed' = processed \cup {Number(r)}
            ELSE UNCHANGED <<made, processed>>
  /\ UNCHANGED <<exists, page, pdf, images, begun, given, at, seen, locked>>
PrepCommit(p) ==
  /\ p \in Preprocessors /\ at[p] = "read" /\ todo[p] = {} /\ RowsFree(p, made[p])
  /\ page' = Changed(made[p], [r \in DOMAIN page |-> [page[r] EXCEPT !.processed = TRUE]])
  /\ Commits(p)

TuneRead(u) == u \in Tuners /\ ReadsOne(u)
TuneRun(u) ==
  /\ u \in Tuners /\ at[u] = "read"
  /\ \E r \in todo[u] : Number(r) \in images /\ processed' = processed \cup {Number(r)}
  /\ made' = [made EXCEPT ![u] = DOMAIN seen[u]] /\ Goto(u, "prepared")
  /\ UNCHANGED <<exists, page, pdf, images, begun, given, seen, todo, locked>>
TuneCommit(u) ==
  /\ u \in Tuners /\ at[u] = "prepared" /\ RowsFree(u, made[u]) /\ made[u] \subseteq DOMAIN page
  /\ \E equal \in BOOLEAN : \* to the one read, and then not written
       page' = Changed(made[u], [r \in made[u] |->
         [page[r] EXCEPT !.config = IF equal /\ seen[u][r].config THEN @ ELSE TRUE,
                         !.processed = IF seen[u][r].processed THEN @ ELSE TRUE]])
  /\ Commits(u)

-----------------------------------------------------------------------------
(***************************************************************************)
(* The OCR of one page.  It processes the image if that is still to do,    *)
(* recognises the text, looks for a stored result without a lock, and      *)
(* updates it or inserts one (page_id is unique).                          *)
(***************************************************************************)
Lacks(o) == {r \in DOMAIN seen[o] : seen[o][r].config /\ ~seen[o][r].processed}
Source(o, r) == IF seen[o][r].processed THEN processed ELSE images
ReadPage(o) == o \in Readers /\ ReadsOne(o)
ReadImage(o) ==
  /\ o \in Readers /\ at[o] = "read" /\ \A r \in todo[o] : Number(r) \in Source(o, r)
  /\ made' = [made EXCEPT ![o] = Lacks(o)]
  /\ processed' = processed \cup {Number(r) : r \in Lacks(o)}
  /\ Goto(o, "prepared")
  /\ UNCHANGED <<exists, page, pdf, images, begun, given, seen, todo, locked>>
ReadFlush(o) ==
  /\ o \in Readers /\ at[o] = "prepared"
  /\ RowsFree(o, made[o]) /\ made[o] \subseteq DOMAIN page
  /\ locked' = [locked EXCEPT ![o] = made[o]] /\ Goto(o, "flushed")
  /\ UNCHANGED <<exists, page, pdf, images, processed, begun, given, seen, todo, made>>
ReadLook(o) ==
  /\ o \in Readers /\ at[o] = "flushed" /\ Goto(o, "looked")
  /\ seen' = [seen EXCEPT ![o] = [r \in DOMAIN @ |-> IF r \in DOMAIN page THEN page[r] ELSE Fresh]]
  /\ UNCHANGED <<exists, page, pdf, images, processed, begun, given, todo, made, locked>>
\* Mutation: the stored result is replaced by a new one.
ReadReplaces(o) ==
  /\ o \in Readers /\ at[o] = "looked" /\ todo[o] \subseteq DOMAIN page
  /\ page' = Changed(todo[o], [r \in DOMAIN page |->
       [page[r] EXCEPT !.processed = @ \/ made[o] # {}, !.result = TRUE, !.corrected = Nobody]])
  /\ Commits(o)
ReadCommit(o) ==
  /\ o \in Readers /\ at[o] = "looked" /\ todo[o] \subseteq DOMAIN page
  /\ \A r \in todo[o] :
       /\ page[r].result = seen[o][r].result
       /\ IF page[r].result THEN ResultsFree(o, {r}) ELSE KeysFree(o, {r})
  /\ page' = Changed(todo[o], [r \in DOMAIN page |->
       [page[r] EXCEPT !.processed = @ \/ made[o] # {}, !.result = TRUE]])
  /\ Commits(o)

\* PUT ocr: the result is locked, changed and committed.
Correct(c) ==
  /\ c \in Correctors /\ Begins(c)
  /\ \E r \in DOMAIN page :
       /\ page[r].result /\ ResultsFree(c, {r})
       /\ page' = Changed({r}, [x \in DOMAIN page |-> [page[x] EXCEPT !.corrected = c]])
  /\ Commits(c)

-----------------------------------------------------------------------------
(***************************************************************************)
(* The admin.  Neither rerun_ocr nor reset_book gets to the files it would *)
(* remove: the stage call before raises.  delete_book has none.            *)
(***************************************************************************)
RerunRead(q) == q \in Reruns /\ DOMAIN page # {} /\ Reads(q, page, "read") /\ UNCHANGED <<begun, given>>
RerunClear(q) ==
  /\ q \in Reruns /\ at[q] = "read"
  /\ RowsFree(q, DOMAIN seen[q]) /\ Goto(q, "flushed")
  /\ locked' = [locked EXCEPT ![q] = DOMAIN seen[q] \cap DOMAIN page]
  /\ made' = [made EXCEPT ![q] = {r \in DOMAIN seen[q] \cap DOMAIN page : page[r].result}]
  /\ UNCHANGED <<exists, page, pdf, images, processed, begun, given, seen, todo>>
RerunCommit(q) ==
  /\ q \in Reruns /\ at[q] = "flushed" /\ exists
  /\ page' = Changed(locked[q], [r \in locked[q] |->
       [page[r] EXCEPT !.config = @ /\ ~seen[q][r].config,
                       !.processed = @ /\ ~seen[q][r].processed,
                       !.result = @ /\ r \notin made[q],
                       !.corrected = IF r \in made[q] THEN Nobody ELSE @]])
  /\ Commits(q)

ResetClear(q) ==
  /\ q \in Resets /\ Begins(q) /\ RowsFree(q, DOMAIN page)
  /\ Goto(q, "flushed") /\ locked' = [locked EXCEPT ![q] = DOMAIN page]
  /\ UNCHANGED <<exists, page, pdf, images, processed, begun, given, seen, todo, made>>
ResetCommit(q) ==
  /\ q \in Resets /\ at[q] = "flushed"
  /\ page' = [r \in DOMAIN page \ locked[q] |-> page[r]] /\ Commits(q)

DeleteCommit(d) ==
  /\ d \in Deletions /\ Begins(d) /\ RowsFree(d, DOMAIN page)
  /\ exists' = FALSE /\ page' = NoRows /\ Goto(d, "purging")
  /\ UNCHANGED <<pdf, images, processed, begun, given, seen, todo, made, locked>>
\* _purge_book_storage
DeletePurge(d) ==
  /\ d \in Deletions /\ at[d] = "purging"
  /\ pdf' = FALSE /\ images' = {} /\ processed' = {}
  /\ Ends(d, "done") /\ UNCHANGED <<exists, page>>

Step(t) ==
  \/ SelectRead(t) \/ SelectUnlink(t) \/ SelectFlush(t) \/ SelectRender(t) \/ SelectRenderFails(t)
  \/ SelectCommit(t)
  \/ PrepRead(t) \/ PrepPage(t) \/ PrepCommit(t) \/ TuneRead(t) \/ TuneRun(t) \/ TuneCommit(t)
  \/ ReadPage(t) \/ ReadImage(t) \/ ReadFlush(t) \/ ReadLook(t) \/ ReadCommit(t) \/ Correct(t)
  \/ RerunRead(t) \/ RerunClear(t) \/ RerunCommit(t) \/ ResetClear(t) \/ ResetCommit(t)
  \/ DeleteCommit(t) \/ DeletePurge(t)
Next == \E t \in Tx : Step(t) \/ Fail(t)
Spec == Init /\ [][Next]_vars

-----------------------------------------------------------------------------
TypeOK ==
  /\ exists \in BOOLEAN /\ pdf \in BOOLEAN
  /\ page \in Tables
  /\ images \subseteq Pages /\ processed \subseteq Pages
  /\ begun \in 0..MaxSelections /\ given \in [Selections -> SUBSET Pages]
  /\ at \in [Tx -> {"idle", "read", "prepared", "flushed", "looked", "rendered", "purging",
                     "done", "failed"}]
  /\ seen \in [Tx -> Tables]
  /\ {todo, made, locked} \subseteq [Tx -> SUBSET Rows]

\* After a selection, and until the next begins, the book has its pages once
\* each, or none, and each of them has its image, although the images that it
\* unlinks have the paths of those it renders, a rollback restores none, and
\* tasks and requests go on with the pages it has replaced (api/books.py:175).
SelectedPagesHaveImages ==
  exists /\ begun > 0 /\ at[begun] = "done" =>
    /\ DOMAIN page \in {{}, {begun} \X given[begun]}
    /\ \A r \in DOMAIN page : Number(r) \in images

\* A row that names a processed image has one, whoever made it, whichever of
\* the makers failed in between and whatever selection has lost its images
\* (tasks/ocr_tasks.py:271).
ProcessedImagesExist ==
  \A r \in DOMAIN page : page[r].processed => Number(r) \in processed

\* Nothing is stored of a deleted book: no selection, task or correction that
\* was under way brings a row back, and no row outlives its book.
NothingOfADeletedBook == ~exists => DOMAIN page = {}

\* A correction is lost only to another one, to a new selection, to a rerun or
\* to a reset or a deletion: a page recognised again keeps it, whether it was
\* stored before the task looked for the result or after (tasks/ocr_tasks.py:64).
Acknowledged(t) == at[t] \notin {"done", "purging"} /\ at'[t] \in {"done", "purging"}
CorrectionsKept == [][\A r \in DOMAIN page :
  page[r].corrected # Nobody =>
    \/ r \in DOMAIN page' /\ page'[r].corrected = page[r].corrected
    \/ \E t \in Tx \ (Readers \cup Preprocessors \cup Tuners) : Acknowledged(t)]_vars
=============================================================================
