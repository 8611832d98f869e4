--------------------------- MODULE PageFilesProofs ---------------------------
(***************************************************************************)
(* The page rows and the files of a book, for any pages, selections, tasks *)
(* and requests: types, no row of a deleted book, a processed image behind *)
(* every row that names one, and corrections kept.                         *)
(***************************************************************************)
EXTENDS PageFiles, TLAPS

LEMMA Kinds ==
  /\ MaxSelections \in Nat /\ Overlapping \in BOOLEAN /\ Nobody \notin Correctors
  /\ Selections \subseteq Tx /\ Preprocessors \subseteq Tx /\ Readers \subseteq Tx
  /\ Tuners \subseteq Tx /\ Reruns \subseteq Tx /\ Resets \subseteq Tx /\ Deletions \subseteq Tx
  /\ Correctors \subseteq Tx
  /\ \A t \in Preprocessors \cup Readers \cup Tuners \cup Correctors \cup Reruns \cup Resets
              \cup Deletions : t \notin Selections
  /\ \A t \in Selections \cup Correctors \cup Reruns \cup Resets \cup Deletions :
       t \notin Preprocessors /\ t \notin Readers /\ t \notin Tuners
  /\ \A t \in Preprocessors : t \notin Readers /\ t \notin Tuners
  /\ \A t \in Readers : t \notin Tuners
  /\ \A t \in Resets : t \notin Reruns /\ t \notin Deletions
  /\ \A t \in Deletions : t \notin Reruns
BY DistinctActors DEF Tx, Others

LEMMA TableIs ==
  ASSUME NEW R \in SUBSET Rows, NEW f \in [R -> Row]
  PROVE  f \in Tables
BY DEF Tables

LEMMA TableHas ==
  ASSUME NEW f \in Tables
  PROVE  DOMAIN f \in SUBSET Rows /\ f \in [DOMAIN f -> Row]
BY DEF Tables

LEMMA FreshTyped == Fresh \in Row /\ NoRows \in Tables /\ DOMAIN NoRows = {}
<1>1. Fresh \in Row BY DEF Fresh, Row
<1>2. NoRows \in [{} -> Row] BY DEF NoRows
<1>3. {} \in SUBSET Rows OBVIOUS
<1> QED BY <1>1, <1>2, <1>3, TableIs DEF NoRows

LEMMA NumberTyped == \A r \in Rows : Number(r) \in Pages
BY DEF Rows, Number

-----------------------------------------------------------------------------
(* Types. *)
Steps == {"idle", "read", "prepared", "flushed", "looked", "rendered", "purging", "done", "failed"}
DbOK == exists \in BOOLEAN /\ page \in Tables
FilesOK == pdf \in BOOLEAN /\ images \subseteq Pages /\ processed \subseteq Pages
InputOK == begun \in 0..MaxSelections /\ given \in [Selections -> SUBSET Pages]
SessionOK ==
  /\ at \in [Tx -> Steps] /\ seen \in [Tx -> Tables] /\ todo \in [Tx -> SUBSET Rows]
  /\ made \in [Tx -> SUBSET Rows] /\ locked \in [Tx -> SUBSET Rows]
Typed == DbOK /\ FilesOK /\ InputOK /\ SessionOK

LEMMA TypedIsTypeOK == Typed <=> TypeOK
BY DEF Typed, DbOK, FilesOK, InputOK, SessionOK, TypeOK, Steps

LEMMA ReadsTyped ==
  ASSUME Typed, NEW t \in Tx, NEW rows \in Tables, NEW step \in Steps, Reads(t, rows, step)
  PROVE  DbOK' /\ FilesOK' /\ SessionOK'
<1>1. DbOK' /\ FilesOK' BY DEF Typed, DbOK, FilesOK, Reads
<1>2. DOMAIN rows \in SUBSET Rows BY TableHas
<1>3. SessionOK' BY <1>2 DEF Typed, SessionOK, Reads, Goto
<1> QED BY <1>1, <1>3

LEMMA ReadsOneTyped ==
  ASSUME Typed, NEW t \in Tx, ReadsOne(t)
  PROVE  Typed'
<1>1. PICK r \in DOMAIN page : Reads(t, [x \in {r} |-> page[x]], "read") /\ UNCHANGED <<begun, given>>
  BY DEF ReadsOne
<1>2. DOMAIN page \in SUBSET Rows /\ page \in [DOMAIN page -> Row] BY TableHas DEF Typed, DbOK
<1>3. [x \in {r} |-> page[x]] \in [{r} -> Row] /\ {r} \in SUBSET Rows BY <1>1, <1>2
<1>4. [x \in {r} |-> page[x]] \in Tables BY <1>3, TableIs
<1>5. DbOK' /\ FilesOK' /\ SessionOK' BY <1>1, <1>4, ReadsTyped DEF Steps
<1> QED BY <1>1, <1>5 DEF Typed, InputOK

LEMMA EndsTyped ==
  ASSUME Typed, NEW t \in Tx, NEW o \in {"done", "failed"}, Ends(t, o)
  PROVE  SessionOK' /\ InputOK'
<1>1. SessionOK' BY FreshTyped DEF Typed, SessionOK, Ends, Goto, Steps
<1>2. InputOK' BY DEF Typed, InputOK, Ends
<1> QED BY <1>1, <1>2

LEMMA CommitsTyped ==
  ASSUME Typed, NEW t \in Tx, Commits(t), page' \in Tables
  PROVE  Typed'
<1>1. SessionOK' /\ InputOK' BY EndsTyped DEF Commits
<1>2. DbOK' /\ FilesOK' BY DEF Typed, DbOK, FilesOK, Commits
<1> QED BY <1>1, <1>2 DEF Typed

LEMMA ChangedTyped ==
  ASSUME Typed, NEW R, NEW row, \A r \in R \cap DOMAIN page : row[r] \in Row
  PROVE  Changed(R, row) \in Tables /\ DOMAIN Changed(R, row) = DOMAIN page
<1>1. DOMAIN page \in SUBSET Rows /\ page \in [DOMAIN page -> Row] BY TableHas DEF Typed, DbOK
<1>2. Changed(R, row) \in [DOMAIN page -> Row] BY <1>1 DEF Changed
<1> QED BY <1>1, <1>2, TableIs DEF Changed

\* A row with some of its marks changed is a row.
LEMMA MarkedTyped ==
  ASSUME NEW row \in Row, NEW a \in BOOLEAN, NEW b \in BOOLEAN, NEW c \in BOOLEAN,
         NEW d \in Correctors \cup {Nobody}
  PROVE  /\ [row EXCEPT !.processed = a] \in Row
         /\ [row EXCEPT !.config = b, !.processed = a] \in Row
         /\ [row EXCEPT !.processed = a, !.result = c] \in Row
         /\ [row EXCEPT !.corrected = d] \in Row
         /\ [row EXCEPT !.config = b, !.processed = a, !.result = c, !.corrected = d] \in Row
BY DEF Row

LEMMA PageHas ==
  ASSUME Typed, NEW r \in DOMAIN page
  PROVE  /\ r \in Rows /\ page[r] \in Row
         /\ page[r].processed \in BOOLEAN /\ page[r].config \in BOOLEAN /\ page[r].result \in BOOLEAN
         /\ page[r].corrected \in Correctors \cup {Nobody}
<1>1. r \in Rows /\ page[r] \in Row BY TableHas DEF Typed, DbOK
<1> QED BY <1>1 DEF Row

LEMMA SeenHas ==
  ASSUME Typed, NEW t \in Tx
  PROVE  /\ DOMAIN seen[t] \in SUBSET Rows
         /\ \A r \in DOMAIN seen[t] : seen[t][r] \in Row
         /\ todo[t] \in SUBSET Rows /\ made[t] \in SUBSET Rows /\ locked[t] \in SUBSET Rows
BY TableHas DEF Typed, SessionOK

LEMMA SelectionTyped ==
  ASSUME Typed, NEW s \in Tx,
         SelectRead(s) \/ SelectUnlink(s) \/ SelectFlush(s) \/ SelectRender(s)
           \/ SelectRenderFails(s) \/ SelectCommit(s)
  PROVE  Typed'
<1>0. DOMAIN seen[s] \in SUBSET Rows /\ todo[s] \in SUBSET Rows BY SeenHas
<1>1. CASE SelectRead(s)
  <2>1. page \in Tables /\ "read" \in Steps BY DEF Typed, DbOK, Steps
  <2>2. DbOK' /\ FilesOK' /\ SessionOK' BY <1>1, <2>1, ReadsTyped DEF SelectRead
  <2>3. InputOK' BY <1>1, Kinds DEF SelectRead, Typed, InputOK, Selections
  <2> QED BY <2>2, <2>3 DEF Typed
<1>2. CASE SelectUnlink(s)
  <2>1. FilesOK' BY <1>2 DEF SelectUnlink, Typed, FilesOK
  <2>2. SessionOK' BY <1>2 DEF SelectUnlink, Typed, SessionOK
  <2> QED BY <1>2, <2>1, <2>2 DEF SelectUnlink, Typed, DbOK, InputOK
<1>3. CASE SelectFlush(s)
  <2>1. SessionOK' BY <1>3, <1>0 DEF SelectFlush, Typed, SessionOK, Goto, Steps
  <2> QED BY <1>3, <2>1 DEF SelectFlush, Typed, DbOK, InputOK, FilesOK
<1>4. CASE SelectRender(s)
  <2>1. SessionOK' BY <1>4 DEF SelectRender, Typed, SessionOK, Goto, Steps
  <2>2. FilesOK' BY <1>4 DEF SelectRender, Typed, FilesOK, InputOK
  <2> QED BY <1>4, <2>1, <2>2 DEF SelectRender, Typed, DbOK, InputOK
<1>5. CASE SelectRenderFails(s)
  <2>1. FilesOK' BY <1>5 DEF SelectRenderFails, Typed, FilesOK, InputOK
  <2>2. SessionOK' /\ InputOK' BY <1>5, EndsTyped DEF SelectRenderFails
  <2> QED BY <1>5, <2>1, <2>2 DEF SelectRenderFails, Typed, DbOK
<1>6. CASE SelectCommit(s)
  <2>1. NewRows(s) \subseteq Rows BY <1>6 DEF SelectCommit, NewRows, Typed, InputOK, Rows
  <2>2. DOMAIN page \in SUBSET Rows /\ \A r \in DOMAIN page : page[r] \in Row
    BY TableHas DEF Typed, DbOK
  <2> DEFINE R == (DOMAIN page \ locked[s]) \cup NewRows(s)
             f == [r \in R |-> IF r \in NewRows(s) THEN Fresh ELSE page[r]]
  <2>3. f \in [R -> Row] /\ R \in SUBSET Rows BY <2>1, <2>2, FreshTyped
  <2>4. f \in Tables BY <2>3, TableIs
  <2>5. page' = f /\ Commits(s) BY <1>6 DEF SelectCommit
  <2> QED BY <2>4, <2>5, CommitsTyped
<1> QED BY <1>1, <1>2, <1>3, <1>4, <1>5, <1>6

LEMMA TaskTyped ==
  ASSUME Typed, NEW t \in Tx,
         PrepRead(t) \/ PrepPage(t) \/ PrepCommit(t) \/ TuneRead(t) \/ TuneRun(t) \/ TuneCommit(t)
  PROVE  Typed'
<1>0. DOMAIN seen[t] \in SUBSET Rows /\ todo[t] \in SUBSET Rows BY SeenHas
<1>1. CASE PrepRead(t)
  <2>1. page \in Tables /\ "read" \in Steps BY DEF Typed, DbOK, Steps
  <2>2. DbOK' /\ FilesOK' /\ SessionOK' BY <1>1, <2>1, ReadsTyped DEF PrepRead
  <2> QED BY <1>1, <2>2 DEF Typed, InputOK, PrepRead
<1>2. CASE PrepPage(t)
  <2>1. PICK r \in todo[t] :
          /\ todo' = [todo EXCEPT ![t] = @ \ {r}]
          /\ IF seen[t][r].config /\ ~seen[t][r].processed /\ Number(r) \in images
               THEN made' = [made EXCEPT ![t] = @ \cup {r}] /\ processed' = processed \cup {Number(r)}
               ELSE UNCHANGED <<made, processed>>
    BY <1>2 DEF PrepPage
  <2>2. r \in Rows /\ Number(r) \in Pages BY <1>0, <2>1, NumberTyped
  <2>3. todo' \in [Tx -> SUBSET Rows] BY <2>1 DEF Typed, SessionOK
  <2>4. made' \in [Tx -> SUBSET Rows] BY <2>1, <2>2 DEF Typed, SessionOK
  <2>5. processed' \subseteq Pages BY <2>1, <2>2 DEF Typed, FilesOK
  <2> QED BY <1>2, <2>3, <2>4, <2>5 DEF PrepPage, Typed, DbOK, FilesOK, InputOK, SessionOK
<1>3. CASE PrepCommit(t)
  <2> DEFINE row == [r \in DOMAIN page |-> [page[r] EXCEPT !.processed = TRUE]]
  <2>1. \A r \in DOMAIN page : row[r] \in Row BY PageHas, MarkedTyped
  <2>2. Changed(made[t], row) \in Tables BY <2>1, ChangedTyped
  <2> QED BY <1>3, <2>2, CommitsTyped DEF PrepCommit
<1>4. CASE TuneRead(t)
  BY <1>4, ReadsOneTyped DEF TuneRead
<1>5. CASE TuneRun(t)
  <2>1. processed' \subseteq Pages BY <1>5, <1>0, NumberTyped DEF TuneRun, Typed, FilesOK
  <2>2. SessionOK' BY <1>5, <1>0 DEF TuneRun, Typed, SessionOK, Goto, Steps
  <2> QED BY <1>5, <2>1, <2>2 DEF TuneRun, Typed, DbOK, FilesOK, InputOK
<1>6. CASE TuneCommit(t)
  <2>0. PICK equal \in BOOLEAN : page' = Changed(made[t], [r \in made[t] |->
          [page[r] EXCEPT !.config = IF equal /\ seen[t][r].config THEN @ ELSE TRUE,
                          !.processed = IF seen[t][r].processed THEN @ ELSE TRUE]])
    BY <1>6 DEF TuneCommit
  <2> DEFINE config(r) == IF equal /\ seen[t][r].config THEN page[r].config ELSE TRUE
             done(r)   == IF seen[t][r].processed THEN page[r].processed ELSE TRUE
             row == [r \in made[t] |-> [page[r] EXCEPT !.config = config(r), !.processed = done(r)]]
  <2>1. \A r \in made[t] \cap DOMAIN page : row[r] \in Row
    <3> SUFFICES ASSUME NEW r \in made[t] \cap DOMAIN page PROVE row[r] \in Row
      OBVIOUS
    <3>1. page[r] \in Row /\ page[r].config \in BOOLEAN /\ page[r].processed \in BOOLEAN
      BY PageHas DEF Row
    <3>2. config(r) \in BOOLEAN /\ done(r) \in BOOLEAN BY <3>1
    <3>3. row[r] = [page[r] EXCEPT !.config = config(r), !.processed = done(r)] OBVIOUS
    <3> HIDE DEF config, done, row
    <3> QED BY <3>1, <3>2, <3>3 DEF Row
  <2>2. page' = Changed(made[t], row) BY <2>0
  <2>3. Changed(made[t], row) \in Tables BY <2>1, ChangedTyped
  <2> QED BY <1>6, <2>2, <2>3, CommitsTyped DEF TuneCommit
<1> QED BY <1>1, <1>2, <1>3, <1>4, <1>5, <1>6

LEMMA ReaderTyped ==
  ASSUME Typed, NEW o \in Tx,
         ReadPage(o) \/ ReadImage(o) \/ ReadFlush(o) \/ ReadLook(o) \/ ReadCommit(o) \/ Correct(o)
  PROVE  Typed'
<1>0. DOMAIN seen[o] \in SUBSET Rows BY SeenHas
<1>1. CASE ReadPage(o)
  BY <1>1, ReadsOneTyped DEF ReadPage
<1>2. CASE ReadImage(o)
  <2>0. Lacks(o) \in SUBSET Rows BY <1>0 DEF Lacks
  <2>1. processed' \subseteq Pages BY <1>2, <2>0, NumberTyped DEF ReadImage, Typed, FilesOK
  <2>2. SessionOK' BY <1>2, <2>0 DEF ReadImage, Typed, SessionOK, Goto, Steps
  <2> QED BY <1>2, <2>1, <2>2 DEF ReadImage, Typed, DbOK, FilesOK, InputOK
<1>3. CASE ReadFlush(o)
  <2>1. SessionOK' BY <1>3 DEF ReadFlush, Typed, SessionOK, Goto, Steps
  <2> QED BY <1>3, <2>1 DEF ReadFlush, Typed, DbOK, FilesOK, InputOK
<1>4. CASE ReadLook(o)
  <2> DEFINE f == [r \in DOMAIN seen[o] |-> IF r \in DOMAIN page THEN page[r] ELSE Fresh]
  <2>1. f \in [DOMAIN seen[o] -> Row] BY PageHas, FreshTyped
  <2>2. f \in Tables BY <1>0, <2>1, TableIs
  <2>3. seen' = [seen EXCEPT ![o] = f] BY <1>4 DEF ReadLook, Typed, SessionOK
  <2>4. seen' \in [Tx -> Tables] BY <2>2, <2>3 DEF Typed, SessionOK
  <2>5. SessionOK' BY <1>4, <2>4 DEF ReadLook, Typed, SessionOK, Goto, Steps
  <2> QED BY <1>4, <2>5 DEF ReadLook, Typed, DbOK, FilesOK, InputOK
<1>5. CASE ReadCommit(o)
  <2> DEFINE row == [r \in DOMAIN page |->
        [page[r] EXCEPT !.processed = @ \/ made[o] # {}, !.result = TRUE]]
  <2>1. \A r \in DOMAIN page : row[r] \in Row
    <3> SUFFICES ASSUME NEW r \in DOMAIN page PROVE row[r] \in Row
      OBVIOUS
    <3>1. page[r] \in Row /\ page[r].processed \in BOOLEAN BY PageHas
    <3>2. (page[r].processed \/ made[o] # {}) \in BOOLEAN BY <3>1
    <3>3. row[r] = [page[r] EXCEPT !.processed = (page[r].processed \/ made[o] # {}), !.result = TRUE]
      OBVIOUS
    <3> HIDE DEF row
    <3> QED BY <3>1, <3>2, <3>3 DEF Row
  <2>2. Changed(todo[o], row) \in Tables BY <2>1, ChangedTyped
  <2> QED BY <1>5, <2>2, CommitsTyped DEF ReadCommit
<1>6. CASE Correct(o)
  <2> DEFINE row == [x \in DOMAIN page |-> [page[x] EXCEPT !.corrected = o]]
  <2>1. PICK r \in DOMAIN page : page' = Changed({r}, row) BY <1>6 DEF Correct
  <2>2. o \in Correctors BY <1>6 DEF Correct
  <2>3. \A x \in DOMAIN page : row[x] \in Row BY <2>2, PageHas, MarkedTyped
  <2>4. page' \in Tables BY <2>1, <2>3, ChangedTyped
  <2> QED BY <1>6, <2>4, CommitsTyped DEF Correct
<1> QED BY <1>1, <1>2, <1>3, <1>4, <1>5, <1>6

LEMMA AdminTyped ==
  ASSUME Typed, NEW q \in Tx,
         RerunRead(q) \/ RerunClear(q) \/ RerunCommit(q) \/ ResetClear(q) \/ ResetCommit(q)
           \/ DeleteCommit(q) \/ DeletePurge(q)
  PROVE  Typed'
<1>0. DOMAIN page \in SUBSET Rows /\ \A r \in DOMAIN page : page[r] \in Row
  BY TableHas DEF Typed, DbOK
<1>1. CASE RerunRead(q)
  <2>1. page \in Tables /\ "read" \in Steps BY DEF Typed, DbOK, Steps
  <2>2. DbOK' /\ FilesOK' /\ SessionOK' BY <1>1, <2>1, ReadsTyped DEF RerunRead
  <2> QED BY <1>1, <2>2 DEF Typed, InputOK, RerunRead
<1>2. CASE RerunClear(q)
  <2>1. SessionOK' BY <1>2, <1>0 DEF RerunClear, Typed, SessionOK, Goto, Steps
  <2> QED BY <1>2, <2>1 DEF RerunClear, Typed, DbOK, FilesOK, InputOK
<1>3. CASE RerunCommit(q)
  <2> DEFINE row == [r \in locked[q] |->
        [page[r] EXCEPT !.config = @ /\ ~seen[q][r].config,
                        !.processed = @ /\ ~seen[q][r].processed,
                        !.result = @ /\ r \notin made[q],
                        !.corrected = IF r \in made[q] THEN Nobody ELSE @]]
  <2>1. \A r \in locked[q] \cap DOMAIN page : row[r] \in Row
    <3> SUFFICES ASSUME NEW r \in locked[q] \cap DOMAIN page PROVE row[r] \in Row
      OBVIOUS
    <3>1. /\ page[r] \in Row /\ page[r].processed \in BOOLEAN /\ page[r].config \in BOOLEAN
          /\ page[r].result \in BOOLEAN /\ page[r].corrected \in Correctors \cup {Nobody}
      BY PageHas
    <3> DEFINE b == page[r].config /\ ~seen[q][r].config
               a == page[r].processed /\ ~seen[q][r].processed
               c == page[r].result /\ r \notin made[q]
               d == IF r \in made[q] THEN Nobody ELSE page[r].corrected
    <3>2. a \in BOOLEAN /\ b \in BOOLEAN /\ c \in BOOLEAN /\ d \in Correctors \cup {Nobody}
      BY <3>1
    <3>3. row[r] = [page[r] EXCEPT !.config = b, !.processed = a, !.result = c, !.corrected = d]
      OBVIOUS
    <3>4. [page[r] EXCEPT !.config = b, !.processed = a, !.result = c, !.corrected = d] \in Row
      BY <3>1, <3>2 DEF Row
    <3> QED BY <3>3, <3>4
  <2>2. Changed(locked[q], row) \in Tables BY <2>1, ChangedTyped
  <2> QED BY <1>3, <2>2, CommitsTyped DEF RerunCommit
<1>4. CASE ResetClear(q)
  <2>1. SessionOK' BY <1>4, <1>0 DEF ResetClear, Typed, SessionOK, Goto, Steps
  <2> QED BY <1>4, <2>1 DEF ResetClear, Typed, DbOK, FilesOK, InputOK
<1>5. CASE ResetCommit(q)
  <2> DEFINE f == [r \in DOMAIN page \ locked[q] |-> page[r]]
  <2>1. f \in [DOMAIN page \ locked[q] -> Row] /\ DOMAIN page \ locked[q] \in SUBSET Rows BY <1>0
  <2>2. f \in Tables BY <2>1, TableIs
  <2> QED BY <1>5, <2>2, CommitsTyped DEF ResetCommit
<1>6. CASE DeleteCommit(q)
  <2>1. SessionOK' BY <1>6 DEF DeleteCommit, Typed, SessionOK, Goto, Steps
  <2>2. DbOK' BY <1>6, FreshTyped DEF DeleteCommit, DbOK
  <2> QED BY <1>6, <2>1, <2>2 DEF DeleteCommit, Typed, FilesOK, InputOK
<1>7. CASE DeletePurge(q)
  <2>1. SessionOK' /\ InputOK' BY <1>7, EndsTyped DEF DeletePurge
  <2>2. FilesOK' /\ DbOK' BY <1>7 DEF DeletePurge, Typed, FilesOK, DbOK
  <2> QED BY <2>1, <2>2 DEF Typed
<1> QED BY <1>1, <1>2, <1>3, <1>4, <1>5, <1>6, <1>7

LEMMA NextTyped == Typed /\ [Next]_vars => Typed'
<1> SUFFICES ASSUME Typed, [Next]_vars PROVE Typed'
  OBVIOUS
<1>1. CASE UNCHANGED vars
  BY <1>1 DEF vars, Typed, DbOK, FilesOK, InputOK, SessionOK
<1>2. ASSUME NEW t \in Tx, Step(t) PROVE Typed'
  BY <1>2, SelectionTyped, TaskTyped, ReaderTyped, AdminTyped DEF Step
<1>3. ASSUME NEW t \in Tx, Fail(t) PROVE Typed'
  <2>1. SessionOK' /\ InputOK' BY <1>3, EndsTyped DEF Fail, Fails
  <2> QED BY <1>3, <2>1 DEF Fail, Fails, Typed, DbOK, FilesOK
<1> QED BY <1>1, <1>2, <1>3 DEF Next

LEMMA InitTyped == Init => Typed
BY FreshTyped, Kinds DEF Init, Typed, DbOK, FilesOK, InputOK, SessionOK, Steps

LEMMA TypedAlways == Spec => []Typed
BY InitTyped, NextTyped, PTL DEF Spec

\* Every variable keeps its type, whatever the number of pages and transactions.
THEOREM TypeCorrect == Spec => []TypeOK
BY TypedAlways, TypedIsTypeOK, PTL

-----------------------------------------------------------------------------
(* What a step does to the rows. *)

LEMMA ChangedRow ==
  ASSUME NEW R, NEW row, page' = Changed(R, row)
  PROVE  /\ DOMAIN page' = DOMAIN page
         /\ \A r \in DOMAIN page : page'[r] = IF r \in R THEN row[r] ELSE page[r]
BY DEF Changed

\* Rows stay, or are dropped, unless a selection commits.
LEMMA NoNewRows ==
  ASSUME NEW t \in Tx, Step(t) \/ Fail(t), ~SelectCommit(t)
  PROVE  DOMAIN page' \subseteq DOMAIN page
<1>1. CASE SelectRead(t) \/ PrepRead(t) \/ RerunRead(t)
  BY <1>1 DEF SelectRead, PrepRead, RerunRead, Reads
<1>2. CASE TuneRead(t) \/ ReadPage(t)
  BY <1>2 DEF TuneRead, ReadPage, ReadsOne, Reads
<1>3. CASE SelectUnlink(t) \/ SelectFlush(t) \/ SelectRender(t) \/ SelectRenderFails(t) \/ PrepPage(t)
             \/ TuneRun(t) \/ ReadImage(t) \/ ReadFlush(t) \/ ReadLook(t) \/ RerunClear(t)
             \/ ResetClear(t) \/ DeletePurge(t) \/ Fail(t)
  BY <1>3 DEF SelectUnlink, SelectFlush, SelectRender, SelectRenderFails, PrepPage, TuneRun,
       ReadImage, ReadFlush, ReadLook, RerunClear, ResetClear, DeletePurge, Fail, Fails
<1>4. CASE PrepCommit(t)
  BY <1>4, ChangedRow DEF PrepCommit
<1>5. CASE TuneCommit(t)
  BY <1>5, ChangedRow DEF TuneCommit
<1>6. CASE ReadCommit(t)
  BY <1>6, ChangedRow DEF ReadCommit
<1>7. CASE Correct(t)
  BY <1>7, ChangedRow DEF Correct
<1>8. CASE RerunCommit(t)
  BY <1>8, ChangedRow DEF RerunCommit
<1>9. CASE ResetCommit(t)
  BY <1>9 DEF ResetCommit
<1>10. CASE DeleteCommit(t)
  BY <1>10, FreshTyped DEF DeleteCommit
<1> QED BY <1>1, <1>2, <1>3, <1>4, <1>5, <1>6, <1>7, <1>8, <1>9, <1>10 DEF Step

LEMMA BookStays ==
  ASSUME NEW t \in Tx, Step(t) \/ Fail(t), ~DeleteCommit(t)
  PROVE  exists' = exists
<1>1. CASE SelectRead(t) \/ PrepRead(t) \/ RerunRead(t)
  BY <1>1 DEF SelectRead, PrepRead, RerunRead, Reads
<1>2. CASE TuneRead(t) \/ ReadPage(t)
  BY <1>2 DEF TuneRead, ReadPage, ReadsOne, Reads
<1>3. CASE SelectUnlink(t) \/ SelectFlush(t) \/ SelectRender(t) \/ SelectRenderFails(t) \/ PrepPage(t)
             \/ TuneRun(t) \/ ReadImage(t) \/ ReadFlush(t) \/ ReadLook(t) \/ RerunClear(t)
             \/ ResetClear(t) \/ DeletePurge(t) \/ Fail(t)
  BY <1>3 DEF SelectUnlink, SelectFlush, SelectRender, SelectRenderFails, PrepPage, TuneRun,
       ReadImage, ReadFlush, ReadLook, RerunClear, ResetClear, DeletePurge, Fail, Fails
<1>4. CASE SelectCommit(t) \/ PrepCommit(t) \/ TuneCommit(t) \/ ReadCommit(t) \/ Correct(t)
             \/ RerunCommit(t) \/ ResetCommit(t)
  BY <1>4 DEF SelectCommit, PrepCommit, TuneCommit, ReadCommit, Correct, RerunCommit, ResetCommit,
       Commits
<1> QED BY <1>1, <1>2, <1>3, <1>4 DEF Step

LEMMA DeletedStep == NothingOfADeletedBook /\ [Next]_vars => NothingOfADeletedBook'
<1> SUFFICES ASSUME NothingOfADeletedBook, [Next]_vars PROVE NothingOfADeletedBook'
  OBVIOUS
<1>1. CASE UNCHANGED vars
  BY <1>1 DEF vars, NothingOfADeletedBook
<1>2. ASSUME NEW t \in Tx, Step(t) \/ Fail(t) PROVE NothingOfADeletedBook'
  <2>1. CASE DeleteCommit(t)
    BY <2>1, FreshTyped DEF DeleteCommit, NothingOfADeletedBook
  <2>2. CASE SelectCommit(t)
    BY <2>2 DEF SelectCommit, Commits, NothingOfADeletedBook
  <2>3. CASE ~DeleteCommit(t) /\ ~SelectCommit(t)
    <3>1. exists' = exists BY <1>2, <2>3, BookStays
    <3>2. DOMAIN page' \subseteq DOMAIN page BY <1>2, <2>3, NoNewRows
    <3> QED BY <3>1, <3>2 DEF NothingOfADeletedBook
  <2> QED BY <2>1, <2>2, <2>3
<1> QED BY <1>1, <1>2 DEF Next

LEMMA DeletedAlways == Spec => []NothingOfADeletedBook
<1>1. Init => NothingOfADeletedBook BY DEF Init, NothingOfADeletedBook
<1> QED BY <1>1, DeletedStep, PTL DEF Spec

\* A selection, task or correction that was under way when the book was deleted
\* stores nothing: the book is looked for by each commit that adds a row.
THEOREM DeletedBookStaysEmpty == Spec => []NothingOfADeletedBook
BY DeletedAlways

-----------------------------------------------------------------------------
(* Corrections. *)
LEMMA CorrectionStep ==
  ASSUME Typed, NEW t \in Tx, Step(t) \/ Fail(t), NEW r \in DOMAIN page,
         page[r].corrected # Nobody
  PROVE  \/ r \in DOMAIN page' /\ page'[r].corrected = page[r].corrected
         \/ \E u \in Tx \ (Readers \cup Preprocessors \cup Tuners) : Acknowledged(u)
<1>0. at \in [Tx -> Steps] BY DEF Typed, SessionOK
<1>r. page[r] \in Row BY PageHas
<1>1. CASE UNCHANGED page
  BY <1>1
<1>2. CASE SelectRead(t) \/ PrepRead(t) \/ RerunRead(t)
  BY <1>1, <1>2 DEF SelectRead, PrepRead, RerunRead, Reads
<1>3. CASE TuneRead(t) \/ ReadPage(t)
  BY <1>1, <1>3 DEF TuneRead, ReadPage, ReadsOne, Reads
<1>4. CASE SelectUnlink(t) \/ SelectFlush(t) \/ SelectRender(t) \/ SelectRenderFails(t) \/ PrepPage(t)
             \/ TuneRun(t) \/ ReadImage(t) \/ ReadFlush(t) \/ ReadLook(t) \/ RerunClear(t)
             \/ ResetClear(t) \/ DeletePurge(t) \/ Fail(t)
  BY <1>1, <1>4 DEF SelectUnlink, SelectFlush, SelectRender, SelectRenderFails, PrepPage, TuneRun,
       ReadImage, ReadFlush, ReadLook, RerunClear, ResetClear, DeletePurge, Fail, Fails
<1>5. CASE PrepCommit(t)
  <2> DEFINE row == [x \in DOMAIN page |-> [page[x] EXCEPT !.processed = TRUE]]
  <2>1. page' = Changed(made[t], row) BY <1>5 DEF PrepCommit
  <2>2. r \in DOMAIN page' /\ page'[r] = IF r \in made[t] THEN row[r] ELSE page[r]
    BY <2>1, ChangedRow
  <2>3. row[r].corrected = page[r].corrected BY <1>r DEF Row
  <2> QED BY <2>2, <2>3
<1>6. CASE TuneCommit(t)
  <2>0. PICK equal \in BOOLEAN : page' = Changed(made[t], [x \in made[t] |->
          [page[x] EXCEPT !.config = IF equal /\ seen[t][x].config THEN @ ELSE TRUE,
                          !.processed = IF seen[t][x].processed THEN @ ELSE TRUE]])
    BY <1>6 DEF TuneCommit
  <2> DEFINE row == [x \in made[t] |->
        [page[x] EXCEPT !.config = IF equal /\ seen[t][x].config THEN @ ELSE TRUE,
                        !.processed = IF seen[t][x].processed THEN @ ELSE TRUE]]
  <2>1. page' = Changed(made[t], row) BY <2>0
  <2>2. r \in DOMAIN page' /\ page'[r] = IF r \in made[t] THEN row[r] ELSE page[r]
    BY <2>1, ChangedRow
  <2>3. r \in made[t] => row[r].corrected = page[r].corrected BY <1>r DEF Row
  <2> QED BY <2>2, <2>3
<1>7. CASE ReadCommit(t)
  <2> DEFINE row == [x \in DOMAIN page |->
        [page[x] EXCEPT !.processed = @ \/ made[t] # {}, !.result = TRUE]]
  <2>1. page' = Changed(todo[t], row) BY <1>7 DEF ReadCommit
  <2>2. r \in DOMAIN page' /\ page'[r] = IF r \in todo[t] THEN row[r] ELSE page[r]
    BY <2>1, ChangedRow
  <2>3. row[r].corrected = page[r].corrected BY <1>r DEF Row
  <2> QED BY <2>2, <2>3
<1>8. CASE SelectCommit(t) \/ Correct(t) \/ RerunCommit(t) \/ ResetCommit(t)
  <2>1. t \in Selections \/ t \in Correctors \/ t \in Reruns \/ t \in Resets
    BY <1>8 DEF SelectCommit, Correct, RerunCommit, ResetCommit
  <2>2. t \in Tx \ (Readers \cup Preprocessors \cup Tuners) BY <2>1, Kinds
  <2>3. at[t] \in {"rendered", "idle", "flushed"} /\ at' = [at EXCEPT ![t] = "done"]
    BY <1>8 DEF SelectCommit, Correct, RerunCommit, ResetCommit, Commits, Ends, Goto, Begins
  <2>4. Acknowledged(t) BY <1>0, <2>3 DEF Acknowledged
  <2> QED BY <2>2, <2>4
<1>9. CASE DeleteCommit(t)
  <2>1. t \in Tx \ (Readers \cup Preprocessors \cup Tuners) BY <1>9, Kinds DEF DeleteCommit
  <2>2. at[t] = "idle" /\ at' = [at EXCEPT ![t] = "purging"]
    BY <1>9 DEF DeleteCommit, Goto, Begins
  <2>3. Acknowledged(t) BY <1>0, <2>2 DEF Acknowledged
  <2> QED BY <2>1, <2>3
<1> QED BY <1>2, <1>3, <1>4, <1>5, <1>6, <1>7, <1>8, <1>9 DEF Step

\* No task and no preprocessing of a page takes an acknowledged correction away.
THEOREM OnlyRequestsDropCorrections == Spec => CorrectionsKept
<1> DEFINE A == \A r \in DOMAIN page :
      page[r].corrected # Nobody =>
        \/ r \in DOMAIN page' /\ page'[r].corrected = page[r].corrected
        \/ \E t \in Tx \ (Readers \cup Preprocessors \cup Tuners) : Acknowledged(t)
<1>1. Typed /\ [Next]_vars => [A]_vars
  BY CorrectionStep DEF Next
<1>2. []Typed /\ [][Next]_vars => [][A]_vars BY <1>1, PTL
<1>3. Spec => [][A]_vars BY <1>2, TypedAlways, PTL DEF Spec
<1> QED BY <1>3 DEF CorrectionsKept

-----------------------------------------------------------------------------
(* Processed images. *)
Makers == Preprocessors \cup Tuners \cup Readers
\* What a task has made is there for it to name, while the book is.
MadeExist == exists => \A t \in Makers : \A r \in made[t] : Number(r) \in processed
\* A reader and the request of a page are about one row.
OneRow == \A t \in Tuners \cup Readers :
  /\ DOMAIN seen[t] = todo[t] /\ made[t] \subseteq todo[t] /\ \E x : todo[t] \subseteq {x}
  /\ at[t] = "idle" => made[t] = {}
\* Files are purged when the book is gone.
PurgedWhenGone == \A t \in Tx : at[t] = "purging" => ~exists
ImagesInv == MadeExist /\ OneRow /\ PurgedWhenGone /\ NothingOfADeletedBook /\ ProcessedImagesExist

\* A step that takes neither files nor the book away, and commits nothing.
LEMMA QuietImages ==
  ASSUME Typed, ImagesInv, NEW t \in Tx, processed \subseteq processed', exists' = exists, page' = page,
         \A u \in Tx : u # t => made'[u] = made[u] /\ seen'[u] = seen[u] /\ todo'[u] = todo[u]
                                 /\ at'[u] = at[u],
         at'[t] # "purging",
         t \in Makers => \A r \in made'[t] : Number(r) \in processed',
         t \in Tuners \cup Readers =>
           /\ DOMAIN seen'[t] = todo'[t] /\ made'[t] \subseteq todo'[t] /\ \E x : todo'[t] \subseteq {x}
           /\ at'[t] = "idle" => made'[t] = {}
  PROVE  ImagesInv'
<1>0. Makers \subseteq Tx /\ Tuners \cup Readers \subseteq Tx BY Kinds DEF Makers
<1>1. MadeExist'
  <2> SUFFICES ASSUME exists', NEW u \in Makers, NEW r \in made'[u] PROVE Number(r) \in processed'
    BY DEF MadeExist
  <2>1. CASE u = t BY <2>1
  <2>2. CASE u # t BY <2>2, <1>0 DEF ImagesInv, MadeExist
  <2> QED BY <2>1, <2>2
<1>2. OneRow'
  <2> SUFFICES ASSUME NEW u \in Tuners \cup Readers
               PROVE  DOMAIN seen'[u] = todo'[u] /\ made'[u] \subseteq todo'[u]
                        /\ (\E x : todo'[u] \subseteq {x}) /\ (at'[u] = "idle" => made'[u] = {})
    BY DEF OneRow
  <2>1. CASE u = t BY <2>1
  <2>2. CASE u # t BY <2>2, <1>0 DEF ImagesInv, OneRow
  <2> QED BY <2>1, <2>2
<1>3. PurgedWhenGone' BY DEF ImagesInv, PurgedWhenGone
<1>4. NothingOfADeletedBook' BY DEF ImagesInv, NothingOfADeletedBook
<1>5. ProcessedImagesExist' BY DEF ImagesInv, ProcessedImagesExist
<1> QED BY <1>1, <1>2, <1>3, <1>4, <1>5 DEF ImagesInv

\* The end of a transaction that purges nothing.
LEMMA EndImages ==
  ASSUME Typed, ImagesInv, NEW t \in Tx, NEW o \in {"done", "failed"}, Ends(t, o),
         processed' = processed, exists' = exists, NothingOfADeletedBook', ProcessedImagesExist'
  PROVE  ImagesInv'
<1>0. Makers \subseteq Tx /\ Tuners \cup Readers \subseteq Tx BY Kinds DEF Makers
<1>1. /\ at' = [at EXCEPT ![t] = o] /\ seen' = [seen EXCEPT ![t] = NoRows]
      /\ todo' = [todo EXCEPT ![t] = {}] /\ made' = [made EXCEPT ![t] = {}]
  BY DEF Ends, Goto
<1>2. /\ DOMAIN at = Tx /\ DOMAIN seen = Tx /\ DOMAIN todo = Tx /\ DOMAIN made = Tx
  BY DEF Typed, SessionOK
<1>3. MadeExist' BY <1>0, <1>1, <1>2 DEF ImagesInv, MadeExist
<1>4. OneRow' BY <1>0, <1>1, <1>2, FreshTyped DEF ImagesInv, OneRow
<1>5. PurgedWhenGone' BY <1>1, <1>2 DEF ImagesInv, PurgedWhenGone
<1> QED BY <1>3, <1>4, <1>5 DEF ImagesInv

LEMMA ReadsImages ==
  ASSUME Typed, ImagesInv, NEW t \in Tx, NEW rows, Reads(t, rows, "read"),
         t \in Tuners \cup Readers => \E x : DOMAIN rows \subseteq {x}
  PROVE  ImagesInv'
<1>1. /\ at' = [at EXCEPT ![t] = "read"] /\ seen' = [seen EXCEPT ![t] = rows]
      /\ todo' = [todo EXCEPT ![t] = DOMAIN rows] /\ UNCHANGED <<exists, page, processed, made>>
  BY DEF Reads, Goto
<1>2. /\ DOMAIN at = Tx /\ DOMAIN seen = Tx /\ DOMAIN todo = Tx /\ DOMAIN made = Tx
  BY DEF Typed, SessionOK
<1>3. exists /\ at[t] = "idle" BY DEF Reads, Begins
<1>4. t \in Makers => \A r \in made'[t] : Number(r) \in processed'
  BY <1>1, <1>3 DEF ImagesInv, MadeExist
<1>5. t \in Tuners \cup Readers => made[t] = {} BY <1>3 DEF ImagesInv, OneRow
<1>6. at'[t] = "read" /\ seen'[t] = rows /\ todo'[t] = DOMAIN rows /\ made'[t] = made[t]
  BY <1>1, <1>2
<1>7. \A u \in Tx : u # t => made'[u] = made[u] /\ seen'[u] = seen[u] /\ todo'[u] = todo[u]
                                 /\ at'[u] = at[u]
  BY <1>1, <1>2
<1> QED BY <1>1, <1>4, <1>5, <1>6, <1>7, QuietImages

LEMMA ReadsOneImages ==
  ASSUME Typed, ImagesInv, NEW t \in Tx, ReadsOne(t)
  PROVE  ImagesInv'
<1>1. PICK r \in DOMAIN page : Reads(t, [x \in {r} |-> page[x]], "read") BY DEF ReadsOne
<1>2. DOMAIN [x \in {r} |-> page[x]] \subseteq {r} OBVIOUS
<1>3. t \in Tuners \cup Readers => \E x : DOMAIN [y \in {r} |-> page[y]] \subseteq {x} BY <1>2
<1> QED BY <1>1, <1>3, ReadsImages

\* A step that has to do with none of the processed images.
LEMMA OtherImages ==
  ASSUME Typed, ImagesInv, NEW t \in Tx, t \notin Makers, at' = [at EXCEPT ![t] = at'[t]], at'[t] # "purging",
         UNCHANGED <<exists, page, processed>>,
         \A u \in Tx : u # t => made'[u] = made[u] /\ seen'[u] = seen[u] /\ todo'[u] = todo[u]
  PROVE  ImagesInv'
<1>1. \A u \in Tx : u # t => at'[u] = at[u] BY DEF Typed, SessionOK
<1>2. t \notin Tuners \cup Readers BY DEF Makers
<1> QED BY <1>1, <1>2, QuietImages

LEMMA SelectionImages ==
  ASSUME Typed, ImagesInv, NEW t \in Tx,
         SelectRead(t) \/ SelectUnlink(t) \/ SelectFlush(t) \/ SelectRender(t)
           \/ SelectRenderFails(t) \/ SelectCommit(t)
  PROVE  ImagesInv'
<1>0. t \notin Makers /\ at[t] \in Steps /\ DOMAIN at = Tx /\ DOMAIN todo = Tx
  <2>1. t \in Selections
    BY DEF SelectRead, SelectUnlink, SelectFlush, SelectRender, SelectRenderFails, SelectCommit
  <2> QED BY <2>1, Kinds DEF Makers, Typed, SessionOK
<1>1. CASE SelectRead(t)
  BY <1>0, <1>1, ReadsImages DEF SelectRead, Makers
<1>2. CASE SelectUnlink(t)
  <2>1. /\ at[t] = "read" /\ at' = at /\ made' = made /\ seen' = seen
        /\ UNCHANGED <<exists, page, processed>>
        /\ \A u \in Tx : u # t => todo'[u] = todo[u]
    BY <1>0, <1>2 DEF SelectUnlink
  <2>2. at' = [at EXCEPT ![t] = at'[t]] BY <2>1, <1>0 DEF Typed, SessionOK
  <2>3. at'[t] # "purging" BY <2>1
  <2> QED BY <1>0, <2>1, <2>2, <2>3, OtherImages
<1>3. CASE SelectFlush(t)
  BY <1>0, <1>3, OtherImages DEF SelectFlush, Goto
<1>4. CASE SelectRender(t)
  BY <1>0, <1>4, OtherImages DEF SelectRender, Goto
<1>5. CASE SelectRenderFails(t)
  <2>1. Ends(t, "failed") /\ UNCHANGED <<exists, page, processed>> BY <1>5 DEF SelectRenderFails
  <2>2. NothingOfADeletedBook' /\ ProcessedImagesExist'
    BY <2>1 DEF ImagesInv, NothingOfADeletedBook, ProcessedImagesExist
  <2> QED BY <2>1, <2>2, EndImages
<1>6. CASE SelectCommit(t)
  <2>1. /\ Ends(t, "done") /\ UNCHANGED <<exists, processed>> /\ exists
        /\ page' = [r \in (DOMAIN page \ locked[t]) \cup NewRows(t) |->
                      IF r \in NewRows(t) THEN Fresh ELSE page[r]]
    BY <1>6 DEF SelectCommit, Commits
  <2>2. NothingOfADeletedBook' BY <2>1 DEF NothingOfADeletedBook
  <2>3. ProcessedImagesExist'
    BY <2>1 DEF ImagesInv, ProcessedImagesExist, Fresh
  <2> QED BY <2>1, <2>2, <2>3, EndImages
<1> QED BY <1>1, <1>2, <1>3, <1>4, <1>5, <1>6

\* A commit of changed rows, each of them with the image it names.
LEMMA ChangeImages ==
  ASSUME Typed, ImagesInv, NEW t \in Tx, Commits(t), NEW R, NEW row, page' = Changed(R, row),
         \A r \in R \cap DOMAIN page : exists /\ row[r].processed => Number(r) \in processed
  PROVE  ImagesInv'
<1>1. Ends(t, "done") /\ UNCHANGED <<exists, processed>> BY DEF Commits
<1>2. /\ DOMAIN page' = DOMAIN page
      /\ \A r \in DOMAIN page : page'[r] = IF r \in R THEN row[r] ELSE page[r]
  BY ChangedRow
<1>3. NothingOfADeletedBook' BY <1>1, <1>2 DEF ImagesInv, NothingOfADeletedBook
<1>4. ProcessedImagesExist'
  <2> SUFFICES ASSUME NEW r \in DOMAIN page, page'[r].processed PROVE Number(r) \in processed
    BY <1>1, <1>2 DEF ProcessedImagesExist
  <2>1. exists BY DEF ImagesInv, NothingOfADeletedBook
  <2>2. CASE r \in R BY <1>2, <2>1, <2>2
  <2>3. CASE r \notin R BY <1>2, <2>3 DEF ImagesInv, ProcessedImagesExist
  <2> QED BY <2>2, <2>3
<1> QED BY <1>1, <1>3, <1>4, EndImages

LEMMA TaskImages ==
  ASSUME Typed, ImagesInv, NEW t \in Tx,
         PrepRead(t) \/ PrepPage(t) \/ PrepCommit(t) \/ TuneRead(t) \/ TuneRun(t) \/ TuneCommit(t)
  PROVE  ImagesInv'
<1>0. /\ DOMAIN at = Tx /\ DOMAIN seen = Tx /\ DOMAIN todo = Tx /\ DOMAIN made = Tx
  BY DEF Typed, SessionOK
<1>1. CASE PrepRead(t)
  BY <1>1, ReadsImages, Kinds DEF PrepRead
<1>2. CASE PrepPage(t)
  <2>0. t \notin Tuners \cup Readers /\ t \in Makers BY <1>2, Kinds DEF PrepPage, Makers
  <2>1. PICK r \in todo[t] :
          /\ todo' = [todo EXCEPT ![t] = @ \ {r}]
          /\ IF seen[t][r].config /\ ~seen[t][r].processed /\ Number(r) \in images
               THEN made' = [made EXCEPT ![t] = @ \cup {r}] /\ processed' = processed \cup {Number(r)}
               ELSE UNCHANGED <<made, processed>>
    BY <1>2 DEF PrepPage
  <2>2. at[t] = "read" /\ UNCHANGED <<exists, page, seen, at>> BY <1>2 DEF PrepPage
  <2>3. MadeExist'
    <3> SUFFICES ASSUME exists, NEW u \in Makers, NEW x \in made'[u] PROVE Number(x) \in processed'
      BY <2>2 DEF MadeExist
    <3>1. x \in made[u] => Number(x) \in processed BY DEF ImagesInv, MadeExist
    <3>2. processed \subseteq processed' BY <2>1
    <3>3. CASE x \in made[u] BY <3>1, <3>2, <3>3
    <3>4. CASE x \notin made[u]
      <4>1. made' # made BY <3>4
      <4>2. made' = [made EXCEPT ![t] = @ \cup {r}] /\ processed' = processed \cup {Number(r)}
        BY <2>1, <4>1
      <4>3. u \in Tx BY Kinds DEF Makers
      <4>4. x = r BY <1>0, <3>4, <4>2, <4>3
      <4> QED BY <4>2, <4>4
    <3> QED BY <3>3, <3>4
  <2>4. OneRow'
    <3>1. \A u \in Tuners \cup Readers : todo'[u] = todo[u] /\ made'[u] = made[u]
      BY <1>0, <2>0, <2>1, Kinds
    <3> QED BY <2>2, <3>1 DEF ImagesInv, OneRow
  <2>5. processed \subseteq processed' BY <2>1
  <2> QED BY <2>2, <2>3, <2>4, <2>5
       DEF ImagesInv, PurgedWhenGone, NothingOfADeletedBook, ProcessedImagesExist
<1>3. CASE PrepCommit(t)
  <2> DEFINE row == [r \in DOMAIN page |-> [page[r] EXCEPT !.processed = TRUE]]
  <2>1. page' = Changed(made[t], row) /\ Commits(t) BY <1>3 DEF PrepCommit
  <2>2. \A r \in made[t] : exists => Number(r) \in processed
    BY <1>3 DEF PrepCommit, ImagesInv, MadeExist, Makers
  <2> QED BY <2>1, <2>2, ChangeImages
<1>4. CASE TuneRead(t)
  BY <1>4, ReadsOneImages DEF TuneRead
<1>5. CASE TuneRun(t)
  <2>0. t \in Tuners BY <1>5 DEF TuneRun
  <2>1. /\ at' = [at EXCEPT ![t] = "prepared"] /\ made' = [made EXCEPT ![t] = DOMAIN seen[t]]
        /\ UNCHANGED <<exists, page, seen, todo>>
        /\ \E r \in todo[t] : processed' = processed \cup {Number(r)}
    BY <1>5 DEF TuneRun, Goto
  <2>2. PICK r \in todo[t] : processed' = processed \cup {Number(r)} BY <2>1
  <2>3. DOMAIN seen[t] = todo[t] /\ todo[t] \subseteq {r}
    BY <2>0, <2>2 DEF ImagesInv, OneRow
  <2>4. made'[t] = DOMAIN seen[t] /\ at'[t] = "prepared" BY <2>1, <1>0
  <2>5. \A x \in made'[t] : Number(x) \in processed' BY <2>2, <2>3, <2>4
  <2>6. processed \subseteq processed' BY <2>2
  <2>7. DOMAIN seen'[t] = todo'[t] /\ made'[t] \subseteq todo'[t] /\ \E x : todo'[t] \subseteq {x}
    BY <2>1, <2>3, <2>4
  <2>8. \A u \in Tx : u # t => made'[u] = made[u] /\ seen'[u] = seen[u] /\ todo'[u] = todo[u]
                                 /\ at'[u] = at[u]
    BY <2>1, <1>0
  <2> QED BY <2>1, <2>4, <2>5, <2>6, <2>7, <2>8, QuietImages
<1>6. CASE TuneCommit(t)
  <2>1. PICK equal \in BOOLEAN : page' = Changed(made[t], [r \in made[t] |->
          [page[r] EXCEPT !.config = IF equal /\ seen[t][r].config THEN @ ELSE TRUE,
                          !.processed = IF seen[t][r].processed THEN @ ELSE TRUE]])
    BY <1>6 DEF TuneCommit
  <2>2. Commits(t) /\ t \in Tuners BY <1>6 DEF TuneCommit
  <2>3. \A r \in made[t] : exists => Number(r) \in processed
    BY <1>6 DEF TuneCommit, ImagesInv, MadeExist, Makers
  <2> QED BY <2>1, <2>2, <2>3, ChangeImages
<1> QED BY <1>1, <1>2, <1>3, <1>4, <1>5, <1>6

LEMMA ReaderImages ==
  ASSUME Typed, ImagesInv, NEW t \in Tx,
         ReadPage(t) \/ ReadImage(t) \/ ReadFlush(t) \/ ReadLook(t) \/ ReadCommit(t) \/ Correct(t)
  PROVE  ImagesInv'
<1>0. /\ DOMAIN at = Tx /\ DOMAIN seen = Tx /\ DOMAIN todo = Tx /\ DOMAIN made = Tx
  BY DEF Typed, SessionOK
<1>1. CASE ReadPage(t)
  BY <1>1, ReadsOneImages DEF ReadPage
<1>2. CASE ReadImage(t)
  <2>0. t \in Readers BY <1>2 DEF ReadImage
  <2>1. /\ at' = [at EXCEPT ![t] = "prepared"] /\ made' = [made EXCEPT ![t] = Lacks(t)]
        /\ UNCHANGED <<exists, page, seen, todo>>
        /\ processed' = processed \cup {Number(r) : r \in Lacks(t)}
    BY <1>2 DEF ReadImage, Goto
  <2>2. DOMAIN seen[t] = todo[t] /\ \E x : todo[t] \subseteq {x} BY <2>0 DEF ImagesInv, OneRow
  <2>3. Lacks(t) \subseteq todo[t] BY <2>2 DEF Lacks
  <2>4. made'[t] = Lacks(t) /\ at'[t] = "prepared" BY <2>1, <1>0
  <2>5. \A x \in made'[t] : Number(x) \in processed' BY <2>1, <2>4
  <2>6. processed \subseteq processed' BY <2>1
  <2>7. DOMAIN seen'[t] = todo'[t] /\ made'[t] \subseteq todo'[t] /\ \E x : todo'[t] \subseteq {x}
    BY <2>1, <2>2, <2>3, <2>4
  <2>8. \A u \in Tx : u # t => made'[u] = made[u] /\ seen'[u] = seen[u] /\ todo'[u] = todo[u]
                                 /\ at'[u] = at[u]
    BY <2>1, <1>0
  <2> QED BY <2>1, <2>4, <2>5, <2>6, <2>7, <2>8, QuietImages
<1>3. CASE ReadFlush(t)
  <2>1. /\ at' = [at EXCEPT ![t] = "flushed"] /\ UNCHANGED <<exists, page, processed, seen, todo, made>>
        /\ exists' = exists /\ page' = page /\ processed' = processed
    BY <1>3 DEF ReadFlush, Goto
  <2> QED BY <1>0, <2>1 DEF ImagesInv, MadeExist, OneRow, PurgedWhenGone, NothingOfADeletedBook,
       ProcessedImagesExist
<1>4. CASE ReadLook(t)
  <2> DEFINE f == [r \in DOMAIN seen[t] |-> IF r \in DOMAIN page THEN page[r] ELSE Fresh]
  <2>0. t \in Readers BY <1>4 DEF ReadLook
  <2>1. /\ at' = [at EXCEPT ![t] = "looked"] /\ seen' = [seen EXCEPT ![t] = f]
        /\ UNCHANGED <<exists, page, processed, todo, made>>
    BY <1>4, <1>0 DEF ReadLook, Goto
  <2>2. /\ DOMAIN seen[t] = todo[t] /\ made[t] \subseteq todo[t] /\ \E x : todo[t] \subseteq {x}
    BY <2>0 DEF ImagesInv, OneRow
  <2>3. DOMAIN seen'[t] = DOMAIN seen[t] /\ at'[t] = "looked" BY <2>1, <1>0
  <2>4. \A u \in Tx : u # t => made'[u] = made[u] /\ seen'[u] = seen[u] /\ todo'[u] = todo[u]
                                 /\ at'[u] = at[u]
    BY <2>1, <1>0
  <2>5. OneRow'
    <3> SUFFICES ASSUME NEW u \in Tuners \cup Readers
                 PROVE  /\ DOMAIN seen'[u] = todo'[u] /\ made'[u] \subseteq todo'[u]
                        /\ (\E x : todo'[u] \subseteq {x}) /\ (at'[u] = "idle" => made'[u] = {})
      BY DEF OneRow
    <3>1. u \in Tx BY Kinds
    <3>2. CASE u = t BY <3>2, <2>1, <2>2, <2>3
    <3>3. CASE u # t BY <3>1, <3>3, <2>4 DEF ImagesInv, OneRow
    <3> QED BY <3>2, <3>3
  <2>6. PurgedWhenGone' BY <2>1, <2>3, <2>4 DEF ImagesInv, PurgedWhenGone
  <2> QED BY <2>1, <2>5, <2>6
       DEF ImagesInv, MadeExist, NothingOfADeletedBook, ProcessedImagesExist
<1>5. CASE ReadCommit(t)
  <2> DEFINE row == [r \in DOMAIN page |->
        [page[r] EXCEPT !.processed = @ \/ made[t] # {}, !.result = TRUE]]
  <2>1. page' = Changed(todo[t], row) /\ Commits(t) BY <1>5 DEF ReadCommit
  <2>2. t \in Readers BY <1>5 DEF ReadCommit
  <2>3. \A r \in todo[t] \cap DOMAIN page : exists /\ row[r].processed => Number(r) \in processed
    <3> SUFFICES ASSUME NEW r \in todo[t], r \in DOMAIN page, exists, row[r].processed
                 PROVE  Number(r) \in processed
      OBVIOUS
    <3>1. page[r] \in Row BY PageHas
    <3>2. page[r].processed \/ made[t] # {} BY <3>1 DEF Row
    <3>3. CASE page[r].processed BY <3>3 DEF ImagesInv, ProcessedImagesExist
    <3>4. CASE made[t] # {}
      <4>1. PICK m \in made[t] : TRUE BY <3>4
      <4>2. m = r BY <2>2, <4>1 DEF ImagesInv, OneRow
      <4> QED BY <2>2, <4>1, <4>2 DEF ImagesInv, MadeExist, Makers
    <3> QED BY <3>2, <3>3, <3>4
  <2> QED BY <2>1, <2>3, ChangeImages
<1>6. CASE Correct(t)
  <2> DEFINE row == [x \in DOMAIN page |-> [page[x] EXCEPT !.corrected = t]]
  <2>1. PICK r \in DOMAIN page : page' = Changed({r}, row) BY <1>6 DEF Correct
  <2>2. Commits(t) BY <1>6 DEF Correct
  <2>3. \A x \in {r} \cap DOMAIN page : exists /\ row[x].processed => Number(x) \in processed
    <3>1. page[r] \in Row BY PageHas
    <3>2. row[r].processed = page[r].processed BY <3>1 DEF Row
    <3> QED BY <3>2 DEF ImagesInv, ProcessedImagesExist
  <2> QED BY <2>1, <2>2, <2>3, ChangeImages
<1> QED BY <1>1, <1>2, <1>3, <1>4, <1>5, <1>6

LEMMA AdminImages ==
  ASSUME Typed, ImagesInv, NEW t \in Tx,
         RerunRead(t) \/ RerunClear(t) \/ RerunCommit(t) \/ ResetClear(t) \/ ResetCommit(t)
           \/ DeleteCommit(t) \/ DeletePurge(t)
  PROVE  ImagesInv'
<1>0. /\ DOMAIN at = Tx /\ DOMAIN seen = Tx /\ DOMAIN todo = Tx /\ DOMAIN made = Tx
  BY DEF Typed, SessionOK
<1>m. t \notin Makers /\ Makers \subseteq Tx
  <2>1. t \in Reruns \/ t \in Resets \/ t \in Deletions
    BY DEF RerunRead, RerunClear, RerunCommit, ResetClear, ResetCommit, DeleteCommit, DeletePurge
  <2> QED BY <2>1, Kinds DEF Makers
<1>1. CASE RerunRead(t)
  BY <1>1, <1>m, ReadsImages DEF RerunRead, Makers
<1>2. CASE RerunClear(t)
  <2>1. at' = [at EXCEPT ![t] = "flushed"] /\ UNCHANGED <<exists, page, processed, seen, todo>>
        /\ \A u \in Tx : u # t => made'[u] = made[u]
    BY <1>2, <1>0 DEF RerunClear, Goto
  <2> QED BY <1>0, <1>m, <2>1, OtherImages
<1>3. CASE RerunCommit(t)
  <2> DEFINE row == [r \in locked[t] |->
        [page[r] EXCEPT !.config = @ /\ ~seen[t][r].config,
                        !.processed = @ /\ ~seen[t][r].processed,
                        !.result = @ /\ r \notin made[t],
                        !.corrected = IF r \in made[t] THEN Nobody ELSE @]]
  <2>1. page' = Changed(locked[t], row) /\ Commits(t) BY <1>3 DEF RerunCommit
  <2>2. \A r \in locked[t] \cap DOMAIN page : exists /\ row[r].processed => Number(r) \in processed
    <3> SUFFICES ASSUME NEW r \in locked[t], r \in DOMAIN page, row[r].processed
                 PROVE  Number(r) \in processed
      OBVIOUS
    <3>1. page[r] \in Row BY PageHas
    <3>2. row[r].processed = (page[r].processed /\ ~seen[t][r].processed) BY <3>1 DEF Row
    <3>3. page[r].processed BY <3>2
    <3> QED BY <3>3 DEF ImagesInv, ProcessedImagesExist
  <2> QED BY <2>1, <2>2, ChangeImages
<1>4. CASE ResetClear(t)
  BY <1>0, <1>m, <1>4, OtherImages DEF ResetClear, Goto
<1>5. CASE ResetCommit(t)
  <2>1. /\ Ends(t, "done") /\ UNCHANGED <<exists, processed>>
        /\ page' = [r \in DOMAIN page \ locked[t] |-> page[r]]
    BY <1>5 DEF ResetCommit, Commits
  <2>2. NothingOfADeletedBook' /\ ProcessedImagesExist'
    BY <2>1 DEF ImagesInv, NothingOfADeletedBook, ProcessedImagesExist
  <2> QED BY <2>1, <2>2, EndImages
<1>6. CASE DeleteCommit(t)
  <2>1. /\ exists' = FALSE /\ page' = NoRows /\ at' = [at EXCEPT ![t] = "purging"]
        /\ UNCHANGED <<processed, seen, todo, made>>
    BY <1>6 DEF DeleteCommit, Goto
  <2>2. OneRow'
    <3>1. \A u \in Tuners \cup Readers : at'[u] = at[u] BY <1>0, <1>m, <2>1 DEF Makers
    <3> QED BY <2>1, <3>1 DEF ImagesInv, OneRow
  <2> QED BY <2>1, <2>2, FreshTyped
       DEF ImagesInv, MadeExist, PurgedWhenGone, NothingOfADeletedBook, ProcessedImagesExist
<1>7. CASE DeletePurge(t)
  <2>1. /\ at[t] = "purging" /\ UNCHANGED <<exists, page>> /\ Ends(t, "done")
    BY <1>7 DEF DeletePurge
  <2>2. ~exists /\ DOMAIN page = {}
    BY <2>1 DEF ImagesInv, PurgedWhenGone, NothingOfADeletedBook
  <2>3. /\ at' = [at EXCEPT ![t] = "done"] /\ seen' = [seen EXCEPT ![t] = NoRows]
        /\ todo' = [todo EXCEPT ![t] = {}] /\ made' = [made EXCEPT ![t] = {}]
    BY <2>1 DEF Ends, Goto
  <2>4. OneRow'
    <3>1. \A u \in Tuners \cup Readers :
            at'[u] = at[u] /\ seen'[u] = seen[u] /\ todo'[u] = todo[u] /\ made'[u] = made[u]
      BY <1>0, <1>m, <2>3 DEF Makers
    <3> QED BY <3>1 DEF ImagesInv, OneRow
  <2> QED BY <2>1, <2>2, <2>4
       DEF ImagesInv, MadeExist, PurgedWhenGone, NothingOfADeletedBook, ProcessedImagesExist
<1> QED BY <1>1, <1>2, <1>3, <1>4, <1>5, <1>6, <1>7

LEMMA NextImages == Typed /\ ImagesInv /\ [Next]_vars => ImagesInv'
<1> SUFFICES ASSUME Typed, ImagesInv, [Next]_vars PROVE ImagesInv'
  OBVIOUS
<1>1. CASE UNCHANGED vars
  BY <1>1 DEF vars, ImagesInv, MadeExist, OneRow, PurgedWhenGone, NothingOfADeletedBook,
       ProcessedImagesExist
<1>2. ASSUME NEW t \in Tx, Step(t) PROVE ImagesInv'
  BY <1>2, SelectionImages, TaskImages, ReaderImages, AdminImages DEF Step
<1>3. ASSUME NEW t \in Tx, Fail(t) PROVE ImagesInv'
  <2>1. Ends(t, "failed") /\ UNCHANGED <<exists, page, processed>> BY <1>3 DEF Fail, Fails
  <2>2. NothingOfADeletedBook' /\ ProcessedImagesExist'
    BY <2>1 DEF ImagesInv, NothingOfADeletedBook, ProcessedImagesExist
  <2> QED BY <2>1, <2>2, EndImages
<1> QED BY <1>1, <1>2, <1>3 DEF Next

LEMMA InitImages == Init => ImagesInv
<1> SUFFICES ASSUME Init PROVE ImagesInv
  OBVIOUS
<1>1. MadeExist BY Kinds DEF Init, MadeExist, Makers
<1>2. OneRow BY Kinds, FreshTyped DEF Init, OneRow
<1>3. PurgedWhenGone BY DEF Init, PurgedWhenGone
<1>4. NothingOfADeletedBook /\ ProcessedImagesExist
  BY FreshTyped DEF Init, NothingOfADeletedBook, ProcessedImagesExist
<1> QED BY <1>1, <1>2, <1>3, <1>4 DEF ImagesInv

LEMMA ImagesAlways == Spec => []ImagesInv
BY InitImages, NextImages, TypedAlways, PTL DEF Spec

\* A row that names a processed image has one, whoever made it and whichever of
\* the makers failed: what an uncommitted maker has made stays on disk until the
\* book is gone.
THEOREM NamedImagesExist == Spec => []ProcessedImagesExist
<1>1. ImagesInv => ProcessedImagesExist BY DEF ImagesInv
<1> QED BY <1>1, ImagesAlways, PTL

=============================================================================
