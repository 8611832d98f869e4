------------------------ MODULE MetadataRecordProofs ------------------------
(***************************************************************************)
(* Whatever the transactions on the metadata rows do to each other, for    *)
(* any number of them, of books and of fields: types, atomicity, no edit   *)
(* undone by another, no value of a human replaced by a task.              *)
(***************************************************************************)
EXTENDS MetadataRecord, TLAPS

LEMMA AbsentTyped == Absent \in Rows /\ Empty \in Records /\ DOMAIN Empty = {}
<1>1. Empty \in [{} -> Values] BY DEF Empty, Values
<1>2. {} \in SUBSET Fields OBVIOUS
<1> QED BY <1>1, <1>2 DEF Absent, Rows, Records, Empty

LEMMA RecordIs ==
  ASSUME NEW S \in SUBSET Fields, NEW r \in [S -> Values]
  PROVE  r \in Records
BY DEF Records

LEMMA RecordHas ==
  ASSUME NEW r \in Records
  PROVE  DOMAIN r \in SUBSET Fields /\ r \in [DOMAIN r -> Values]
BY DEF Records

LEMMA UpdatedTyped ==
  ASSUME NEW old \in Records, NEW new \in Records
  PROVE  Updated(old, new) \in Records
<1>1. DOMAIN old \cup DOMAIN new \in SUBSET Fields BY RecordHas
<1>2. Updated(old, new) \in [DOMAIN old \cup DOMAIN new -> Values] BY RecordHas DEF Updated
<1> QED BY <1>1, <1>2, RecordIs

LEMMA ProvidedTyped ==
  ASSUME NEW t \in Writers, NEW S \in SUBSET Fields
  PROVE  Provided(t, S) \in Records /\ DOMAIN Provided(t, S) = S
<1>1. Provided(t, S) \in [S -> Values] BY DEF Provided, Values
<1> QED BY <1>1, RecordIs DEF Provided

LEMMA RowHas ==
  ASSUME NEW r \in Rows
  PROVE  /\ r.fields \in Records /\ (r.by \in Writers \/ r.by = Nobody)
         /\ r # Absent => r.by \in Writers
         /\ r # Absent => \A rec \in Records : [r EXCEPT !.fields = rec] \in Rows
BY AbsentTyped DEF Rows, Absent

LEMMA InsertedTyped ==
  ASSUME NEW t \in Writers, NEW rec \in Records
  PROVE  Inserted(t, rec) \in Rows /\ Inserted(t, rec) # Absent
<1>1. t # Nobody BY DistinctTransactions DEF Tx
<1> QED BY <1>1 DEF Inserted, Rows, Absent

LEMMA FoundTyped ==
  ASSUME NEW t \in Extractions
  PROVE  Found(t) \in Records
<1>1. Found(t) \in [Fields -> Values] BY DEF Found, Values, Writers
<1> QED BY <1>1, RecordIs

LEMMA MergedTyped ==
  ASSUME NEW t \in Extractions, NEW old \in Records, given[t] \in SUBSET Fields
  PROVE  Merged(t, old) \in Records
BY ProvidedTyped DEF Merged, Writers

-----------------------------------------------------------------------------
(* Types. *)
Steps == {"idle", "begun", "read", "flushed", "recorded", "jobs", "deleting",
          "evidence", "cleared", "done", "failed"}
Ended == {"idle", "done", "failed"}
EvidenceRows == UNION {[S -> Extractions] : S \in SUBSET Fields}
DbOK ==
  /\ row \in [Books -> Rows] /\ evidence \in [Books -> EvidenceRows]
  /\ job \in [Extractions -> {"active", "ended", "gone"}]
PlaceOK ==
  /\ at \in [Tx -> Steps] /\ book \in [Tx -> Books \cup {NoBook}]
  /\ \A t \in Tx : (IF t \in Imports THEN at[t] = "read" ELSE at[t] \notin Ended) => book[t] \in Books
InputOK ==
  /\ given \in [Tx -> SUBSET Fields] /\ todo \in [Tx -> Seq(Books)] /\ overwrite \in [Tx -> BOOLEAN]
SessionOK ==
  /\ own \in [Tx -> [Books -> Rows]] /\ known \in [Tx -> SUBSET Fields]
  /\ locks \in [Tx -> SUBSET Books]
  /\ evLocks \in [Tx -> SUBSET Fields] /\ jobLocks \in [Tx -> SUBSET Extractions]
Typed == DbOK /\ PlaceOK /\ InputOK /\ SessionOK

LEMMA TypedIsTypeOK == Typed => TypeOK
BY DEF Typed, DbOK, PlaceOK, InputOK, SessionOK, TypeOK, Steps, EvidenceRows

LEMMA Kinds ==
  /\ Edits \subseteq Tx /\ Imports \subseteq Tx /\ Extractions \subseteq Tx /\ Clears \subseteq Tx
  /\ Writers \subseteq Tx /\ Reruns \subseteq Clears /\ Resets \subseteq Clears
  /\ \A t \in Edits \cup Extractions : t \notin Imports /\ t \notin Clears
  /\ \A t \in Clears : t \notin Writers /\ t \notin Imports
  /\ NoValue \notin Tx /\ Nobody \notin Tx /\ NoBook \notin Books
BY DistinctTransactions DEF Tx, Writers, Clears

LEMMA EvidenceHas ==
  ASSUME NEW r \in EvidenceRows
  PROVE  DOMAIN r \in SUBSET Fields
BY DEF EvidenceRows

LEMMA CloseTyped ==
  ASSUME Typed, NEW t \in Tx, NEW o \in {"done", "failed"}, Close(t, o)
  PROVE  PlaceOK' /\ InputOK' /\ SessionOK'
<1>1. PlaceOK'
  BY DEF Typed, PlaceOK, Close, Goto, Steps, Ended
<1>2. InputOK'
  <2>1. <<>> \in Seq(Books) OBVIOUS
  <2> QED BY <2>1 DEF Typed, InputOK, Close
<1>3. SessionOK'
  <2>1. [b \in Books |-> Absent] \in [Books -> Rows] BY AbsentTyped
  <2> QED BY <2>1 DEF Typed, SessionOK, Close
<1> QED BY <1>1, <1>2, <1>3

LEMMA RollbackTyped ==
  ASSUME Typed, NEW t \in Tx, Rollback(t)
  PROVE  Typed'
<1>1. DbOK' BY DEF Typed, DbOK, Rollback, db
<1> QED BY <1>1, CloseTyped DEF Rollback, Typed

LEMMA WrittenTyped ==
  ASSUME Typed, NEW t \in Tx, Written(t)
  PROVE  row' \in [Books -> Rows]
BY DEF Typed, DbOK, SessionOK, Written

LEMMA BeginsTyped ==
  ASSUME Typed, NEW t \in Tx, NEW kind, NEW b \in Books \cup {NoBook}, Begins(t, kind, b),
         t \in Imports \/ b \in Books
  PROVE  DbOK' /\ PlaceOK' /\ SessionOK'
<1>1. DbOK' BY DEF Typed, DbOK, Begins, db
<1>2. PlaceOK' BY DEF Typed, PlaceOK, Begins, Goto, Steps, Ended
<1>3. SessionOK' BY DEF Typed, SessionOK, Begins, lcks
<1> QED BY <1>1, <1>2, <1>3

LEMMA FlushTyped ==
  ASSUME Typed, NEW t \in Writers, at[t] = "read", NEW fresh \in Records, NEW changed \in Records,
         Flush(t, book[t], fresh, changed)
  PROVE  Typed'
<1>0. t \in Tx BY Kinds
<1>1. CASE Rollback(t) BY <1>0, <1>1, RollbackTyped
<1>2. CASE ~Rollback(t)
  <2>1. book[t] \in Books BY <1>0 DEF Typed, PlaceOK, Ended
  <2>2. /\ own' = [own EXCEPT ![t][book[t]] = IF @ = Absent THEN Inserted(t, fresh)
                                            ELSE [@ EXCEPT !.fields = changed]]
        /\ locks' = [locks EXCEPT ![t] = @ \cup {book[t]}]
        /\ known' = [known EXCEPT ![t] = IF t \in Extractions THEN DOMAIN evidence[book[t]] ELSE @]
        /\ Goto(t, IF t \in Imports THEN "begun" ELSE "flushed")
        /\ UNCHANGED <<row, evidence, job, book, evLocks, jobLocks>> /\ UNCHANGED data
    BY <1>2 DEF Flush
  <2>3. own[t][book[t]] \in Rows BY <1>0, <2>1 DEF Typed, SessionOK
  <2>4. (IF own[t][book[t]] = Absent THEN Inserted(t, fresh)
         ELSE [own[t][book[t]] EXCEPT !.fields = changed]) \in Rows
    BY <2>3, InsertedTyped, RowHas
  <2>5. own' \in [Tx -> [Books -> Rows]] BY <1>0, <2>1, <2>2, <2>4 DEF Typed, SessionOK
  <2>6. DOMAIN evidence[book[t]] \in SUBSET Fields BY <2>1, EvidenceHas DEF Typed, DbOK
  <2>7. SessionOK' BY <1>0, <2>1, <2>2, <2>5, <2>6 DEF Typed, SessionOK
  <2>8. PlaceOK' BY <1>0, <2>1, <2>2 DEF Typed, PlaceOK, Goto, Steps, Ended
  <2>9. DbOK' /\ InputOK' BY <2>2 DEF Typed, DbOK, InputOK, data
  <2> QED BY <2>7, <2>8, <2>9 DEF Typed
<1> QED BY <1>1, <1>2

LEMMA StepTyped ==
  ASSUME Typed, NEW t \in Tx, Step(t)
  PROVE  Typed'
<1> USE DEF Typed
<1>1. CASE ReadForUpdate(t)
  <2>1. book[t] \in Books BY <1>1, Kinds DEF ReadForUpdate, Ready, PlaceOK, Ended, Locking
  <2>2. DbOK' /\ InputOK' BY <1>1 DEF ReadForUpdate, DbOK, InputOK, data
  <2>3. PlaceOK' BY <1>1, <2>1 DEF ReadForUpdate, PlaceOK, Goto, Steps, Ended
  <2>4. SessionOK' BY <1>1, <2>1 DEF ReadForUpdate, SessionOK, DbOK
  <2> QED BY <2>2, <2>3, <2>4
<1>2. CASE EditFlush(t)
  <2>1. t \in Edits /\ t \in Writers /\ at[t] = "read" /\ book[t] \in Books
    BY <1>2, Kinds DEF EditFlush, Ready, Writers, PlaceOK, Ended
  <2>2. Provided(t, given[t]) \in Records BY <2>1, ProvidedTyped DEF InputOK
  <2>3. own[t][book[t]].fields \in Records BY <2>1, RowHas DEF SessionOK
  <2> QED BY <1>2, <2>1, <2>2, <2>3, UpdatedTyped, FlushTyped DEF EditFlush
<1>3. CASE EditCommit(t)
  <2>1. DbOK' BY <1>3, WrittenTyped DEF EditCommit, DbOK
  <2> QED BY <1>3, <2>1, CloseTyped DEF EditCommit
<1>4. CASE ImportRead(t)
  <2>1. Head(todo[t]) \in Books /\ Tail(todo[t]) \in Seq(Books)
    BY <1>4 DEF ImportRead, InputOK
  <2>2. DbOK' BY <1>4 DEF ImportRead, DbOK, db
  <2>3. InputOK' BY <1>4, <2>1 DEF ImportRead, InputOK
  <2>4. PlaceOK' BY <1>4, <2>1 DEF ImportRead, PlaceOK, Goto, Steps, Ended
  <2>5. SessionOK' BY <1>4, <2>1 DEF ImportRead, SessionOK, DbOK, lcks
  <2> QED BY <2>2, <2>3, <2>4, <2>5
<1>5. CASE ImportFlush(t)
  <2>1. t \in Imports /\ t \in Writers /\ at[t] = "read" /\ book[t] \in Books
    BY <1>5 DEF ImportFlush, Ready, Writers, PlaceOK, Ended
  <2>2. Provided(t, given[t]) \in Records BY <2>1, ProvidedTyped DEF InputOK
  <2>3. own[t][book[t]].fields \in Records BY <2>1, RowHas DEF SessionOK
  <2>4. (IF overwrite[t] THEN Provided(t, given[t])
         ELSE Updated(own[t][book[t]].fields, Provided(t, given[t]))) \in Records
    BY <2>2, <2>3, UpdatedTyped
  <2> QED BY <1>5, <2>1, <2>2, <2>4, FlushTyped DEF ImportFlush
<1>6. CASE ImportCommit(t)
  <2>1. DbOK' BY <1>6, WrittenTyped DEF ImportCommit, DbOK
  <2> QED BY <1>6, <2>1, CloseTyped DEF ImportCommit
<1>7. CASE PersistFlush(t)
  <2>1. t \in Extractions /\ t \in Writers /\ at[t] = "read" /\ book[t] \in Books
    BY <1>7, Kinds DEF PersistFlush, Ready, Writers, PlaceOK, Ended
  <2>2. own[t][book[t]].fields \in Records BY <2>1, RowHas DEF SessionOK
  <2>3. Merged(t, own[t][book[t]].fields) \in Records BY <2>1, <2>2, MergedTyped DEF InputOK
  <2> QED BY <1>7, <2>1, <2>3, FoundTyped, FlushTyped DEF PersistFlush
<1>8. CASE PersistRecord(t)
  <2>1. CASE Rollback(t) BY <2>1, RollbackTyped
  <2>2. CASE ~Rollback(t)
    <3>1. DbOK' /\ InputOK' BY <1>8, <2>2 DEF PersistRecord, DbOK, InputOK, db, data
    <3>2. PlaceOK' BY <1>8, <2>2, Kinds DEF PersistRecord, PlaceOK, Ready, Goto, Steps, Ended
    <3>3. SessionOK' BY <1>8, <2>2 DEF PersistRecord, SessionOK, InputOK, Rewritten
    <3> QED BY <3>1, <3>2, <3>3
  <2> QED BY <2>1, <2>2
<1>9. CASE PersistCommit(t)
  <2>1. t \in Extractions /\ book[t] \in Books
    BY <1>9, Kinds DEF PersistCommit, Ready, PlaceOK, Ended
  <2>2. Updated(evidence[book[t]], Provided(t, Kept(t))) \in EvidenceRows
    <3>1. DOMAIN evidence[book[t]] \in SUBSET Fields /\ Kept(t) \in SUBSET Fields
          /\ evidence[book[t]] \in [DOMAIN evidence[book[t]] -> Extractions]
      BY <2>1, EvidenceHas DEF DbOK, InputOK, EvidenceRows, Kept
    <3>2. Updated(evidence[book[t]], Provided(t, Kept(t)))
            \in [DOMAIN evidence[book[t]] \cup Kept(t) -> Extractions]
      BY <2>1, <3>1 DEF Updated, Provided
    <3>3. DOMAIN evidence[book[t]] \cup Kept(t) \in SUBSET Fields BY <3>1
    <3> QED BY <3>2, <3>3 DEF EvidenceRows
  <2>3. DbOK' BY <1>9, <2>1, <2>2, WrittenTyped DEF PersistCommit, DbOK
  <2> QED BY <1>9, <2>3, CloseTyped DEF PersistCommit
<1>10. CASE ClearJobs(t)
  <2>1. DbOK' /\ InputOK' BY <1>10 DEF ClearJobs, DbOK, InputOK, db, data
  <2>2. PlaceOK' BY <1>10, Kinds DEF ClearJobs, PlaceOK, Ready, Goto, Steps, Ended
  <2>3. SessionOK' BY <1>10 DEF ClearJobs, SessionOK, ActiveOn
  <2> QED BY <2>1, <2>2, <2>3
<1>11. CASE ClearLooks(t)
  <2>1. book[t] \in Books BY <1>11, Kinds DEF ClearLooks, PlaceOK, Ended
  <2>2. DbOK' /\ InputOK' BY <1>11 DEF ClearLooks, DbOK, InputOK, db, data
  <2>3. PlaceOK' BY <1>11, <2>1, Kinds DEF ClearLooks, PlaceOK, Goto, Steps, Ended
  <2>4. DOMAIN evidence[book[t]] \in SUBSET Fields BY <2>1, EvidenceHas DEF DbOK
  <2>5. SessionOK' BY <1>11, <2>4 DEF ClearLooks, SessionOK, lcks
  <2> QED BY <2>2, <2>3, <2>5
<1>12. CASE ClearEvidence(t)
  <2>1. DbOK' /\ InputOK' BY <1>12 DEF ClearEvidence, DbOK, InputOK, db, data
  <2>2. PlaceOK' BY <1>12, Kinds DEF ClearEvidence, PlaceOK, Ready, Goto, Steps, Ended
  <2>3. NeedsEvidence(t) \in SUBSET Fields
    BY <1>12 DEF ClearEvidence, Ready, NeedsEvidence, SessionOK
  <2>4. SessionOK' BY <1>12, <2>3 DEF ClearEvidence, SessionOK
  <2> QED BY <2>1, <2>2, <2>4
<1>13. CASE ClearMetadata(t)
  <2>1. book[t] \in Books BY <1>13, Kinds DEF ClearMetadata, Ready, PlaceOK, Ended
  <2>2. DbOK' /\ InputOK' BY <1>13 DEF ClearMetadata, DbOK, InputOK, db, data
  <2>3. PlaceOK' BY <1>13, <2>1, Kinds DEF ClearMetadata, PlaceOK, Ready, Goto, Steps, Ended
  <2>4. SessionOK' BY <1>13, <2>1 DEF ClearMetadata, SessionOK
  <2> QED BY <2>2, <2>3, <2>4
<1>14. CASE ClearCommit(t)
  <2>1. book[t] \in Books BY <1>14, Kinds DEF ClearCommit, Ready, PlaceOK, Ended
  <2>2. [f \in DOMAIN evidence[book[t]] \ evLocks[t] |-> evidence[book[t]][f]] \in EvidenceRows
    <3>1. DOMAIN evidence[book[t]] \in SUBSET Fields
          /\ evidence[book[t]] \in [DOMAIN evidence[book[t]] -> Extractions]
      BY <2>1, EvidenceHas DEF DbOK, EvidenceRows
    <3>2. [f \in DOMAIN evidence[book[t]] \ evLocks[t] |-> evidence[book[t]][f]]
            \in [DOMAIN evidence[book[t]] \ evLocks[t] -> Extractions]
      BY <3>1
    <3>3. DOMAIN evidence[book[t]] \ evLocks[t] \in SUBSET Fields BY <3>1
    <3> QED BY <3>2, <3>3 DEF EvidenceRows
  <2>3. DbOK' BY <1>14, <2>1, <2>2, WrittenTyped DEF ClearCommit, DbOK
  <2> QED BY <1>14, <2>3, CloseTyped DEF ClearCommit
<1> QED
  BY <1>1, <1>2, <1>3, <1>4, <1>5, <1>6, <1>7, <1>8, <1>9, <1>10, <1>11, <1>12, <1>13, <1>14 DEF Step

LEMMA BeginTyped ==
  ASSUME Typed, NEW t \in Tx, EditBegin(t) \/ ImportBegin(t) \/ PersistBegin(t) \/ ClearBegin(t)
  PROVE  Typed'
<1>1. CASE EditBegin(t)
  <2>1. InputOK' BY <1>1 DEF EditBegin, Typed, InputOK
  <2> QED BY <1>1, <2>1, BeginsTyped DEF EditBegin, Typed
<1>2. CASE ImportBegin(t)
  <2>1. InputOK'
    <3>1. Listings \subseteq Seq(Books) BY DEF Listings
    <3> QED BY <1>2, <3>1 DEF ImportBegin, Typed, InputOK
  <2> QED BY <1>2, <2>1, BeginsTyped DEF ImportBegin, Typed, Begins
<1>3. CASE PersistBegin(t)
  <2>1. InputOK' BY <1>3 DEF PersistBegin, Typed, InputOK
  <2> QED BY <1>3, <2>1, BeginsTyped DEF PersistBegin, Typed
<1>4. CASE ClearBegin(t)
  <2>1. InputOK' BY <1>4 DEF ClearBegin, Typed, InputOK, data
  <2> QED BY <1>4, <2>1, BeginsTyped DEF ClearBegin, Typed
<1> QED BY <1>1, <1>2, <1>3, <1>4

LEMMA NextTyped == Typed /\ [Next]_vars => Typed'
<1> SUFFICES ASSUME Typed, [Next]_vars PROVE Typed' OBVIOUS
<1>1. ASSUME NEW t \in Tx, EditBegin(t) \/ ImportBegin(t) \/ PersistBegin(t) \/ ClearBegin(t)
      PROVE Typed'
  BY <1>1, BeginTyped
<1>2. ASSUME NEW t \in Tx, Step(t) PROVE Typed' BY <1>2, StepTyped
<1>3. ASSUME NEW t \in Tx, EditFails(t) \/ PersistFails(t) \/ DeadlockVictim(t) PROVE Typed'
  BY <1>3, RollbackTyped DEF EditFails, PersistFails, DeadlockVictim
<1>4. ASSUME NEW x \in Extractions, CancelJob(x) PROVE Typed'
  <2>1. DbOK' BY <1>4 DEF CancelJob, Typed, DbOK
  <2>2. PlaceOK' /\ InputOK' BY <1>4 DEF CancelJob, Typed, PlaceOK, InputOK, data
  <2>3. SessionOK' BY <1>4 DEF CancelJob, Typed, SessionOK, lcks
  <2> QED BY <2>1, <2>2, <2>3 DEF Typed
<1>5. CASE UNCHANGED vars
  BY <1>5 DEF vars, Typed, DbOK, PlaceOK, InputOK, SessionOK
<1> QED BY <1>1, <1>2, <1>3, <1>4, <1>5 DEF Next

LEMMA InitTyped == Init => Typed
<1> SUFFICES ASSUME Init PROVE Typed OBVIOUS
<1>1. [f \in {} |-> NoValue] \in EvidenceRows
  <2>1. [f \in {} |-> NoValue] \in [{} -> Extractions] OBVIOUS
  <2>2. {} \in SUBSET Fields OBVIOUS
  <2> QED BY <2>1, <2>2 DEF EvidenceRows
<1>2. DbOK BY <1>1, AbsentTyped DEF Init, DbOK
<1>3. PlaceOK BY DEF Init, PlaceOK, Steps, Ended
<1>4. InputOK
  <2>1. <<>> \in Seq(Books) OBVIOUS
  <2> QED BY <2>1 DEF Init, InputOK
<1>5. SessionOK BY AbsentTyped DEF Init, SessionOK
<1> QED BY <1>2, <1>3, <1>4, <1>5 DEF Typed

\* Rows, records, evidence and what the sessions hold keep their types, for any
\* books, fields and transactions.
THEOREM TypeCorrect == Spec => []TypeOK
<1>1. Spec => []Typed
  BY InitTyped, NextTyped, PTL DEF Spec
<1> QED BY <1>1, TypedIsTypeOK, PTL

-----------------------------------------------------------------------------
(***************************************************************************)
(* Locks.  A transaction that reads for update holds the row it has found  *)
(* and has its current contents; once it has written, what it would commit *)
(* differs from the committed row in what it provides, and in no more.     *)
(***************************************************************************)
Exclusive == \A t, u \in Tx : t # u => locks[t] \cap locks[u] = {}
Holding(t) ==
  /\ at[t] \in Ended \cup {"begun"} => locks[t] = {}
  /\ at[t] = "read" => locks[t] \subseteq {book[t]}
  /\ at[t] \in {"flushed", "recorded"} => locks[t] = {book[t]}
ReadCurrent(t) ==
  at[t] = "read" /\ own[t][book[t]] # Absent =>
    book[t] \in locks[t] /\ own[t][book[t]] = row[book[t]]
WouldBe(t, r) ==
  [by |-> r.by, fields |-> IF t \in Edits THEN Updated(r.fields, Provided(t, given[t]))
                                           ELSE Merged(t, r.fields)]
Writing(t) ==
  at[t] \in {"flushed", "recorded"} /\ row[book[t]] # Absent =>
    own[t][book[t]] = WouldBe(t, row[book[t]])
Good(t) == t \in Locking => Holding(t) /\ ReadCurrent(t) /\ Writing(t)
Locked == Exclusive /\ \A t \in Tx : Good(t)

LEMMA OtherGood ==
  ASSUME NEW u \in Tx, Good(u), at'[u] = at[u], book'[u] = book[u], locks'[u] = locks[u],
         given'[u] = given[u], own'[u] = own[u],
         book[u] \in locks[u] => row'[book[u]] = row[book[u]]
  PROVE  Good(u)'
<1> SUFFICES ASSUME u \in Locking PROVE (Holding(u) /\ ReadCurrent(u) /\ Writing(u))'
  BY DEF Good, Locking
<1>1. Holding(u)' BY DEF Good, Holding
<1>2. ReadCurrent(u)' BY DEF Good, ReadCurrent
<1>3. Writing(u)'
  <2> SUFFICES ASSUME at[u] \in {"flushed", "recorded"}, row'[book[u]] # Absent
               PROVE  own[u][book[u]] = WouldBe(u, row[book[u]])'
    BY DEF Writing
  <2>1. row'[book[u]] = row[book[u]] BY DEF Good, Holding
  <2>2. own[u][book[u]] = WouldBe(u, row[book[u]]) BY <2>1 DEF Good, Writing
  <2>3. WouldBe(u, row[book[u]])' = WouldBe(u, row[book[u]])
    BY <2>1 DEF WouldBe, Merged, Provided, Updated
  <2> QED BY <2>2, <2>3
<1> QED BY <1>1, <1>2, <1>3

\* A step of t that leaves the sessions of the others, and the rows they hold.
LEMMA OthersGood ==
  ASSUME Typed, Locked, NEW t \in Tx,
         \A u \in Tx \ {t} : /\ at'[u] = at[u] /\ book'[u] = book[u] /\ locks'[u] = locks[u]
                             /\ given'[u] = given[u] /\ own'[u] = own[u],
         \A b \in Books : b \notin locks[t] => row'[b] = row[b],
         \A u \in Tx \ {t} : locks'[t] \cap locks[u] = {}
  PROVE  Exclusive' /\ \A u \in Tx \ {t} : Good(u)'
<1>1. Exclusive' BY DEF Locked, Exclusive
<1>2. ASSUME NEW u \in Tx \ {t} PROVE Good(u)'
  <2>1. book[u] \in locks[u] => row'[book[u]] = row[book[u]]
    BY <1>2 DEF Locked, Exclusive, Typed, SessionOK
  <2> QED BY <1>2, <2>1, OtherGood DEF Locked
<1> QED BY <1>1, <1>2

LEMMA CloseLocked ==
  ASSUME Typed, Locked, NEW t \in Tx, NEW o \in {"done", "failed"}, Close(t, o),
         \A b \in Books : b \notin locks[t] => row'[b] = row[b]
  PROVE  Locked'
<1>1. /\ \A u \in Tx \ {t} : /\ at'[u] = at[u] /\ book'[u] = book[u] /\ locks'[u] = locks[u]
                              /\ given'[u] = given[u] /\ own'[u] = own[u]
      /\ locks'[t] = {} /\ at'[t] = o
  BY DEF Close, Goto, Typed, PlaceOK, InputOK, SessionOK
<1>2. Good(t)' BY <1>1 DEF Good, Holding, ReadCurrent, Writing, Ended
<1>3. Exclusive' /\ \A u \in Tx \ {t} : Good(u)' BY <1>1, OthersGood
<1> QED BY <1>2, <1>3 DEF Locked

LEMMA RollbackLocked ==
  ASSUME Typed, Locked, NEW t \in Tx, Rollback(t)
  PROVE  Locked'
BY CloseLocked DEF Rollback, db

\* A step that changes no row, no session's copy and no row lock.
LEMMA QuietLocked ==
  ASSUME Typed, Locked, NEW t \in Tx, UNCHANGED <<row, own, locks>>,
         \A u \in Tx \ {t} : at'[u] = at[u] /\ book'[u] = book[u] /\ given'[u] = given[u],
         \/ t \notin Locking
         \/ at[t] = "idle" /\ at'[t] = "begun"
         \/ at[t] = "flushed" /\ at'[t] = "recorded" /\ book'[t] = book[t] /\ given'[t] = given[t]
  PROVE  Locked'
<1>1. Exclusive' /\ \A u \in Tx \ {t} : Good(u)'
  <2>1. \A u \in Tx \ {t} : locks'[t] \cap locks[u] = {} BY DEF Locked, Exclusive
  <2> QED BY <2>1, OthersGood
<1>2. Good(t)'
  <2>1. CASE t \notin Locking BY <2>1 DEF Good, Locking
  <2>2. CASE at[t] = "idle" /\ at'[t] = "begun"
    BY <2>2 DEF Locked, Good, Holding, ReadCurrent, Writing, Ended
  <2>3. CASE at[t] = "flushed" /\ at'[t] = "recorded" /\ book'[t] = book[t] /\ given'[t] = given[t]
    <3> SUFFICES ASSUME t \in Locking PROVE (Holding(t) /\ ReadCurrent(t) /\ Writing(t))'
      BY DEF Good, Locking
    <3>1. Holding(t)' /\ ReadCurrent(t)'
      BY <2>3 DEF Locked, Good, Holding, ReadCurrent, Ended
    <3>2. WouldBe(t, row[book[t]])' = WouldBe(t, row[book[t]])
      BY <2>3 DEF WouldBe, Merged, Provided, Updated
    <3>3. Writing(t)' BY <2>3, <3>2 DEF Locked, Good, Writing
    <3> QED BY <3>1, <3>3
  <2> QED BY <2>1, <2>2, <2>3
<1> QED BY <1>1, <1>2 DEF Locked

\* Whoever needs the row waits for the others to leave it.
LEMMA ReadyAlone ==
  ASSUME NEW t \in Tx, WaitsFor(t) = {}, NeedsRow(t)
  PROVE  \A u \in Tx \ {t} : book[t] \notin locks[u]
BY DEF WaitsFor, RowHolders

LEMMA RowExcept ==
  ASSUME NEW r \in Rows, NEW rec
  PROVE  [r EXCEPT !.fields = rec] = [by |-> r.by, fields |-> rec]
<1>1. CASE r \in [by : Writers, fields : Records] BY <1>1
<1>2. CASE r = [by |-> Nobody, fields |-> Empty] BY <1>2
<1> QED BY <1>1, <1>2 DEF Rows, Absent

LEMMA FlushLocked ==
  ASSUME Typed, Locked, NEW t \in Writers, Ready(t, "read"),
         NEW fresh, NEW changed, Flush(t, book[t], fresh, changed),
         t \in Locking => changed = WouldBe(t, own[t][book[t]]).fields
  PROVE  Locked'
<1>0. t \in Tx /\ at[t] = "read" /\ book[t] \in Books
  BY Kinds DEF Ready, Typed, PlaceOK, Ended
<1>1. CASE Rollback(t) BY <1>0, <1>1, RollbackLocked
<1>2. CASE ~Rollback(t)
  <2>1. /\ ~(IF own[t][book[t]] = Absent THEN row[book[t]] # Absent
                                         ELSE row[book[t]].by # own[t][book[t]].by)
        /\ own' = [own EXCEPT ![t][book[t]] = IF @ = Absent THEN Inserted(t, fresh)
                                            ELSE [@ EXCEPT !.fields = changed]]
        /\ locks' = [locks EXCEPT ![t] = @ \cup {book[t]}]
        /\ Goto(t, IF t \in Imports THEN "begun" ELSE "flushed")
        /\ UNCHANGED <<row, evidence, job, book, evLocks, jobLocks>> /\ UNCHANGED data
    BY <1>2 DEF Flush
  <2>2. \A u \in Tx \ {t} : book[t] \notin locks[u]
    BY <1>0, ReadyAlone DEF Ready, NeedsRow
  <2>3. /\ \A u \in Tx \ {t} : /\ at'[u] = at[u] /\ book'[u] = book[u] /\ locks'[u] = locks[u]
                                /\ given'[u] = given[u] /\ own'[u] = own[u]
        /\ locks'[t] = locks[t] \cup {book[t]}
    BY <1>0, <2>1 DEF Goto, data, Typed, PlaceOK, InputOK, SessionOK
  <2>4. \A u \in Tx \ {t} : locks'[t] \cap locks[u] = {}
    BY <1>0, <2>2, <2>3 DEF Locked, Exclusive
  <2>5. Exclusive' /\ \A u \in Tx \ {t} : Good(u)'
    BY <1>0, <2>1, <2>3, <2>4, OthersGood
  <2>6. Good(t)'
    <3> SUFFICES ASSUME t \in Locking PROVE (Holding(t) /\ ReadCurrent(t) /\ Writing(t))'
      BY DEF Good, Locking
    <3>1. at'[t] = "flushed" /\ book'[t] = book[t]
      BY <1>0, <2>1, Kinds DEF Goto, Typed, PlaceOK, Locking
    <3>2. Holding(t)' BY <1>0, <2>3, <3>1 DEF Locked, Good, Holding, Ended
    <3>3. ReadCurrent(t)' BY <3>1 DEF ReadCurrent
    <3>4. ASSUME row[book[t]] # Absent PROVE own'[t][book[t]] = WouldBe(t, row[book[t]])
      <4>1. own[t][book[t]] # Absent BY <2>1, <3>4
      <4>2. own[t][book[t]] = row[book[t]] BY <1>0, <4>1 DEF Locked, Good, ReadCurrent
      <4>3. own[t][book[t]] \in Rows BY <1>0 DEF Typed, SessionOK
      <4>4. own'[t][book[t]] = [own[t][book[t]] EXCEPT !.fields = changed]
        BY <1>0, <2>1, <4>1 DEF Typed, SessionOK
      <4>5. own'[t][book[t]] = [by |-> row[book[t]].by, fields |-> changed]
        BY <4>2, <4>3, <4>4, RowExcept
      <4>6. changed = WouldBe(t, row[book[t]]).fields BY <4>2
      <4>7. WouldBe(t, row[book[t]]).by = row[book[t]].by BY DEF WouldBe
      <4> QED BY <4>5, <4>6, <4>7 DEF WouldBe
    <3>5. WouldBe(t, row[book[t]])' = WouldBe(t, row[book[t]])
      BY <2>1, <3>1 DEF WouldBe, Merged, Provided, Updated, data
    <3>6. Writing(t)' BY <2>1, <3>1, <3>4, <3>5 DEF Writing
    <3> QED BY <3>2, <3>3, <3>6
  <2> QED BY <2>5, <2>6 DEF Locked
<1> QED BY <1>1, <1>2

LEMMA ReadLocked ==
  ASSUME Typed, Locked, NEW t \in Tx, ReadForUpdate(t)
  PROVE  Locked'
<1>1. t \in Locking /\ at[t] = "begun" /\ WaitsFor(t) = {} /\ book[t] \in Books /\ t \notin Imports
  BY Kinds DEF ReadForUpdate, Ready, Typed, PlaceOK, Ended, Locking
<1>2. /\ \A u \in Tx \ {t} : /\ at'[u] = at[u] /\ book'[u] = book[u] /\ locks'[u] = locks[u]
                              /\ given'[u] = given[u] /\ own'[u] = own[u]
      /\ at'[t] = "read" /\ book'[t] = book[t] /\ row' = row
      /\ own'[t][book[t]] = row[book[t]]
  BY <1>1 DEF ReadForUpdate, Goto, data, Typed, PlaceOK, InputOK, SessionOK
<1>3. locks'[t] = IF row[book[t]] = Absent THEN {} ELSE {book[t]}
  BY <1>1 DEF ReadForUpdate, Typed, SessionOK, Locked, Good, Holding, Ended
<1>4. \A u \in Tx \ {t} : locks'[t] \cap locks[u] = {}
  <2>1. CASE row[book[t]] = Absent BY <1>3, <2>1
  <2>2. CASE row[book[t]] # Absent BY <1>1, <1>3, <2>2, ReadyAlone DEF NeedsRow
  <2> QED BY <2>1, <2>2
<1>5. Exclusive' /\ \A u \in Tx \ {t} : Good(u)' BY <1>2, <1>4, OthersGood
<1>6. Good(t)' BY <1>2, <1>3 DEF Good, Holding, ReadCurrent, Writing, Ended
<1> QED BY <1>5, <1>6 DEF Locked

LEMMA OutsideLocks ==
  ASSUME NEW t, Written(t)
  PROVE  \A b \in Books : b \notin locks[t] => row'[b] = row[b]
BY DEF Written

LEMMA StepLocked ==
  ASSUME Typed, Locked, NEW t \in Tx, Step(t)
  PROVE  Locked'
<1>1. CASE ReadForUpdate(t) BY <1>1, ReadLocked
<1>2. CASE EditFlush(t)
  <2>1. t \in Writers BY <1>2 DEF EditFlush, Writers
  <2> QED BY <1>2, <2>1, FlushLocked DEF EditFlush, WouldBe
<1>3. CASE EditCommit(t) BY <1>3, CloseLocked, OutsideLocks DEF EditCommit
<1>4. CASE ImportRead(t)
  <2>1. t \notin Locking /\ t \in Imports BY <1>4, Kinds DEF ImportRead, Locking
  <2>2. \A u \in Tx \ {t} : /\ at'[u] = at[u] /\ book'[u] = book[u] /\ locks'[u] = locks[u]
                            /\ given'[u] = given[u] /\ own'[u] = own[u]
    BY <1>4 DEF ImportRead, Goto, lcks, Typed, PlaceOK, SessionOK
  <2>3. row' = row /\ locks' = locks BY <1>4 DEF ImportRead, db, lcks
  <2>4. Exclusive' /\ \A u \in Tx \ {t} : Good(u)'
    BY <2>2, <2>3, OthersGood DEF Locked, Exclusive
  <2> QED BY <2>1, <2>4 DEF Locked, Good, Locking
<1>5. CASE ImportFlush(t)
  <2>1. t \in Writers /\ t \notin Locking BY <1>5, Kinds DEF ImportFlush, Writers, Locking
  <2> QED BY <1>5, <2>1, FlushLocked DEF ImportFlush
<1>6. CASE ImportCommit(t) BY <1>6, CloseLocked, OutsideLocks DEF ImportCommit
<1>7. CASE PersistFlush(t)
  <2>1. t \in Writers /\ t \notin Edits
    BY <1>7, DistinctTransactions DEF PersistFlush, Writers
  <2> QED BY <1>7, <2>1, FlushLocked DEF PersistFlush, WouldBe
<1>8. CASE PersistRecord(t)
  <2>1. CASE Rollback(t) BY <2>1, RollbackLocked
  <2>2. CASE ~Rollback(t)
    <3>1. /\ UNCHANGED <<row, own, locks, book, given>> /\ at[t] = "flushed" /\ Goto(t, "recorded")
      BY <1>8, <2>2 DEF PersistRecord, Ready, db, data
    <3>2. \A u \in Tx \ {t} : at'[u] = at[u] BY <3>1 DEF Goto, Typed, PlaceOK
    <3>3. at'[t] = "recorded" BY <3>1 DEF Goto, Typed, PlaceOK
    <3> QED BY <3>1, <3>2, <3>3, QuietLocked
  <2> QED BY <2>1, <2>2
<1>9. CASE PersistCommit(t) BY <1>9, CloseLocked, OutsideLocks DEF PersistCommit
<1>10. ASSUME t \in Clears, UNCHANGED <<row, own, locks, book>>, UNCHANGED data,
              NEW s, Goto(t, s)
       PROVE Locked'
  <2>1. \A u \in Tx \ {t} : at'[u] = at[u] BY <1>10 DEF Goto, Typed, PlaceOK
  <2>2. t \notin Locking BY <1>10, Kinds DEF Locking
  <2> QED BY <1>10, <2>1, <2>2, QuietLocked DEF data
<1>11. CASE ClearJobs(t) BY <1>10, <1>11 DEF ClearJobs, db
<1>12. CASE ClearLooks(t) BY <1>10, <1>12 DEF ClearLooks, db, lcks
<1>13. CASE ClearEvidence(t) BY <1>10, <1>13 DEF ClearEvidence, db
<1>14. CASE ClearMetadata(t)
  <2>1. t \notin Locking /\ at[t] = "evidence" /\ WaitsFor(t) = {}
    BY <1>14, Kinds DEF ClearMetadata, Ready, Locking
  <2>2. \A u \in Tx \ {t} : /\ at'[u] = at[u] /\ book'[u] = book[u] /\ locks'[u] = locks[u]
                            /\ given'[u] = given[u] /\ own'[u] = own[u]
    BY <1>14 DEF ClearMetadata, Goto, data, Typed, PlaceOK, SessionOK
  <2>3. row' = row /\ locks'[t] = IF row[book[t]] = Absent THEN {} ELSE {book[t]}
    BY <1>14 DEF ClearMetadata, db, Typed, SessionOK
  <2>4. \A u \in Tx \ {t} : locks'[t] \cap locks[u] = {}
    <3>1. CASE row[book[t]] = Absent BY <2>3, <3>1
    <3>2. CASE row[book[t]] # Absent BY <2>1, <2>3, <3>2, ReadyAlone DEF NeedsRow
    <3> QED BY <3>1, <3>2
  <2>5. Exclusive' /\ \A u \in Tx \ {t} : Good(u)' BY <2>2, <2>3, <2>4, OthersGood
  <2> QED BY <2>1, <2>5 DEF Locked, Good, Locking
<1>15. CASE ClearCommit(t) BY <1>15, CloseLocked, OutsideLocks DEF ClearCommit
<1> QED
  BY <1>1, <1>2, <1>3, <1>4, <1>5, <1>6, <1>7, <1>8, <1>9, <1>11, <1>12, <1>13, <1>14, <1>15 DEF Step

LEMMA BeginLocked ==
  ASSUME Typed, Locked, NEW t \in Tx, NEW kind, NEW b, Begins(t, kind, b),
         \A u \in Tx \ {t} : given'[u] = given[u]
  PROVE  Locked'
<1>1. UNCHANGED <<row, own, locks>> BY DEF Begins, db, lcks
<1>2. at[t] = "idle" /\ at'[t] = "begun" BY DEF Begins, Goto, Typed, PlaceOK
<1>3. \A u \in Tx \ {t} : at'[u] = at[u] /\ book'[u] = book[u] BY DEF Begins, Goto, Typed, PlaceOK
<1> QED BY <1>1, <1>2, <1>3, QuietLocked

LEMMA NextLocked == Typed /\ Locked /\ [Next]_vars => Locked'
<1> SUFFICES ASSUME Typed, Locked, [Next]_vars PROVE Locked' OBVIOUS
<1>1. ASSUME NEW t \in Tx, EditBegin(t) \/ ImportBegin(t) \/ PersistBegin(t) \/ ClearBegin(t)
      PROVE Locked'
  <2>1. CASE EditBegin(t) BY <2>1, BeginLocked DEF EditBegin, Typed, InputOK
  <2>2. CASE ImportBegin(t) BY <2>2, BeginLocked DEF ImportBegin, Typed, InputOK
  <2>3. CASE PersistBegin(t) BY <2>3, BeginLocked DEF PersistBegin, Typed, InputOK
  <2>4. CASE ClearBegin(t) BY <2>4, BeginLocked DEF ClearBegin, data
  <2> QED BY <1>1, <2>1, <2>2, <2>3, <2>4
<1>2. ASSUME NEW t \in Tx, Step(t) PROVE Locked' BY <1>2, StepLocked
<1>3. ASSUME NEW t \in Tx, EditFails(t) \/ PersistFails(t) \/ DeadlockVictim(t) PROVE Locked'
  BY <1>3, RollbackLocked DEF EditFails, PersistFails, DeadlockVictim
<1>4. ASSUME NEW u \in Tx, UNCHANGED <<row, own, locks, at, book, given>> PROVE Good(u)'
  BY <1>4, OtherGood DEF Locked
<1>5. ASSUME UNCHANGED <<row, own, locks, at, book, given>> PROVE Locked'
  BY <1>4, <1>5 DEF Locked, Exclusive
<1>6. ASSUME NEW x \in Extractions, CancelJob(x) PROVE Locked'
  BY <1>5, <1>6 DEF CancelJob, lcks, data
<1>7. CASE UNCHANGED vars BY <1>5, <1>7 DEF vars
<1> QED BY <1>1, <1>2, <1>3, <1>6, <1>7 DEF Next

LEMMA InitLocked == Init => Locked
BY DEF Init, Locked, Exclusive, Good, Holding, ReadCurrent, Writing, Ended

-----------------------------------------------------------------------------
(* What the commits do to the rows. *)
Commit(t) == EditCommit(t) \/ ImportCommit(t) \/ PersistCommit(t) \/ ClearCommit(t)

LEMMA FlushGoes ==
  ASSUME NEW t, NEW b, NEW fresh, NEW changed, Flush(t, b, fresh, changed)
  PROVE  \E s \in Steps \ {"done"} : Goto(t, s)
BY DEF Flush, Rollback, Close, Steps

\* No other step than its own commit acknowledges a transaction.
LEMMA NotCommitGoes ==
  ASSUME NEW t \in Tx, Step(t), ~Commit(t)
  PROVE  \E s \in Steps \ {"done"} : Goto(t, s)
<1>1. CASE EditFlush(t) BY <1>1, FlushGoes DEF EditFlush
<1>2. CASE ImportFlush(t) BY <1>2, FlushGoes DEF ImportFlush
<1>3. CASE PersistFlush(t) BY <1>3, FlushGoes DEF PersistFlush
<1>4. CASE ReadForUpdate(t) BY <1>4 DEF ReadForUpdate, Steps
<1>5. CASE ImportRead(t) BY <1>5 DEF ImportRead, Steps
<1>6. CASE PersistRecord(t) BY <1>6 DEF PersistRecord, Rollback, Close, Steps
<1>7. CASE ClearJobs(t) \/ ClearLooks(t) \/ ClearEvidence(t) \/ ClearMetadata(t)
  BY <1>7 DEF ClearJobs, ClearLooks, ClearEvidence, ClearMetadata, Steps
<1> QED BY <1>1, <1>2, <1>3, <1>4, <1>5, <1>6, <1>7 DEF Step, Commit

LEMMA OnlyItsCommit ==
  ASSUME Typed, [Next]_vars, NEW t \in Tx, Acknowledged(t)
  PROVE  Commit(t)
<1>1. ASSUME NEW u \in Tx, NEW s \in Steps \ {"done"}, Goto(u, s) PROVE FALSE
  BY <1>1 DEF Acknowledged, Goto, Typed, PlaceOK
<1>2. ASSUME NEW u \in Tx, EditBegin(u) \/ ImportBegin(u) \/ PersistBegin(u) \/ ClearBegin(u)
      PROVE FALSE
  BY <1>1, <1>2 DEF EditBegin, ImportBegin, PersistBegin, ClearBegin, Begins, Steps
<1>3. ASSUME NEW u \in Tx, Step(u) PROVE Commit(t)
  <2>1. CASE Commit(u)
    <3>1. Goto(u, "done")
      BY <2>1 DEF Commit, EditCommit, ImportCommit, PersistCommit, ClearCommit, Close
    <3>2. u = t BY <3>1 DEF Acknowledged, Goto, Typed, PlaceOK
    <3> QED BY <2>1, <3>2
  <2>2. CASE ~Commit(u) BY <1>1, <1>3, <2>2, NotCommitGoes
  <2> QED BY <2>1, <2>2
<1>4. ASSUME NEW u \in Tx, EditFails(u) \/ PersistFails(u) \/ DeadlockVictim(u) PROVE FALSE
  BY <1>1, <1>4 DEF EditFails, PersistFails, DeadlockVictim, Rollback, Close, Steps
<1>5. at' # at BY DEF Acknowledged
<1>6. ~\E x \in Extractions : CancelJob(x) BY <1>5 DEF CancelJob
<1>7. Next BY <1>5 DEF vars
<1> QED BY <1>2, <1>3, <1>4, <1>6, <1>7 DEF Next

\* What an edit or a task commits is what its record would be over the row as it is then.
LEMMA CommitWrites ==
  ASSUME Typed, Locked, NEW t \in Locking, at[t] \in {"flushed", "recorded"}, Written(t),
         NEW b \in Books, row[b] # Absent
  PROVE  row'[b] = row[b] \/ row'[b] = WouldBe(t, row[b])
<1>1. t \in Tx BY Kinds DEF Locking
<1>2. CASE b \notin locks[t] BY <1>2 DEF Written
<1>3. CASE b \in locks[t]
  <2>1. Holding(t) /\ Writing(t) BY <1>1 DEF Locked, Good
  <2>2. b = book[t] BY <1>3, <2>1 DEF Holding
  <2>3. own[t][b] = WouldBe(t, row[b]) BY <2>1, <2>2 DEF Writing
  <2>4. row'[b] = own[t][b] BY <1>3 DEF Written
  <2> QED BY <2>3, <2>4
<1> QED BY <1>2, <1>3

LEMMA EditCommitKeeps ==
  ASSUME Typed, Locked, NEW e \in Edits, EditCommit(e), NEW b \in Books, row[b] # Absent
  PROVE  /\ row'[b].by = row[b].by
         /\ \A f \in DOMAIN row[b].fields :
              f \notin given[e] => f \in DOMAIN row'[b].fields
                                   /\ row'[b].fields[f] = row[b].fields[f]
<1>1. e \in Locking /\ at[e] = "flushed" /\ Written(e) BY DEF EditCommit, Locking
<1>2. CASE row'[b] = row[b] BY <1>2
<1>3. CASE row'[b] = WouldBe(e, row[b])
  <2>1. row'[b].by = row[b].by /\ row'[b].fields = Updated(row[b].fields, Provided(e, given[e]))
    BY <1>3 DEF WouldBe
  <2>2. ASSUME NEW f \in DOMAIN row[b].fields, f \notin given[e]
        PROVE  /\ f \in DOMAIN Updated(row[b].fields, Provided(e, given[e]))
               /\ Updated(row[b].fields, Provided(e, given[e]))[f] = row[b].fields[f]
    BY <2>2 DEF Updated, Provided
  <2> QED BY <2>1, <2>2
<1> QED BY <1>1, <1>2, <1>3, CommitWrites

LEMMA PersistCommitKeeps ==
  ASSUME Typed, Locked, NEW x \in Extractions, PersistCommit(x), NEW b \in Books,
         NEW f \in DOMAIN row[b].fields
  PROVE  f \in DOMAIN row'[b].fields /\ row'[b].fields[f] = row[b].fields[f]
<1>0. x \notin Edits BY DistinctTransactions
<1>1. x \in Locking /\ at[x] = "recorded" /\ Written(x) BY DEF PersistCommit, Locking, Ready
<1>2. row[b] # Absent BY AbsentTyped DEF Absent
<1>3. CASE row'[b] = row[b] BY <1>3
<1>4. CASE row'[b] = WouldBe(x, row[b])
  <2>1. row'[b].fields = Merged(x, row[b].fields) BY <1>0, <1>4 DEF WouldBe
  <2> QED BY <2>1 DEF Merged
<1> QED BY <1>1, <1>2, <1>3, <1>4, CommitWrites

LEMMA InvariantHolds == Spec => [](Typed /\ Locked)
<1>1. Init => Typed /\ Locked BY InitTyped, InitLocked
<1>2. Typed /\ Locked /\ [Next]_vars => (Typed /\ Locked)' BY NextTyped, NextLocked
<1> QED BY <1>1, <1>2, PTL DEF Spec

\* No edit undoes another, however their statements interleave with each other
\* and with imports, tasks and clearings: it changes what it provides, alone.
THEOREM EditsDoNotUndoEachOther == Spec => EditTouchesOnlyGiven
<1> DEFINE Preserved == \A e \in Edits, b \in Books :
      Acknowledged(e) /\ row[b] # Absent =>
        /\ row'[b].by = row[b].by
        /\ \A f \in DOMAIN row[b].fields :
             f \notin given[e] => f \in DOMAIN row'[b].fields /\ row'[b].fields[f] = row[b].fields[f]
<1>1. Typed /\ Locked /\ [Next]_vars => [Preserved]_vars
  <2> SUFFICES ASSUME Typed, Locked, [Next]_vars, NEW e \in Edits, NEW b \in Books,
                      Acknowledged(e), row[b] # Absent
               PROVE  /\ row'[b].by = row[b].by
                      /\ \A f \in DOMAIN row[b].fields : f \notin given[e] =>
                           f \in DOMAIN row'[b].fields /\ row'[b].fields[f] = row[b].fields[f]
    OBVIOUS
  <2>1. Commit(e) BY Kinds, OnlyItsCommit
  <2>2. EditCommit(e)
    BY <2>1, Kinds, DistinctTransactions DEF Commit, ImportCommit, PersistCommit, ClearCommit
  <2> QED BY <2>2, EditCommitKeeps
<1> QED BY <1>1, InvariantHolds, PTL DEF Spec, EditTouchesOnlyGiven

\* An extraction task never replaces what a human entered, however long ago
\* it began.
THEOREM TasksKeepHumanValues == Spec => TaskKeepsHumanValues
<1> DEFINE Preserved == \A x \in Extractions, b \in Books :
      Acknowledged(x) => \A f \in DOMAIN row[b].fields :
        row[b].fields[f] \in Edits \cup Imports =>
          f \in DOMAIN row'[b].fields /\ row'[b].fields[f] = row[b].fields[f]
<1>1. Typed /\ Locked /\ [Next]_vars => [Preserved]_vars
  <2> SUFFICES ASSUME Typed, Locked, [Next]_vars, NEW x \in Extractions, NEW b \in Books,
                      Acknowledged(x), NEW f \in DOMAIN row[b].fields
               PROVE  f \in DOMAIN row'[b].fields /\ row'[b].fields[f] = row[b].fields[f]
    OBVIOUS
  <2>1. Commit(x) BY Kinds, OnlyItsCommit
  <2>2. PersistCommit(x)
    BY <2>1, Kinds, DistinctTransactions DEF Commit, EditCommit, ImportCommit, ClearCommit, Ready
  <2> QED BY <2>2, PersistCommitKeeps
<1> QED BY <1>1, InvariantHolds, PTL DEF Spec, TaskKeepsHumanValues

-----------------------------------------------------------------------------
(***************************************************************************)
(* Atomicity.  What is stored is made of acknowledged transactions alone;  *)
(* what a session holds, of those and of its own.                          *)
(***************************************************************************)
Done == {t \in Tx : at[t] = "done"}
MadeOf(r, S) ==
  r.by \in S \cup {Nobody} /\ \A f \in DOMAIN r.fields : r.fields[f] \in S \cup {NoValue}
Stored == \A b \in Books :
  MadeOf(row[b], Done) /\ \A f \in DOMAIN evidence[b] : evidence[b][f] \in Done
Copied == \A t \in Tx, b \in Books : MadeOf(own[t][b], Done \cup {t})
Atomic == Stored /\ Copied

LEMMA MadeOfMore ==
  ASSUME NEW S, NEW T, S \subseteq T, NEW r, MadeOf(r, S)
  PROVE  MadeOf(r, T)
BY DEF MadeOf

LEMMA AbsentMadeOf == \A S : MadeOf(Absent, S)
BY AbsentTyped DEF MadeOf, Absent

\* An acknowledged transaction takes no further step and is no victim.
LEMMA DoneRests ==
  ASSUME NEW t \in Tx, at[t] = "done"
  PROVE  /\ ~Step(t) /\ ~EditFails(t) /\ ~PersistFails(t) /\ ~DeadlockVictim(t)
         /\ ~(EditBegin(t) \/ ImportBegin(t) \/ PersistBegin(t) \/ ClearBegin(t))
<1>1. WaitsFor(t) = {}
  <2>1. ~NeedsRow(t) BY DEF NeedsRow
  <2>2. NeedsEvidence(t) = {} /\ NeedsJobs(t) = {} BY DEF NeedsEvidence, NeedsJobs
  <2>3. EvidenceHolders(t, {}) = {} /\ JobHolders(t, {}) = {} BY DEF EvidenceHolders, JobHolders
  <2> QED BY <2>1, <2>2, <2>3 DEF WaitsFor
<1>2. ~DeadlockVictim(t) BY <1>1 DEF DeadlockVictim, Deadlocked
<1>3. ~Step(t)
  BY DEF Step, Ready, ReadForUpdate, EditFlush, EditCommit, ImportRead, ImportFlush, ImportCommit,
         PersistFlush, PersistRecord, PersistCommit, ClearJobs, ClearLooks, ClearEvidence,
         ClearMetadata, ClearCommit
<1> QED BY <1>2, <1>3 DEF EditFails, PersistFails, EditBegin, ImportBegin, PersistBegin, ClearBegin, Begins

\* A step of t that stores nothing.
LEMMA NothingStored ==
  ASSUME Typed, Atomic, NEW t \in Tx, at[t] # "done", UNCHANGED <<row, evidence>>,
         \A u \in Tx \ {t} : at'[u] = at[u] /\ own'[u] = own[u],
         \A b \in Books : MadeOf(own'[t][b], Done \cup {t})
  PROVE  Atomic'
<1>1. Done \subseteq Done' BY DEF Done
<1>2. Stored' BY <1>1, MadeOfMore DEF Atomic, Stored
<1>3. ASSUME NEW u \in Tx, NEW b \in Books PROVE MadeOf(own'[u][b], Done' \cup {u})
  <2>1. MadeOf(own'[u][b], Done \cup {u}) BY <1>3 DEF Atomic, Copied
  <2> QED BY <1>1, <2>1, MadeOfMore
<1>4. Copied' BY <1>3 DEF Copied, MadeOf
<1> QED BY <1>2, <1>4 DEF Atomic

LEMMA SessionAsItWas ==
  ASSUME Typed, Atomic, NEW t \in Tx, at[t] # "done", UNCHANGED <<row, evidence, own>>,
         NEW s, Goto(t, s)
  PROVE  Atomic'
<1>1. \A u \in Tx \ {t} : at'[u] = at[u] BY DEF Goto, Typed, PlaceOK
<1> QED BY <1>1, NothingStored DEF Atomic, Copied

LEMMA RollbackAtomic ==
  ASSUME Typed, Atomic, NEW t \in Tx, at[t] # "done", Rollback(t)
  PROVE  Atomic'
<1>1. UNCHANGED <<row, evidence>> BY DEF Rollback, db
<1>2. \A u \in Tx \ {t} : at'[u] = at[u] /\ own'[u] = own[u]
  BY DEF Rollback, Close, Goto, Typed, PlaceOK, SessionOK
<1>3. \A b \in Books : own'[t][b] = Absent BY DEF Rollback, Close, Typed, SessionOK
<1>4. \A b \in Books : MadeOf(own'[t][b], Done \cup {t}) BY <1>3, AbsentMadeOf
<1> QED BY <1>1, <1>2, <1>4, NothingStored

LEMMA CommitAtomic ==
  ASSUME Typed, Atomic, NEW t \in Tx, at[t] # "done", Written(t), Close(t, "done"),
         \A b \in Books : \A f \in DOMAIN evidence'[b] : evidence'[b][f] \in Done \cup {t}
  PROVE  Atomic'
<1>1. Done' = Done \cup {t} BY DEF Close, Goto, Done, Typed, PlaceOK
<1>2. \A u \in Tx \ {t} : own'[u] = own[u]
  BY DEF Close, Typed, SessionOK
<1>3. \A b \in Books : own'[t][b] = Absent BY DEF Close, Typed, SessionOK
<1>4. ASSUME NEW b \in Books PROVE MadeOf(row'[b], Done \cup {t})
  <2>1. CASE b \in locks[t]
    <3>1. row'[b] = own[t][b] BY <2>1 DEF Written
    <3> QED BY <3>1 DEF Atomic, Copied
  <2>2. CASE b \notin locks[t]
    <3>1. row'[b] = row[b] BY <2>2 DEF Written
    <3>2. MadeOf(row[b], Done) BY DEF Atomic, Stored
    <3> QED BY <3>1, <3>2, MadeOfMore
  <2> QED BY <2>1, <2>2
<1>5. Stored' BY <1>1, <1>4 DEF Stored, MadeOf
<1>6. ASSUME NEW u \in Tx, NEW b \in Books PROVE MadeOf(own'[u][b], Done' \cup {u})
  <2>1. CASE u = t BY <1>3, <2>1, AbsentMadeOf
  <2>2. CASE u # t
    <3>1. MadeOf(own'[u][b], Done \cup {u}) BY <1>2, <2>2 DEF Atomic, Copied
    <3>2. Done \cup {u} \subseteq Done' \cup {u} BY <1>1
    <3> QED BY <3>1, <3>2, MadeOfMore
  <2> QED BY <2>1, <2>2
<1>7. Copied' BY <1>6 DEF Copied, MadeOf
<1> QED BY <1>5, <1>7 DEF Atomic

Mine(rec, S) == \A f \in DOMAIN rec : rec[f] \in S \cup {NoValue}

LEMMA ProvidedMine ==
  ASSUME NEW t, NEW S, NEW T, t \in T
  PROVE  Mine(Provided(t, S), T)
BY DEF Mine, Provided

LEMMA UpdatedMine ==
  ASSUME NEW old, NEW new, NEW T, Mine(old, T), Mine(new, T)
  PROVE  Mine(Updated(old, new), T)
BY DEF Mine, Updated

LEMMA FlushAtomic ==
  ASSUME Typed, Atomic, NEW t \in Writers, at[t] = "read", NEW fresh, NEW changed,
         Flush(t, book[t], fresh, changed),
         Mine(fresh, Done \cup {t}), Mine(changed, Done \cup {t})
  PROVE  Atomic'
<1>0. t \in Tx /\ book[t] \in Books BY Kinds DEF Typed, PlaceOK, Ended
<1>1. CASE Rollback(t) BY <1>0, <1>1, RollbackAtomic
<1>2. CASE ~Rollback(t)
  <2>1. /\ own' = [own EXCEPT ![t][book[t]] = IF @ = Absent THEN Inserted(t, fresh)
                                            ELSE [@ EXCEPT !.fields = changed]]
        /\ Goto(t, IF t \in Imports THEN "begun" ELSE "flushed")
        /\ UNCHANGED <<row, evidence>>
    BY <1>2 DEF Flush
  <2>2. \A u \in Tx \ {t} : at'[u] = at[u] /\ own'[u] = own[u]
    BY <1>0, <2>1 DEF Goto, Typed, PlaceOK, SessionOK
  <2>3. ASSUME NEW b \in Books PROVE MadeOf(own'[t][b], Done \cup {t})
    <3>0. own[t][b] \in Rows /\ MadeOf(own[t][b], Done \cup {t})
      BY <1>0 DEF Typed, SessionOK, Atomic, Copied
    <3>1. CASE b # book[t]
      <4>1. own'[t][b] = own[t][b] BY <1>0, <2>1, <3>1 DEF Typed, SessionOK
      <4> QED BY <3>0, <4>1
    <3>2. CASE b = book[t] /\ own[t][b] = Absent
      <4>1. own'[t][b] = [by |-> t, fields |-> fresh]
        BY <1>0, <2>1, <3>2 DEF Typed, SessionOK, Inserted
      <4> QED BY <4>1 DEF MadeOf, Mine
    <3>3. CASE b = book[t] /\ own[t][b] # Absent
      <4>1. own'[t][b] = [own[t][b] EXCEPT !.fields = changed]
        BY <1>0, <2>1, <3>3 DEF Typed, SessionOK
      <4>2. own'[t][b] = [by |-> own[t][b].by, fields |-> changed]
        BY <3>0, <4>1, RowExcept
      <4> QED BY <3>0, <4>2 DEF MadeOf, Mine
    <3> QED BY <3>1, <3>2, <3>3
  <2> QED BY <1>0, <2>1, <2>2, <2>3, NothingStored
<1> QED BY <1>1, <1>2

LEMMA ReadsAtomic ==
  ASSUME Typed, Atomic, NEW t \in Tx, at[t] # "done", NEW b \in Books, NEW s, Goto(t, s),
         own' = [own EXCEPT ![t][b] = row[b]], UNCHANGED <<row, evidence>>
  PROVE  Atomic'
<1>1. \A u \in Tx \ {t} : at'[u] = at[u] /\ own'[u] = own[u]
  BY DEF Goto, Typed, PlaceOK, SessionOK
<1>2. ASSUME NEW c \in Books PROVE MadeOf(own'[t][c], Done \cup {t})
  <2>1. CASE c = b
    <3>1. own'[t][c] = row[c] BY <2>1 DEF Typed, SessionOK
    <3>2. MadeOf(row[c], Done) BY DEF Atomic, Stored
    <3> QED BY <3>1, <3>2, MadeOfMore
  <2>2. CASE c # b
    <3>1. own'[t][c] = own[t][c] BY <2>2 DEF Typed, SessionOK
    <3> QED BY <3>1 DEF Atomic, Copied
  <2> QED BY <2>1, <2>2
<1> QED BY <1>1, <1>2, NothingStored

LEMMA EvidenceStored ==
  ASSUME Atomic, NEW t
  PROVE  \A b \in Books : \A f \in DOMAIN evidence[b] : evidence[b][f] \in Done \cup {t}
BY DEF Atomic, Stored

LEMMA CopyMine ==
  ASSUME Atomic, NEW t \in Tx, NEW b \in Books
  PROVE  Mine(own[t][b].fields, Done \cup {t})
BY DEF Atomic, Copied, MadeOf, Mine

LEMMA StepAtomic ==
  ASSUME Typed, Atomic, NEW t \in Tx, Step(t)
  PROVE  Atomic'
<1>0. at[t] # "done" BY DoneRests
<1>1. CASE ReadForUpdate(t)
  <2>1. book[t] \in Books
    BY <1>1, Kinds DEF ReadForUpdate, Ready, Typed, PlaceOK, Ended, Locking
  <2> QED BY <1>0, <1>1, <2>1, ReadsAtomic DEF ReadForUpdate
<1>2. CASE EditFlush(t)
  <2>1. t \in Edits /\ t \in Writers /\ at[t] = "read" /\ book[t] \in Books
    BY <1>2, Kinds DEF EditFlush, Ready, Writers, Typed, PlaceOK, Ended
  <2>2. Mine(Provided(t, given[t]), Done \cup {t}) BY ProvidedMine
  <2> QED BY <1>2, <2>1, <2>2, CopyMine, UpdatedMine, FlushAtomic DEF EditFlush
<1>3. CASE EditCommit(t) BY <1>0, <1>3, EvidenceStored, CommitAtomic DEF EditCommit
<1>4. CASE ImportRead(t)
  <2>1. Head(todo[t]) \in Books BY <1>4 DEF ImportRead, Typed, InputOK
  <2>2. own' = [own EXCEPT ![t][Head(todo[t])] = row[Head(todo[t])]] /\ UNCHANGED <<row, evidence>>
    BY <1>4 DEF ImportRead, db
  <2> QED BY <1>0, <1>4, <2>1, <2>2, ReadsAtomic DEF ImportRead
<1>5. CASE ImportFlush(t)
  <2>1. t \in Writers /\ at[t] = "read" /\ book[t] \in Books /\ t \in Imports
    BY <1>5 DEF ImportFlush, Ready, Writers, Typed, PlaceOK, Ended
  <2>2. Mine(Provided(t, given[t]), Done \cup {t}) BY ProvidedMine
  <2>3. Mine(Updated(own[t][book[t]].fields, Provided(t, given[t])), Done \cup {t})
    BY <2>1, <2>2, CopyMine, UpdatedMine
  <2> QED BY <1>5, <2>1, <2>2, <2>3, FlushAtomic DEF ImportFlush
<1>6. CASE ImportCommit(t) BY <1>0, <1>6, EvidenceStored, CommitAtomic DEF ImportCommit
<1>7. CASE PersistFlush(t)
  <2>1. t \in Writers /\ at[t] = "read" /\ book[t] \in Books
    BY <1>7, Kinds DEF PersistFlush, Ready, Writers, Typed, PlaceOK, Ended
  <2>2. Mine(Provided(t, given[t]), Done \cup {t}) /\ Mine(Found(t), Done \cup {t})
    BY ProvidedMine DEF Mine, Found
  <2>3. Mine(Merged(t, own[t][book[t]].fields), Done \cup {t})
    BY <2>1, <2>2, CopyMine DEF Merged
  <2> QED BY <1>7, <2>1, <2>2, <2>3, FlushAtomic DEF PersistFlush
<1>8. CASE PersistRecord(t)
  <2>1. CASE Rollback(t) BY <1>0, <2>1, RollbackAtomic
  <2>2. CASE ~Rollback(t) BY <1>0, <1>8, <2>2, SessionAsItWas DEF PersistRecord, db
  <2> QED BY <2>1, <2>2
<1>9. CASE PersistCommit(t)
  <2>1. book[t] \in Books BY <1>9, Kinds DEF PersistCommit, Ready, Typed, PlaceOK, Ended
  <2>2. ASSUME NEW b \in Books, NEW f \in DOMAIN evidence'[b] PROVE evidence'[b][f] \in Done \cup {t}
    <3>1. CASE b = book[t]
      <4>1. evidence'[b] = Updated(evidence[b], Provided(t, Kept(t)))
        BY <1>9, <3>1 DEF PersistCommit, Typed, DbOK
      <4> QED BY <2>2, <4>1, EvidenceStored DEF Updated, Provided
    <3>2. CASE b # book[t]
      <4>1. evidence'[b] = evidence[b] BY <1>9, <3>2 DEF PersistCommit, Typed, DbOK
      <4> QED BY <2>2, <4>1, EvidenceStored
    <3> QED BY <3>1, <3>2
  <2> QED BY <1>0, <1>9, <2>2, CommitAtomic DEF PersistCommit
<1>10. CASE ClearJobs(t) BY <1>0, <1>10, SessionAsItWas DEF ClearJobs, db
<1>11. CASE ClearLooks(t) BY <1>0, <1>11, SessionAsItWas DEF ClearLooks, db
<1>12. CASE ClearEvidence(t) BY <1>0, <1>12, SessionAsItWas DEF ClearEvidence, db
<1>13. CASE ClearMetadata(t) BY <1>0, <1>13, SessionAsItWas DEF ClearMetadata, db
<1>14. CASE ClearCommit(t)
  <2>2. ASSUME NEW b \in Books, NEW f \in DOMAIN evidence'[b] PROVE evidence'[b][f] \in Done \cup {t}
    <3>1. CASE b = book[t]
      <4>1. evidence'[b] = [g \in DOMAIN evidence[b] \ evLocks[t] |-> evidence[b][g]]
        BY <1>14, <3>1 DEF ClearCommit, Typed, DbOK
      <4> QED BY <2>2, <4>1, EvidenceStored
    <3>2. CASE b # book[t]
      <4>1. evidence'[b] = evidence[b] BY <1>14, <3>2 DEF ClearCommit, Typed, DbOK
      <4> QED BY <2>2, <4>1, EvidenceStored
    <3> QED BY <3>1, <3>2
  <2> QED BY <1>0, <1>14, <2>2, CommitAtomic DEF ClearCommit
<1> QED
  BY <1>1, <1>2, <1>3, <1>4, <1>5, <1>6, <1>7, <1>8, <1>9, <1>10, <1>11, <1>12, <1>13, <1>14 DEF Step

LEMMA NextAtomic == Typed /\ Atomic /\ [Next]_vars => Atomic'
<1> SUFFICES ASSUME Typed, Atomic, [Next]_vars PROVE Atomic' OBVIOUS
<1>1. ASSUME NEW t \in Tx, EditBegin(t) \/ ImportBegin(t) \/ PersistBegin(t) \/ ClearBegin(t)
      PROVE Atomic'
  <2>1. at[t] # "done" BY <1>1, DoneRests
  <2>2. UNCHANGED <<row, evidence, own>> /\ Goto(t, "begun")
    BY <1>1 DEF EditBegin, ImportBegin, PersistBegin, ClearBegin, Begins, db
  <2> QED BY <2>1, <2>2, SessionAsItWas
<1>2. ASSUME NEW t \in Tx, Step(t) PROVE Atomic' BY <1>2, StepAtomic
<1>3. ASSUME NEW t \in Tx, EditFails(t) \/ PersistFails(t) \/ DeadlockVictim(t) PROVE Atomic'
  BY <1>3, DoneRests, RollbackAtomic DEF EditFails, PersistFails, DeadlockVictim
<1>4. ASSUME UNCHANGED <<row, evidence, own, at>> PROVE Atomic'
  BY <1>4 DEF Atomic, Stored, Copied, MadeOf, Done
<1>5. ASSUME NEW x \in Extractions, CancelJob(x) PROVE Atomic' BY <1>4, <1>5 DEF CancelJob
<1>6. CASE UNCHANGED vars BY <1>4, <1>6 DEF vars
<1> QED BY <1>1, <1>2, <1>3, <1>5, <1>6 DEF Next

LEMMA InitAtomic == Init => Atomic
<1> SUFFICES ASSUME Init PROVE Atomic OBVIOUS
<1>1. \A b \in Books : row[b] = Absent /\ DOMAIN evidence[b] = {} BY DEF Init
<1>2. \A t \in Tx, b \in Books : own[t][b] = Absent BY DEF Init
<1> QED BY <1>1, <1>2, AbsentMadeOf DEF Atomic, Stored, Copied

\* Transactions are atomic in every order of their steps: of an import that
\* fails late, an edit whose stage call raises, a deadlock's victim or a lost
\* insertion nothing is ever stored.
THEOREM AllOrNothing == Spec => []NothingOfTheUnfinished
<1>1. Spec => [](Typed /\ Atomic)
  <2>1. Init => Typed /\ Atomic BY InitTyped, InitAtomic
  <2>2. Typed /\ Atomic /\ [Next]_vars => (Typed /\ Atomic)' BY NextTyped, NextAtomic
  <2> QED BY <2>1, <2>2, PTL DEF Spec
<1>2. Atomic => NothingOfTheUnfinished
  <2> SUFFICES ASSUME Atomic, NEW t \in Tx, Wrote(t) PROVE at[t] = "done"
    BY DEF NothingOfTheUnfinished
  <2>1. t # Nobody /\ t # NoValue BY DistinctTransactions
  <2> QED BY <2>1 DEF Wrote, Atomic, Stored, MadeOf, Done
<1> QED BY <1>1, <1>2, PTL
=============================================================================
