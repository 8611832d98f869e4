----------------------------- MODULE StageProofs ----------------------------
(***************************************************************************)
(* Proofs for the two state machines over StageTable.  StageManager, for   *)
(* any callers and bounds: types, that a committed status is derived from  *)
(* all committed rows, and that a reset leaves no row.  StageCallers, for  *)
(* any books and concurrent handlers: types, and that no stage transaction *)
(* ever commits a row, which keeps every new book short of ocr_complete.   *)
(***************************************************************************)
EXTENDS StageManager, StageCallers, TLAPS

LEMMA StatusTypes ==
  /\ \A st, s : BOOK_STATUS_MAP(s, st) \in BookStatus \cup {Unmapped}
  /\ "uploaded" \in BookStatus
  BY DEF BOOK_STATUS_MAP, BookStatus, Unmapped

\* A nonempty set of stages has a first one.
LEMMA FirstStage ==
  ASSUME NEW A \in SUBSET BookStage, A # {}
  PROVE  \E f \in A : \A g \in A : f <= g
<1>1. CASE 1 \in A  BY <1>1 DEF BookStage
<1>2. CASE 1 \notin A /\ 2 \in A  BY <1>2 DEF BookStage
<1>3. CASE 1 \notin A /\ 2 \notin A /\ 3 \in A  BY <1>3 DEF BookStage
<1>4. CASE 1 \notin A /\ 2 \notin A /\ 3 \notin A /\ 4 \in A  BY <1>4 DEF BookStage
<1>5. CASE A \cap {1, 2, 3, 4} = {} /\ 5 \in A  BY <1>5 DEF BookStage
<1>6. CASE A \cap {1, 2, 3, 4, 5} = {}
      <2>1. \A g \in A : g = 6  BY <1>6 DEF BookStage
      <2>2. QED  BY <2>1
<1>7. QED  BY <1>1, <1>2, <1>3, <1>4, <1>5, <1>6

\* _derive_book_status answers with a status of books.
LEMMA DerivedType ==
  ASSUME NEW t
  PROVE  DeriveBookStatus(t) \in BookStatus
<1> DEFINE A == Answering(t)
           f == CHOOSE m \in A : \A g \in A : m <= g
<1>1. CASE A = {}  BY <1>1, StatusTypes DEF DeriveBookStatus
<1>2. CASE A # {}
      <2>1. A \in SUBSET BookStage  BY DEF Answering, Current
      <2>2. f \in A  BY <1>2, <2>1, FirstStage
      <2>3. DeriveBookStatus(t) = BOOK_STATUS_MAP(f, Latest(t, f))
            BY <1>2 DEF DeriveBookStatus
      <2>4. BOOK_STATUS_MAP(f, Latest(t, f)) # Unmapped  BY <2>2 DEF Answering
      <2>5. QED  BY <2>3, <2>4, StatusTypes
<1>3. QED  BY <1>1, <1>2

-----------------------------------------------------------------------------
\* The inductive invariant of StageManager.  A session has touched no key that
\* another has (Apart), what it sees has one row for each key and what it has
\* replaced is still committed (Views), it holds the book from the derivation
\* on and nothing it derived from has changed since (Holding), and a reset
\* that has deleted holds the book and sees nothing (Resetting).
Keyed(T) == \A q, r \in T : SameKey(q, r) => q = r
Touched(c) == own[c] \cup gone[c]
Apart == \A c, d \in Callers : c # d =>
           \A q \in Touched(c), r \in Touched(d) : ~SameKey(q, r)
Views == \A c \in Callers : Keyed(View(c)) /\ gone[c] \subseteq rows
Holding == \A c \in Callers :
  /\ at[c] \in {"delete", "returned"} => bookLock[c] = "update"
  /\ at[c] = "returned" => derived[c] = DeriveBookStatus(View(c))
Resetting == \A c \in Callers : method[c] = "reset" =>
  /\ at[c] \in {"idle", "open", "delete", "update", "returned"}
  /\ at[c] \in {"update", "returned"} => bookLock[c] = "update" /\ View(c) = {}
ManagerIInv == ManagerTypeOK /\ Apart /\ Views /\ Holding /\ Resetting

LEMMA SomeRowType == SomeRow \in Row
  BY DEF SomeRow, Row, StageStatus, InProgress, BookStage, UPLOAD

LEMMA ManagerInitIInv == ManagerInit => ManagerIInv
<1> SUFFICES ASSUME ManagerInit PROVE ManagerIInv  OBVIOUS
<1> USE DEF ManagerInit
<1>1. ManagerTypeOK
      BY SomeRowType, StatusTypes DEF ManagerTypeOK, Tables, Empty, Steps, Methods
<1>2. Apart  BY DEF Apart, Touched
<1>3. Views  BY DEF Views, Keyed, View, Empty
<1>4. Holding  BY DEF Holding
<1>5. Resetting  BY DEF Resetting
<1>6. QED  BY <1>1, <1>2, <1>3, <1>4, <1>5 DEF ManagerIInv

\* A step that reads, or is called: only where a caller is and what it is
\* about change.
Reads(c) ==
  /\ at'[c] \in Steps \ {"delete", "update", "returned"}
  /\ \A d \in Callers \ {c} : at'[d] = at[d] /\ method'[d] = method[d]
  /\ at' \in [Callers -> Steps] /\ method' \in [Callers -> Methods]
  /\ seen' \in [Callers -> Row]
  /\ method'[c] = "reset" => at'[c] \in {"idle", "open"}
  /\ UNCHANGED <<rows, bookStatus, own, gone, bookLock, derived>>

LEMMA ReadsKeep ==
  ASSUME ManagerIInv, NEW c \in Callers, Reads(c)
  PROVE  ManagerIInv'
<1> USE DEF Reads, ManagerIInv
<1>1. ManagerTypeOK'  BY DEF ManagerTypeOK
<1>2. Apart' /\ Views'  BY DEF Apart, Touched, Views, View, Keyed
<1>3. Holding'  BY DEF Holding, View, ManagerTypeOK
<1>4. Resetting'
      <2> SUFFICES ASSUME NEW d \in Callers, method'[d] = "reset"
                   PROVE  /\ at'[d] \in {"idle", "open", "delete", "update", "returned"}
                          /\ at'[d] \in {"update", "returned"} =>
                               bookLock[d] = "update" /\ View(d) = {}
          BY DEF Resetting, View
      <2>1. CASE d = c  BY <2>1
      <2>2. CASE d # c  BY <2>2 DEF Resetting
      <2>3. QED  BY <2>1, <2>2
<1>5. QED  BY <1>1, <1>2, <1>3, <1>4

\* A session that ends with nothing stored.
LEMMA RaisesKeeps ==
  ASSUME ManagerIInv, NEW c \in Callers, Raises(c)
  PROVE  ManagerIInv'
<1> USE DEF Raises, Closes, Goto, ManagerIInv
<1>1. ManagerTypeOK'
      BY SomeRowType, StatusTypes DEF ManagerTypeOK, Tables, Steps, Methods
<1>t. /\ at'[c] = "idle" /\ own'[c] = {} /\ gone'[c] = {}
      /\ \A d \in Callers \ {c} :
           /\ at'[d] = at[d] /\ own'[d] = own[d] /\ gone'[d] = gone[d]
           /\ bookLock'[d] = bookLock[d] /\ derived'[d] = derived[d] /\ method'[d] = method[d]
      /\ rows' = rows
      BY DEF ManagerTypeOK
<1>v. \A d \in Callers \ {c} : View(d)' = View(d)  BY <1>t DEF View
<1>2. Apart'  BY <1>t DEF Apart, Touched
<1>3. Views'
      <2>1. Keyed(View(c)')  BY <1>t DEF View, ManagerTypeOK, Keyed
      <2>2. QED  BY <2>1, <1>t, <1>v DEF Views, Keyed
<1>4. Holding'  BY <1>t, <1>v DEF Holding
<1>5. Resetting'  BY <1>t, <1>v DEF Resetting
<1>6. QED  BY <1>1, <1>2, <1>3, <1>4, <1>5

\* A step that changes what c has written and brings it to its update.
LEMMA WritesKeeps ==
  ASSUME ManagerIInv, NEW c \in Callers, ManagerTypeOK', Goto(c, "update"),
         UNCHANGED <<rows, bookStatus, method, derived>>,
         \A d \in Callers \ {c} :
           own'[d] = own[d] /\ gone'[d] = gone[d] /\ bookLock'[d] = bookLock[d],
         \A d \in Callers \ {c} : \A q \in Touched(c)', r \in Touched(d) :
           ~SameKey(q, r) /\ ~SameKey(r, q),
         Keyed(View(c)'), gone'[c] \subseteq rows,
         method[c] = "reset" => bookLock'[c] = "update" /\ View(c)' = {}
  PROVE  ManagerIInv'
<1> USE DEF Goto, ManagerIInv
<1>t. at'[c] = "update" /\ \A d \in Callers \ {c} : at'[d] = at[d]
      BY DEF ManagerTypeOK
<1>v. \A d \in Callers \ {c} : View(d)' = View(d)  BY DEF View
<1>2. Apart'
      <2> SUFFICES ASSUME NEW e \in Callers, NEW d \in Callers, e # d,
                          NEW q \in Touched(e)', NEW r \in Touched(d)'
                   PROVE  ~SameKey(q, r)
          BY DEF Apart
      <2>1. CASE e = c  BY <2>1 DEF Touched
      <2>2. CASE d = c  BY <2>2 DEF Touched
      <2>3. CASE e # c /\ d # c  BY <2>3 DEF Touched, Apart
      <2>4. QED  BY <2>1, <2>2, <2>3
<1>3. Views'  BY <1>v DEF Views, Keyed
<1>4. Holding'  BY <1>t, <1>v DEF Holding
<1>5. Resetting'  BY <1>t, <1>v DEF Resetting
<1>6. QED  BY <1>2, <1>3, <1>4, <1>5

LEMMA InitiateKeeps ==
  ASSUME ManagerIInv, NEW c \in Callers, InitiateStage(c)
  PROVE  ManagerIInv'
<1> USE DEF ManagerIInv
<1>1. CASE \E r \in View(c) : SameKey(r, seen[c])
      BY <1>1, RaisesKeeps DEF InitiateStage
<1>2. CASE ~\E r \in View(c) : SameKey(r, seen[c])
      <2>1. /\ at[c] = "insert" /\ RowFree(c, seen[c]) /\ BookKeyFree(c)
            /\ own' = [own EXCEPT ![c] = @ \cup {seen[c]}]
            /\ bookLock' = [bookLock EXCEPT ![c] = IF @ = "update" THEN @ ELSE "key"]
            /\ Goto(c, "update")
            /\ UNCHANGED <<rows, bookStatus, method, seen, gone, derived>>
            BY <1>2 DEF InitiateStage
      <2>2. ManagerTypeOK'
            BY <2>1 DEF ManagerTypeOK, Tables, Steps, Goto, BookKeyFree
      <2>3. View(c)' = View(c) \cup {seen[c]} /\ Touched(c)' = Touched(c) \cup {seen[c]}
            BY <2>1 DEF View, Touched, ManagerTypeOK
      <2>4. Keyed(View(c)')  BY <1>2, <2>3 DEF Keyed, Views, SameKey
      <2>5. \A d \in Callers \ {c} : \A q \in Touched(c)', r \in Touched(d) :
              ~SameKey(q, r) /\ ~SameKey(r, q)
            BY <2>1, <2>3 DEF Apart, RowFree, Touched, SameKey
      <2>6. method[c] # "reset"  BY <2>1 DEF Resetting
      <2>7. \A d \in Callers \ {c} :
              own'[d] = own[d] /\ gone'[d] = gone[d] /\ bookLock'[d] = bookLock[d]
            BY <2>1 DEF ManagerTypeOK
      <2>8. gone'[c] \subseteq rows  BY <2>1 DEF Views
      <2>9. QED  BY <2>1, <2>2, <2>4, <2>5, <2>6, <2>7, <2>8, WritesKeeps
<1>3. QED  BY <1>1, <1>2

LEMMA TransitionKeeps ==
  ASSUME ManagerIInv, NEW c \in Callers, NEW m \in Methods \ {"reset"},
         NEW from, NEW to \in StageStatus, Transition(c, m, from, to)
  PROVE  ManagerIInv'
<1> USE DEF ManagerIInv
<1>1. CASE ~(seen[c].status \in from /\ \E r \in View(c) : SameKey(r, seen[c]))
      BY <1>1, RaisesKeeps DEF Transition
<1>2. CASE seen[c].status \in from /\ \E r \in View(c) : SameKey(r, seen[c])
      <2>1. PICK r \in View(c) :
              /\ SameKey(r, seen[c])
              /\ own' = [own EXCEPT ![c] = (@ \ {r}) \cup {[r EXCEPT !.status = to]}]
              /\ gone' = [gone EXCEPT ![c] = @ \cup ({r} \cap rows)]
            BY <1>2 DEF Transition
      <2>2. /\ method[c] = m /\ RowFree(c, seen[c]) /\ Goto(c, "update")
            /\ UNCHANGED <<rows, bookStatus, method, seen, bookLock, derived>>
            BY <1>2 DEF Transition
      <2> DEFINE n == [r EXCEPT !.status = to]
      <2>3. r \in Row /\ n \in Row /\ n.stage = r.stage /\ n.attempt = r.attempt
            BY DEF View, ManagerTypeOK, Tables, Row
      <2>4. ManagerTypeOK'
            BY <2>1, <2>2, <2>3 DEF ManagerTypeOK, Tables, Steps, Goto
      <2>5. /\ View(c)' = (View(c) \ {r}) \cup {n}
            /\ Touched(c)' \subseteq Touched(c) \cup {r, n}
            BY <2>1, <2>2 DEF View, Touched, ManagerTypeOK
      <2>6. Keyed(View(c)')
            <3>1. \A q \in View(c) : SameKey(q, r) => q = r  BY DEF Keyed, Views
            <3>2. QED  BY <2>3, <2>5, <3>1 DEF Keyed, Views, SameKey
      <2>7. \A d \in Callers \ {c} : \A q \in Touched(c)', p \in Touched(d) :
              ~SameKey(q, p) /\ ~SameKey(p, q)
            <3> SUFFICES ASSUME NEW d \in Callers \ {c}, NEW p \in Touched(d)
                         PROVE  \A q \in Touched(c)' : ~SameKey(q, p) /\ ~SameKey(p, q)
                OBVIOUS
            <3>1. \A q \in Touched(c) : ~SameKey(q, p)  BY DEF Apart
            <3>2. ~SameKey(p, seen[c])  BY <2>2 DEF RowFree, Touched
            <3>3. ~SameKey(r, p) /\ ~SameKey(n, p)
                  BY <2>1, <2>3, <3>2 DEF SameKey
            <3>4. \A q \in Touched(c)' : ~SameKey(q, p)
                  BY <2>5, <3>1, <3>3
            <3>5. QED  BY <3>4 DEF SameKey
      <2>8. \A d \in Callers \ {c} :
              own'[d] = own[d] /\ gone'[d] = gone[d] /\ bookLock'[d] = bookLock[d]
            BY <2>1, <2>2 DEF ManagerTypeOK
      <2>9. gone'[c] \subseteq rows  BY <2>1 DEF Views, ManagerTypeOK
      <2>10. QED  BY <2>2, <2>4, <2>6, <2>7, <2>8, <2>9, WritesKeeps
<1>3. QED  BY <1>1, <1>2

LEMMA LockBookKeeps ==
  ASSUME ManagerIInv, NEW c \in Callers, LockBook(c)
  PROVE  ManagerIInv'
<1> USE DEF LockBook, Goto, ManagerIInv
<1>1. ManagerTypeOK'  BY DEF ManagerTypeOK, Steps, BookFree
<1>t. /\ at'[c] = "delete" /\ bookLock'[c] = "update"
      /\ \A d \in Callers \ {c} : at'[d] = at[d] /\ bookLock'[d] = bookLock[d]
      BY DEF ManagerTypeOK
<1>2. Apart' /\ Views'  BY DEF Apart, Touched, Views, View, Keyed
<1>3. Holding'  BY <1>t DEF Holding, View
<1>4. Resetting'  BY <1>t DEF Resetting, View
<1>5. QED  BY <1>1, <1>2, <1>3, <1>4

LEMMA ResetKeeps ==
  ASSUME ManagerIInv, NEW c \in Callers, ResetBook(c)
  PROVE  ManagerIInv'
<1> USE DEF ResetBook, ManagerIInv
<1>1. ManagerTypeOK'  BY DEF ManagerTypeOK, Tables, Steps, Goto
<1>2. own'[c] = {} /\ gone'[c] = rows  BY DEF ManagerTypeOK
<1>3. View(c)' = {} /\ Touched(c)' = rows  BY <1>2 DEF View, Touched
<1>4. rows \subseteq View(c) \cup gone[c]  BY DEF View
<1>5. \A d \in Callers \ {c} : \A q \in Touched(c)', r \in Touched(d) :
        ~SameKey(q, r) /\ ~SameKey(r, q)
      BY <1>3, <1>4 DEF Apart, RowFree, Touched, SameKey
<1>6. \A d \in Callers \ {c} :
        own'[d] = own[d] /\ gone'[d] = gone[d] /\ bookLock'[d] = bookLock[d]
      BY DEF ManagerTypeOK
<1>7. bookLock'[c] = "update"  BY DEF Holding
<1>8. Keyed(View(c)')  BY <1>3 DEF Keyed
<1>9. QED  BY <1>1, <1>2, <1>3, <1>5, <1>6, <1>7, <1>8, WritesKeeps

LEMMA UpdateKeeps ==
  ASSUME ManagerIInv, NEW c \in Callers, UpdateBookStatus(c)
  PROVE  ManagerIInv'
<1> USE DEF UpdateBookStatus, Goto, ManagerIInv
<1>0. DeriveBookStatus(View(c)) \in BookStatus  BY DerivedType
<1>1. ManagerTypeOK'  BY <1>0 DEF ManagerTypeOK, Steps, BookFree
<1>t. /\ at'[c] = "returned" /\ bookLock'[c] = "update"
      /\ derived'[c] = DeriveBookStatus(View(c))
      /\ \A d \in Callers \ {c} :
           at'[d] = at[d] /\ bookLock'[d] = bookLock[d] /\ derived'[d] = derived[d]
      BY DEF ManagerTypeOK
<1>v. \A d \in Callers : View(d)' = View(d)  BY DEF View
<1>2. Apart' /\ Views'  BY <1>v DEF Apart, Touched, Views, Keyed
<1>3. Holding'  BY <1>t, <1>v DEF Holding
<1>4. Resetting'  BY <1>t, <1>v DEF Resetting
<1>5. QED  BY <1>1, <1>2, <1>3, <1>4

\* A commit: nobody else holds the book, so nobody else has derived yet.
LEMMA CommitKeeps ==
  ASSUME ManagerIInv, NEW c \in Callers, Commit(c)
  PROVE  ManagerIInv'
<1> USE DEF Commit, Closes, Goto, ManagerIInv
<1>t. /\ at'[c] = "idle" /\ own'[c] = {} /\ gone'[c] = {}
      /\ \A d \in Callers \ {c} :
           /\ at'[d] = at[d] /\ own'[d] = own[d] /\ gone'[d] = gone[d]
           /\ bookLock'[d] = bookLock[d] /\ derived'[d] = derived[d] /\ method'[d] = method[d]
      /\ rows' = View(c)
      BY DEF ManagerTypeOK
<1>h. \A d \in Callers \ {c} : bookLock[d] # "update"
      BY DEF Holding, ManagerTypeOK
<1>1. ManagerTypeOK'
      <2>1. rows' \in Tables  BY <1>t DEF View, ManagerTypeOK, Tables
      <2>2. \A q, r \in rows' : SameKey(q, r) => q = r  BY <1>t DEF Views, Keyed
      <2>3. bookStatus' \in BookStatus  BY DEF ManagerTypeOK
      <2>4. QED  BY <2>1, <2>2, <2>3, SomeRowType, StatusTypes
                 DEF ManagerTypeOK, Tables, Steps, Methods
<1>2. Apart'  BY <1>t DEF Apart, Touched
<1>3. Views'
      <2> SUFFICES ASSUME NEW d \in Callers
                   PROVE  Keyed(View(d)') /\ gone'[d] \subseteq rows'
          BY DEF Views, Keyed
      <2>1. CASE d = c
            <3>1. View(d)' = View(c)  BY <1>t, <2>1 DEF View
            <3>2. QED  BY <1>t, <2>1, <3>1 DEF Views
      <2>2. CASE d # c
            <3>1. \A q \in Touched(c), r \in Touched(d) : ~SameKey(q, r) /\ ~SameKey(r, q)
                  BY <2>2 DEF Apart
            <3>2. gone[d] \cap gone[c] = {}  BY <3>1 DEF Touched, SameKey
            <3>3. gone'[d] \subseteq rows'  BY <1>t, <2>2, <3>2 DEF Views, View
            <3>4. View(d)' \subseteq View(d) \cup own[c]  BY <1>t, <2>2 DEF View
            <3>5. \A q \in own[c], r \in View(d)' : SameKey(q, r) \/ SameKey(r, q) => q = r
                  <4> SUFFICES ASSUME NEW q \in own[c], NEW r \in View(d)',
                                      SameKey(q, r) \/ SameKey(r, q)
                               PROVE  q = r
                      OBVIOUS
                  <4>1. r \notin own[d]  BY <3>1 DEF Touched
                  <4>2. r \in View(c) /\ q \in View(c)  BY <1>t, <2>2, <4>1 DEF View
                  <4>3. QED  BY <4>2 DEF Views, Keyed
            <3>6. Keyed(View(d)')  BY <3>4, <3>5 DEF Views, Keyed
            <3>7. QED  BY <3>3, <3>6
      <2>3. QED  BY <2>1, <2>2
<1>4. Holding'  BY <1>t, <1>h DEF Holding
<1>5. Resetting'  BY <1>t, <1>h DEF Resetting
<1>6. QED  BY <1>1, <1>2, <1>3, <1>4, <1>5

LEMMA ReadStepsKeep ==
  ASSUME ManagerIInv, NEW c \in Callers,
         \/ \E m \in Methods, s \in Stages : Calls(c, m, s)
         \/ ValidateSequential(c)
         \/ ChooseAttempt(c)
         \/ GetStage(c)
  PROVE  ManagerIInv'
<1> USE ManagerAssumption DEF ManagerIInv
<1>1. ASSUME NEW m \in Methods, NEW s \in Stages, Calls(c, m, s)
      PROVE  ManagerIInv'
      <2>1. [SomeRow EXCEPT !.stage = s] \in Row  BY SomeRowType DEF Row
      <2>2. Reads(c)  BY <1>1, <2>1 DEF Calls, Goto, Reads, ManagerTypeOK, Steps
      <2>3. QED  BY <2>2, ReadsKeep
<1>2. CASE ValidateSequential(c)
      <2>1. CASE SequentialOk(View(c), seen[c].stage)
            <3>1. Reads(c)
                  BY <1>2, <2>1 DEF ValidateSequential, Goto, Reads, ManagerTypeOK, Steps, Resetting
            <3>2. QED  BY <3>1, ReadsKeep
      <2>2. CASE ~SequentialOk(View(c), seen[c].stage)
            BY <1>2, <2>2, RaisesKeeps DEF ValidateSequential, Raises
      <2>3. QED  BY <2>1, <2>2
<1>3. CASE ChooseAttempt(c)
      <2>1. seen' \in [Callers -> Row]
            <3>1. CASE Recorded(View(c), seen[c].stage)
                  <4>1. PICK r \in Of(View(c), seen[c].stage) :
                          seen' = [seen EXCEPT ![c].attempt = r.attempt + 1]
                        BY <1>3, <3>1 DEF ChooseAttempt
                  <4>2. r.attempt + 1 \in Nat \ {0}
                        BY DEF Of, View, ManagerTypeOK, Tables, Row
                  <4>3. QED  BY <4>1, <4>2 DEF ManagerTypeOK, Row
            <3>2. CASE ~Recorded(View(c), seen[c].stage)
                  BY <1>3, <3>2 DEF ChooseAttempt, ManagerTypeOK
            <3>3. QED  BY <3>1, <3>2
      <2>2. Reads(c)
            BY <1>3, <2>1 DEF ChooseAttempt, Goto, Reads, ManagerTypeOK, Steps, Resetting
      <2>3. QED  BY <2>2, ReadsKeep
<1>4. CASE GetStage(c)
      <2>1. CASE Recorded(View(c), seen[c].stage)
            <3>1. seen' \in [Callers -> Row]
                  BY <1>4, <2>1 DEF GetStage, Of, View, ManagerTypeOK, Tables
            <3>2. Reads(c)
                  BY <1>4, <2>1, <3>1 DEF GetStage, Goto, Reads, ManagerTypeOK, Steps, Resetting
            <3>3. QED  BY <3>2, ReadsKeep
      <2>2. CASE ~Recorded(View(c), seen[c].stage)
            BY <1>4, <2>2, RaisesKeeps DEF GetStage, Raises
      <2>3. QED  BY <2>1, <2>2
<1>5. QED  BY <1>1, <1>2, <1>3, <1>4

LEMMA ManagerNextIInv == ManagerIInv /\ [ManagerNext]_managerVars => ManagerIInv'
<1> SUFFICES ASSUME ManagerIInv, [ManagerNext]_managerVars PROVE ManagerIInv'  OBVIOUS
<1> USE DEF Methods, StageStatus, InProgress, TERMINAL_STATUSES
<1>1. ASSUME NEW c \in Callers, CallerStep(c) PROVE ManagerIInv'
      <2>1. CASE StartStage(c)  BY <2>1, TransitionKeeps DEF StartStage
      <2>2. CASE CompleteStage(c)  BY <2>2, TransitionKeeps DEF CompleteStage
      <2>3. CASE FailStage(c)  BY <2>3, TransitionKeeps DEF FailStage
      <2>4. CASE CancelStage(c)  BY <2>4, TransitionKeeps DEF CancelStage
      <2>5. CASE Fails(c)  BY <2>5, RaisesKeeps DEF Fails
      <2>6. QED  BY <1>1, <2>1, <2>2, <2>3, <2>4, <2>5, ReadStepsKeep, InitiateKeeps,
                    LockBookKeeps, ResetKeeps, UpdateKeeps, CommitKeeps DEF CallerStep
<1>2. CASE HandlerSetsStatus
      <2>1. bookStatus' \in BookStatus  BY <1>2, ManagerAssumption DEF HandlerSetsStatus
      <2>2. QED  BY <1>2, <2>1 DEF HandlerSetsStatus, sessionVars, ManagerIInv, ManagerTypeOK,
                    Apart, Touched, Views, View, Keyed, Holding, Resetting
<1>3. CASE UNCHANGED managerVars
      BY <1>3 DEF managerVars, ManagerIInv, ManagerTypeOK, Apart, Touched, Views, View,
                  Keyed, Holding, Resetting
<1>4. QED  BY <1>1, <1>2, <1>3 DEF ManagerNext

LEMMA ManagerSpecIInv == ManagerSpec => []ManagerIInv
  BY ManagerInitIInv, ManagerNextIInv, PTL DEF ManagerSpec

(* Types, one row for each key of the table, and one session at most that  *)
(* holds the book.                                                         *)
THEOREM ManagerTypes == ManagerSpec => []ManagerTypeOK
  BY ManagerSpecIInv, PTL DEF ManagerIInv

(* A committed status is derived from all rows committed with and before   *)
(* it, for any number of concurrent callers.                               *)
THEOREM StatusIsDerived == ManagerSpec => CommitsDerivedStatus
<1>1. ManagerIInv => StatusDerivedFromAll
      BY DEF ManagerIInv, Holding, StatusDerivedFromAll, Commit
<1>2. QED  BY <1>1, ManagerSpecIInv, PTL DEF CommitsDerivedStatus

(* A reset leaves no row, whatever runs beside it.                         *)
THEOREM ResetIsComplete == ManagerSpec => ResetLeavesNoRow
<1>1. ManagerIInv => LeavesNothing
      BY DEF ManagerIInv, Resetting, LeavesNothing, Commit, Empty
<1>2. QED  BY <1>1, ManagerSpecIInv, PTL DEF ResetLeavesNoRow

-----------------------------------------------------------------------------
(* StageCallers. *)

\* What an empty table does to the guards and results of the transactions.
LEMMA EmptyTable ==
  Empty \in Tables /\ \A s : ~Recorded(Empty, s)
  BY DEF Empty, Tables, Recorded, Of

\* A stage other than the first cannot be initiated on an empty table.
LEMMA NothingPrior ==
  \A s \in BookStage \ {UPLOAD} : ~InitiateOk(Empty, s)
  BY EmptyTable DEF InitiateOk, SequentialOk

\* Initiating the first stage leaves its row "initiated", which
\* complete_stage refuses: it wants "processing".
LEMMA UploadNeverCompletes == ~RecordOk(Empty, UPLOAD)
<1> DEFINE t == Initiated(Empty, UPLOAD)
           r == NewRow(Empty, UPLOAD)
<1>1. t = {r} /\ r.stage = UPLOAD /\ r.status = "initiated" /\ r.attempt = 1
      BY EmptyTable DEF Initiated, Empty, NewRow
<1>2. Of(t, UPLOAD) = {r}  BY <1>1 DEF Of
<1>3. IsLatest(t, r)  BY <1>1, <1>2 DEF IsLatest
<1>4. LatestRow(t, UPLOAD) = r  BY <1>2, <1>3 DEF LatestRow
<1>5. QED  BY <1>1, <1>4 DEF RecordOk, CompleteOk, CanComplete, Latest

\* Every transaction either raises on an empty table or leaves it empty.
LEMMA EmptyStaysEmpty ==
  \A x \in Tx : TxOk(Empty, x) => TxResult(Empty, x) = Empty
<1> SUFFICES ASSUME NEW x \in Tx, TxOk(Empty, x)
             PROVE  TxResult(Empty, x) = Empty
    OBVIOUS
<1> USE EmptyTable DEF BookStage
<1>1. CASE x = "upload"  BY <1>1, UploadNeverCompletes DEF TxOk, Runs
<1>2. CASE x = "page_selection"
      BY <1>2 DEF TxOk, Runs, CompleteOk, PAGE_SELECTION
<1>3. CASE x = "ocr"
      BY <1>3, NothingPrior DEF TxOk, Runs, OpenOk, OCR, UPLOAD
<1>4. CASE x = "ocr_ok"  BY <1>4 DEF TxOk, Runs, CompleteOk, OCR
<1>5. CASE x \in {"ocr_bad", "task_failure"}
      <2>1. ~StopOk(Empty, OCR)  BY DEF StopOk, OCR
      <2>2. TxOk(Empty, x) => StopOk(Empty, OCR)  BY <1>5 DEF TxOk, Runs
      <2>3. QED  BY <2>1, <2>2
<1>6. CASE x = "llm_retry"
      BY <1>6 DEF TxResult, LeftOpen, LLM_EXTRACTION
<1>7. CASE x = "llm"
      BY <1>7, NothingPrior DEF TxOk, Runs, OpenOk, LLM_EXTRACTION, UPLOAD
<1>8. CASE x = "llm_ok"  BY <1>8 DEF TxOk, Runs, CompleteOk, LLM_EXTRACTION
<1>9. CASE x = "llm_bad"  BY <1>9 DEF TxOk, Runs, StopOk, LLM_EXTRACTION
<1>10. CASE x = "review"
       BY <1>10, NothingPrior DEF TxOk, Runs, RecordOk, HUMAN_REVIEW, UPLOAD
<1>11. QED
       BY <1>1, <1>2, <1>3, <1>4, <1>5, <1>6, <1>7, <1>8, <1>9, <1>10 DEF Tx

-----------------------------------------------------------------------------
\* The inductive invariant.  The emptiness of the table is what keeps a stage
\* transaction from moving the status of a new book; the statuses of new
\* books are what keeps the LLM handlers away from them.
IInv == TypeOK /\ StageTableEmpty /\ NewBooksStopAtOcr

LEMMA InitIInv == Init => IInv
<1> SUFFICES ASSUME Init PROVE IInv  OBVIOUS
<1>1. TypeOK  BY EmptyTable DEF Init, TypeOK
<1>2. StageTableEmpty  BY DEF Init, StageTableEmpty
<1>3. NewBooksStopAtOcr  BY DEF Init, NewBooksStopAtOcr
<1>4. QED  BY <1>1, <1>2, <1>3 DEF IInv

\* A handler's own commit: it moves no row, and moves a new book only among
\* the statuses that come before ocr_complete.
LEMMA OwnCommit ==
  ASSUME IInv, NEW b \in Books, NEW st \in BookStatus \cup {Absent, Deleted},
         NEW h \in Handlers, NEW x \in Tx,
         b \notin Inherited =>
           st \in {Absent, Deleted, "uploaded", "pages_selected", "ocr_running"},
         SetStatus(b, st),
         Due(h, b, x) \/ UNCHANGED <<table, due>>
  PROVE  IInv'
<1> USE DEF IInv, SetStatus, Due
<1>1. TypeOK'  BY DEF TypeOK
<1>2. StageTableEmpty'  BY DEF StageTableEmpty
<1>3. NewBooksStopAtOcr'  BY DEF NewBooksStopAtOcr, TypeOK
<1>4. QED  BY <1>1, <1>2, <1>3

\* The handlers that only schedule a transaction.
LEMMA OnlyDue ==
  ASSUME IInv, NEW b \in Books, NEW h \in Handlers, NEW x \in Tx,
         UNCHANGED status, Due(h, b, x)
  PROVE  IInv'
<1> USE DEF IInv, Due
<1>1. TypeOK'  BY DEF TypeOK
<1>2. StageTableEmpty'  BY DEF StageTableEmpty
<1>3. NewBooksStopAtOcr'  BY DEF NewBooksStopAtOcr
<1>4. QED  BY <1>1, <1>2, <1>3

\* The steps that only move a status.
LEMMA OnlyStatus ==
  ASSUME IInv, NEW b \in Books, NEW st \in BookStatus \cup {Absent, Deleted},
         b \notin Inherited =>
           st \in {Absent, Deleted, "uploaded", "pages_selected", "ocr_running"},
         JustSetStatus(b, st)
  PROVE  IInv'
<1> USE DEF IInv, JustSetStatus, SetStatus
<1>1. TypeOK'  BY DEF TypeOK
<1>2. StageTableEmpty'  BY DEF StageTableEmpty
<1>3. NewBooksStopAtOcr'  BY DEF NewBooksStopAtOcr, TypeOK
<1>4. QED  BY <1>1, <1>2, <1>3

LEMMA BookStepIInv ==
  ASSUME IInv, NEW b \in Books, BookStep(b)
  PROVE  IInv'
<1> USE OnlyStatus
<1>a. b \notin Inherited =>
        status[b] \in {Absent, Deleted, "uploaded", "pages_selected", "ocr_running"}
      BY DEF IInv, NewBooksStopAtOcr
<1>1. CASE ValidateBookContext(b)
      BY <1>1, <1>a DEF ValidateBookContext, BookStatus, Absent, Deleted
<1>2. CASE MarkLlmFailed(b)
      BY <1>2, <1>a DEF MarkLlmFailed, BookStatus, Absent, Deleted
<1>3. CASE CancelJob(b)
      BY <1>3, <1>a DEF CancelJob, BookStatus, Absent, Deleted
<1>4. CASE AdminResetBook(b)
      BY <1>4, <1>a DEF AdminResetBook, BookStatus, Absent, Deleted
<1>5. CASE RerunOcr(b)
      BY <1>5, <1>a DEF RerunOcr, BookStatus, Absent, Deleted
<1>6. CASE RerunExtraction(b)
      BY <1>6, <1>a DEF RerunExtraction, BookStatus, Absent, Deleted
<1>7. CASE DeleteBook(b)
      <2>1. TypeOK'  BY <1>7, EmptyTable DEF DeleteBook, SetStatus, TypeOK, IInv
      <2>2. StageTableEmpty'  BY <1>7 DEF DeleteBook, StageTableEmpty, TypeOK, IInv
      <2>3. NewBooksStopAtOcr'  BY <1>7 DEF DeleteBook, SetStatus, NewBooksStopAtOcr, TypeOK, IInv
      <2>4. QED  BY <2>1, <2>2, <2>3 DEF IInv
<1>8. QED  BY <1>1, <1>2, <1>3, <1>4, <1>5, <1>6, <1>7 DEF BookStep

LEMMA StageTransactionIInv ==
  ASSUME IInv, NEW b \in Books, NEW h \in Handlers, NEW x \in Tx,
         StageTransaction(h, b, x)
  PROVE  IInv'
<1> USE DEF IInv
<1>1. table[b] = Empty  BY DEF StageTableEmpty
<1>2. TxOk(table[b], x) => TxResult(table[b], x) = table[b]
      BY <1>1, EmptyStaysEmpty
<1>3. status' = status /\ table' = table
      BY <1>1, <1>2 DEF StageTransaction, TypeOK
<1>4. due' \in [Handlers -> (Books \X Tx) \cup {NoTx}]
      BY DEF StageTransaction, TypeOK, Tx
<1>5. TypeOK'  BY <1>3, <1>4 DEF TypeOK
<1>6. StageTableEmpty' /\ NewBooksStopAtOcr'
      BY <1>3 DEF StageTableEmpty, NewBooksStopAtOcr
<1>7. QED  BY <1>5, <1>6

LEMMA HandlerStepIInv ==
  ASSUME IInv, NEW b \in Books, NEW h \in Handlers, HandlerStep(h, b)
  PROVE  IInv'
<1>1. CASE UploadBook(h, b)
      BY <1>1, OwnCommit DEF UploadBook, BookStatus, Tx
<1>2. CASE SelectPages(h, b)
      BY <1>2, OwnCommit DEF SelectPages, BookStatus, Tx
<1>3. CASE RunOcr(h, b)
      BY <1>3, OwnCommit DEF RunOcr, BookStatus, Tx
<1>4. CASE RunExtraction(h, b)
      BY <1>4, OnlyDue DEF RunExtraction, Tx
<1>5. CASE RetryExtraction(h, b)
      BY <1>5, OnlyDue DEF RetryExtraction, Tx
<1>6. CASE UpdateMetadata(h, b)
      BY <1>6, OnlyDue DEF UpdateMetadata, Tx
<1>7. CASE FinalizeOcr(h, b)
      BY <1>7, OnlyDue DEF FinalizeOcr, Tx
<1>8. CASE PersistExtraction(h, b)
      BY <1>8, OnlyDue DEF PersistExtraction, Tx
<1>9. CASE OnTaskFailure(h, b)
      BY <1>9, OnlyDue DEF OnTaskFailure, Tx
<1>10. CASE \E x \in Tx : StageTransaction(h, b, x)
       BY <1>10, StageTransactionIInv
<1>11. QED
       BY <1>1, <1>2, <1>3, <1>4, <1>5, <1>6, <1>7, <1>8, <1>9, <1>10 DEF HandlerStep

LEMMA NextIInv == IInv /\ [Next]_vars => IInv'
<1> SUFFICES ASSUME IInv, [Next]_vars PROVE IInv'  OBVIOUS
<1>1. CASE UNCHANGED vars
      BY <1>1 DEF vars, IInv, TypeOK, StageTableEmpty, NewBooksStopAtOcr
<1>2. CASE Next  BY <1>2, BookStepIInv, HandlerStepIInv DEF Next
<1>3. QED  BY <1>1, <1>2

LEMMA SpecIInv == Spec => []IInv
  BY InitIInv, NextIInv, PTL DEF Spec

-----------------------------------------------------------------------------
(* Type correctness: a book's status is one of BookStatus or says that the *)
(* book is not there, and its rows keep the column types.                  *)
THEOREM TypeCorrect == Spec => []TypeOK
  BY SpecIInv, PTL DEF IInv

(* The stage table of api/books.py, api/extraction.py, api/metadata.py and *)
(* the tasks stays empty, for every number of books and handlers and under *)
(* either reading of get_stage.                                            *)
THEOREM StageTableStaysEmpty == Spec => []StageTableEmpty
  BY SpecIInv, PTL DEF IInv

(* A book uploaded to this release never reaches ocr_complete.             *)
THEOREM NewBooksNeverPastOcr == Spec => []NewBooksStopAtOcr
  BY SpecIInv, PTL DEF IInv
=============================================================================
