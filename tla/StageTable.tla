----------------------------- MODULE StageTable -----------------------------
(***************************************************************************)
(* The table book_stage_status and the rules StageManager                  *)
(* (backend/app/services/stage_manager.py) applies to it, as operators on  *)
(* the rows of one book.  StageManager.tla makes a state machine of them;  *)
(* StageCallers.tla puts the application's handlers on top.                *)
(*                                                                         *)
(* The rows of a book are a set: after a reset beside a retry the attempts *)
(* of a stage need not start at 1 nor follow each other.  Timestamps and   *)
(* error_log are left out.                                                 *)
(***************************************************************************)
EXTENDS Naturals

\* models/stage.py: a stage is its position in STAGE_ORDER.
UPLOAD         == 1
PAGE_SELECTION == 2
OCR            == 3
LLM_EXTRACTION == 4
HUMAN_REVIEW   == 5
COMPLETION     == 6
BookStage      == 1..6

InProgress        == {"initiated", "processing"}
TERMINAL_STATUSES == {"completed", "failed", "cancelled"}
StageStatus       == InProgress \cup TERMINAL_STATUSES

BookStatus == {"uploaded", "pages_selected", "ocr_running", "ocr_complete",
               "llm_running", "awaiting_review", "complete"}
Unmapped == "unmapped"

\* What BOOK_STATUS_MAP.get((stage, status)) returns, None being Unmapped.
BOOK_STATUS_MAP(s, st) ==
  CASE s = UPLOAD         /\ st \in InProgress  -> "uploaded"
    [] s = PAGE_SELECTION /\ st \in InProgress  -> "pages_selected"
    [] s = OCR            /\ st \in InProgress  -> "ocr_running"
    [] s = OCR            /\ st = "completed"   -> "ocr_complete"
    [] s = LLM_EXTRACTION /\ st \in InProgress  -> "llm_running"
    [] s = LLM_EXTRACTION /\ st = "completed"   -> "awaiting_review"
    [] s = HUMAN_REVIEW   /\ st \in InProgress  -> "awaiting_review"
    [] s = COMPLETION     /\ st = "completed"   -> "complete"
    [] OTHER                                    -> Unmapped

-----------------------------------------------------------------------------
Row    == [stage : BookStage, attempt : Nat \ {0}, status : StageStatus]
Tables == SUBSET Row
Empty  == {}

\* get_stage without an attempt: the row with the greatest attempt number.
Of(t, s)        == {r \in t : r.stage = s}
IsLatest(t, r)  == \A q \in Of(t, r.stage) : q.attempt <= r.attempt
LatestRow(t, s) == CHOOSE r \in Of(t, s) : IsLatest(t, r)
Recorded(t, s)  == Of(t, s) # {}
Latest(t, s)    == LatestRow(t, s).status

\* get_current_stages: the stages that have a row, each with its latest one.
Current(t) == {s \in BookStage : Recorded(t, s)}

HasFailedOrCancelled(t) ==
  \E s \in Current(t) : Latest(t, s) \in {"failed", "cancelled"}

\* The stages the loops of _derive_book_status may answer with.
Answering(t) ==
  {s \in Current(t) :
     /\ BOOK_STATUS_MAP(s, Latest(t, s)) # Unmapped
     /\ HasFailedOrCancelled(t) => Latest(t, s) \in TERMINAL_STATUSES}

\* _derive_book_status: the loops return at the first such stage.
DeriveBookStatus(t) ==
  IF Answering(t) = {} THEN "uploaded"
  ELSE LET s == CHOOSE f \in Answering(t) : \A g \in Answering(t) : f <= g
       IN  BOOK_STATUS_MAP(s, Latest(t, s))

-----------------------------------------------------------------------------
(***************************************************************************)
(* The transitions.  XXXOk says that the method does not raise             *)
(* StageTransitionError when it finds table t, and XXXed is the table it   *)
(* leaves.  No caller passes an attempt number, so each acts on the latest *)
(* row.                                                                    *)
(***************************************************************************)
\* The row that initiate_stage adds.
NewRow(t, s) ==
  [stage   |-> s,
   attempt |-> IF Recorded(t, s) THEN LatestRow(t, s).attempt + 1 ELSE 1,
   status  |-> "initiated"]

SetLatest(t, s, st) ==
  (t \ {LatestRow(t, s)}) \cup {[LatestRow(t, s) EXCEPT !.status = st]}

\* The statuses start_stage, complete_stage, and fail_stage and cancel_stage accept.
CanStart    == {"initiated", "failed", "cancelled"}
CanComplete == {"processing"}
CanStop     == InProgress

\* _validate_sequential
SequentialOk(t, s) ==
  s # UPLOAD => Recorded(t, s - 1) /\ Latest(t, s - 1) \in TERMINAL_STATUSES

InitiateOk(t, s)  == SequentialOk(t, s)
Initiated(t, s)   == t \cup {NewRow(t, s)}

StartOk(t, s)     == Recorded(t, s) /\ Latest(t, s) \in CanStart
Started(t, s)     == SetLatest(t, s, "processing")

CompleteOk(t, s)  == Recorded(t, s) /\ Latest(t, s) \in CanComplete
Completed(t, s)   == SetLatest(t, s, "completed")

\* fail_stage and cancel_stage have the same guard.
StopOk(t, s)      == Recorded(t, s) /\ Latest(t, s) \in CanStop
Failed(t, s)      == SetLatest(t, s, "failed")
=============================================================================
