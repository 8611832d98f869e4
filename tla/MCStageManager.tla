--------------------------- MODULE MCStageManager ---------------------------
(* The instance of StageManager that TLC checks: its callers are alike.    *)
EXTENDS StageManager, TLC

CallersAlike == Permutations(Callers)
=============================================================================
