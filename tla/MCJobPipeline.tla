--------------------------- MODULE MCJobPipeline ---------------------------
(* JobPipeline for TLC: the workers do not differ, nor do the clients.     *)
EXTENDS JobPipeline, TLC

Symmetric == Permutations(Workers) \cup Permutations(Clients)
=============================================================================
