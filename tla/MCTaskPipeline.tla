-------------------------- MODULE MCTaskPipeline --------------------------
(* TaskPipeline with the symmetry sets its safety runs use.                *)
EXTENDS TaskPipeline, TLC

Symmetry == Permutations(Requests) \cup Permutations(Wordings)
=============================================================================
