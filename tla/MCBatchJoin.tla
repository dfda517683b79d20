----------------------------- MODULE MCBatchJoin -----------------------------
(***************************************************************************)
(* Instances of BatchJoin for TLC.  Targets and workers are                *)
(* interchangeable; runs that check liveness use no symmetry.  With two    *)
(* targets a task is only retried while the other target has not started.  *)
(***************************************************************************)
EXTENDS BatchJoin, TLC

Symmetry == Permutations(Targets) \cup Permutations(Workers)

RetriesAlone ==
  \A x, y \in Tasks :
    task[x].attempts > 1 /\ x[2] # y[2] => task[y].attempts = 0
=============================================================================
