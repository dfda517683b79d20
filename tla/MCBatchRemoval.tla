---------------------------- MODULE MCBatchRemoval ----------------------------
(***************************************************************************)
(* Instances of BatchRemoval for TLC.  Workers are interchangeable, and so *)
(* are the targets other than the canary; runs that check liveness use no  *)
(* symmetry.                                                               *)
(***************************************************************************)
EXTENDS BatchRemoval, FiniteSets, TLC

Retried == {x \in Tasks : task[x].attempts > 1}
RetriedAgain == {x \in Tasks : task[x].attempts > 2}
Others == {x \in Tasks : TargetOf(x) # Canary /\ task[x].attempts > 0}

OneRetry ==
  /\ Cardinality(Retried) <= 1
  /\ RetriedAgain # {} => Others = {}

Symmetry == Permutations(Workers) \cup Permutations(Targets \ {Canary})
=============================================================================
