------------------------- MODULE MCWorkspaceAccess -------------------------
(* An instance of WorkspaceAccess for TLC. *)
EXTENDS WorkspaceAccess, TLC

\* Handlers are interchangeable; no property is about the fairness of one.
Symmetry == Permutations(Handlers)
=============================================================================
