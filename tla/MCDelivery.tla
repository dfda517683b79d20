----------------------------- MODULE MCDelivery -----------------------------
(***************************************************************************)
(* Instances of Delivery for TLC.  Workers are interchangeable; no run     *)
(* that checks liveness uses the symmetry.                                 *)
(***************************************************************************)
EXTENDS Delivery, TLC

Symmetry == Permutations(Workers)
=============================================================================
