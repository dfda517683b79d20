-------------------------- MODULE MCExpiryRotation --------------------------
(* Instances of ExpiryRotation for TLC. *)
EXTENDS ExpiryRotation, TLC

Symmetry == Permutations(Members) \cup Permutations(Candidates)
            \cup Permutations(Requests) \cup Permutations(Previews) \cup Permutations(Keys)
=============================================================================
