------------------------- MODULE MCRotationRemoval -------------------------
(***************************************************************************)
(* Instances of RotationRemoval for TLC.  Two layouts of the slots table:  *)
(* one preview with two original members, and two previews authorized for  *)
(* the same member.                                                        *)
(***************************************************************************)
EXTENDS RotationRemoval, TLC

CONSTANTS s1, s2, p1, p2, a, b, w1, w2

OnePreviewSlots == s1 :> p1 @@ s2 :> p1
TwoMembers == s1 :> a @@ s2 :> b

TwoPreviewSlots == s1 :> p1 @@ s2 :> p2
SameMember == s1 :> a @@ s2 :> a

\* How often a slot was claimed: stopping the removal raises the lease epoch of
\* its slots once more, and the states that follow a stop are explored like the
\* others, with the requests it overtook and the observations after it.
Stopped == preview[p1].removal = "stopped"
Claims(s) == IF Stopped THEN slot[s].leaseEpoch - 1 ELSE slot[s].leaseEpoch

\* While the removal runs, the second claim of the first slot and the drift of an
\* epoch are explored before the second slot is claimed.
SecondSlotOnce ==
  /\ Claims(s1) <= 2
  /\ Claims(s2) > 0 =>
       Claims(s2) = 1 /\ epoch = 1 /\ (Stopped \/ Claims(s1) <= 1)

\* Requests are interchangeable; nothing but safety is checked with symmetry.
WorkerSymmetry == Permutations(Workers)
=============================================================================
