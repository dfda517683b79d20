---------------------------- MODULE MCRotationJoin ----------------------------
(***************************************************************************)
(* Instances of RotationJoin for TLC.  Requests are interchangeable.       *)
(***************************************************************************)
EXTENDS RotationJoin, FiniteSets, TLC

Symmetry == Permutations(Requests)

\* The authorization is lost in one way at a time; from then on only the
\* requests already under way are explored, and no second disturbance.
UnderWay ==
  /\ Cardinality(lost) <= 1
  /\ lost # {} =>
       /\ personal = 1
       /\ candidate # "gone"
       /\ \A r \in Requests : request[r].pc \notin {"reserve", "claim", "gate"}
=============================================================================
