----------------------------- MODULE MCOwnerAuth -----------------------------
(***************************************************************************)
(* Instances of OwnerAuth for TLC.  Failed logins are explored before      *)
(* there is a session or a reset, and from the second tick on one request  *)
(* at a time; what was opened or refused before stays.                     *)
(***************************************************************************)
EXTENDS OwnerAuth, TLC

Failed == \E x \in Subjects, w \in Windows : refused[x][w] > 0
Opened == {s \in Sessions : session[s].status # "none"}
InProgress == {r \in Requests : ~At(r, "idle")}

GuessesApart == Failed => Opened = {} /\ owner.version = 1 /\ ~reset
LateAlone == now > 1 => Failed \/ Cardinality(InProgress) <= 1

Symmetry == Permutations(Requests) \cup Permutations(Sessions) \cup Permutations(Addresses)
=============================================================================
