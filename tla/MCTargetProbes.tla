--------------------------- MODULE MCTargetProbes ---------------------------
\* Instances of TargetProbes for TLC.
EXTENDS TargetProbes, TLC

Symmetry == Permutations(Workers) \cup Permutations(Confirms) \cup Permutations(Refreshes)

\* A behaviour has probe tasks or a Personal batch: they share the accounts only.
OneKind ==
  \/ \A x \in DOMAIN task : task[x].status = "none"
  \/ \A c \in Confirms : confirm[c].pc = "new"

\* Two confirmations of one key overlap, or the session is opened again, not both.
OneRace ==
  \/ \E c \in Confirms : confirm[c].pc = "new"
  \/ \E f \in Refreshes : refresh[f].pc = "new"
=============================================================================
