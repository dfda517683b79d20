---------------------------- MODULE OnceOnlyEffect ----------------------------
(***************************************************************************)
(* What a stage that changes the platform promises, whatever crashes, lost *)
(* leases, decisions of the Owner and late answers lie in between:         *)
(*   - nothing is sent unless the obligation was reserved and a durable    *)
(*     marker says that a request may have reached the platform;           *)
(*   - neither the obligation nor the marker is ever taken back, and the   *)
(*     stage is marked once;                                               *)
(*   - one marker allows one request: the stage is never replayed.         *)
(* A detailed module implements it by INSTANCE with a refinement mapping.  *)
(***************************************************************************)
EXTENDS Naturals

VARIABLES
  reserved,  \* the obligation exists
  marks,     \* markers committed for the stage
  sent       \* requests of the stage that left the process

vars == <<reserved, marks, sent>>

Init ==
  /\ reserved = FALSE
  /\ marks = 0
  /\ sent = 0

Reserve ==
  /\ reserved' = TRUE
  /\ UNCHANGED <<marks, sent>>

Mark ==
  /\ reserved
  /\ marks = 0
  /\ marks' = 1
  /\ UNCHANGED <<reserved, sent>>

Send ==
  /\ marks = 1
  /\ sent = 0
  /\ sent' = 1
  /\ UNCHANGED <<reserved, marks>>

Next == Reserve \/ Mark \/ Send

Spec == Init /\ [][Next]_vars
=============================================================================
