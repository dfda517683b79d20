------------------------ MODULE RotationRemovalProofs ------------------------
(***************************************************************************)
(* Machine-checked safety of RotationRemoval, for any number of previews,  *)
(* slots, members and concurrent requests.                                 *)
(***************************************************************************)
EXTENDS RotationRemoval, TLAPS

-----------------------------------------------------------------------------
(* Type correctness *)

\* A request in progress is about some slot: what makes the lookups in its
\* steps well typed.
BusyHasSlot ==
  \A w \in Workers : worker[w].pc # "idle" => worker[w].slot \in Slots

LEMMA InitType == Init => TypeOK /\ BusyHasSlot
  BY ConstantsAssumption
  DEF Init, TypeOK, BusyHasSlot, PreviewRow, SlotRow, Request, NoRow, Idle, NoEvidence,
      Evidence, SlotState

\* Idle and a fresh row are values of their types.
LEMMA RowTypes == NoRow \in SlotRow /\ Idle \in Request
  BY DEF NoRow, SlotRow, NoEvidence, Evidence, SlotState, Idle, Request

\* Returning keeps the requests well typed.
LEMMA ReturnType ==
  ASSUME TypeOK, NEW w \in Workers, Return(w)
  PROVE  worker' \in [Workers -> Request]
  BY RowTypes DEF TypeOK, Return

LEMMA ReleaseGateType ==
  ASSUME TypeOK, NEW w \in Workers, ReleaseGate(w)
  PROVE  gate' \in Workers \cup {NoWorker}
  BY DEF TypeOK, ReleaseGate

\* Where the two reads and the receipt leave a request, and what they keep of it.
LEMMA RosterMoves ==
  ASSUME worker \in [Workers -> Request], NEW w \in Workers, ObserveRoster(w)
  PROVE  /\ worker'[w].pc \in {"commit", "reserve"}
         /\ worker'[w].slot = worker[w].slot /\ worker'[w].readOnly = worker[w].readOnly
         /\ worker'[w].epoch = worker[w].epoch
<1>1. CASE worker[w].requested
  <2> DEFINE vacant == MemberOf[worker[w].slot] \notin remote
             seen == rejoins[MemberOf[worker[w].slot]]
  <2>1. worker' = [worker EXCEPT ![w] =
                     [@ EXCEPT !.pc = "commit", !.absent = vacant, !.seen = seen]]
    BY <1>1 DEF ObserveRoster
  <2> HIDE DEF vacant, seen
  <2>2. worker'[w] = [worker[w] EXCEPT !.pc = "commit", !.absent = vacant, !.seen = seen]
    BY <2>1
  <2> QED BY <2>2 DEF Request
<1>2. CASE ~worker[w].requested
  <2>1. worker' = [worker EXCEPT ![w] = [@ EXCEPT !.pc = "reserve"]]
    BY <1>2 DEF ObserveRoster
  <2>2. worker'[w] = [worker[w] EXCEPT !.pc = "reserve"]
    BY <2>1
  <2> QED BY <2>2 DEF Request
<1> QED BY <1>1, <1>2

LEMMA ReceiptMoves ==
  ASSUME worker \in [Workers -> Request], NEW w \in Workers, RemovalReceipt(w), ~Return(w)
  PROVE  /\ worker'[w].pc \in {"failing", "verify"}
         /\ worker'[w].slot = worker[w].slot /\ worker'[w].readOnly = worker[w].readOnly
         /\ worker'[w].epoch = worker[w].epoch
<1>1. \/ worker' = [worker EXCEPT ![w] = [@ EXCEPT !.pc = "failing"]]
      \/ worker' = [worker EXCEPT ![w] = [@ EXCEPT !.pc = "verify", !.accepted = FALSE]]
  BY DEF RemovalReceipt
<1>2. CASE worker' = [worker EXCEPT ![w] = [@ EXCEPT !.pc = "failing"]]
  <2>1. worker'[w] = [worker[w] EXCEPT !.pc = "failing"]
    BY <1>2
  <2> QED BY <2>1 DEF Request
<1>3. CASE worker' = [worker EXCEPT ![w] = [@ EXCEPT !.pc = "verify", !.accepted = FALSE]]
  <2>1. worker'[w] = [worker[w] EXCEPT !.pc = "verify", !.accepted = FALSE]
    BY <1>3
  <2> QED BY <2>1 DEF Request
<1> QED BY <1>1, <1>2, <1>3

LEMMA OwnerStepType ==
  ASSUME TypeOK, NEW p \in Previews, OwnerStep(p)
  PROVE  TypeOK'
<1>1. CASE ConfirmExpiryRotation(p)
  <2> DEFINE row == [preview[p] EXCEPT !.status = "authorized", !.session = TRUE,
                                       !.frozen = epoch, !.roster = remote]
  <2>1. preview' = [preview EXCEPT ![p] = row] /\ preview[p] \in PreviewRow
    BY <1>1 DEF TypeOK, ConfirmExpiryRotation
  <2>2. epoch \in Nat /\ remote \in SUBSET Members
    BY DEF TypeOK
  <2>3. row \in PreviewRow
    BY <2>1, <2>2 DEF PreviewRow
  <2> HIDE DEF row
  <2>4. preview' \in [Previews -> PreviewRow]
    BY <2>1, <2>3 DEF TypeOK
  <2> QED BY <1>1, <2>4 DEF TypeOK, ConfirmExpiryRotation
<1>2. CASE StartRotationRemoval(p)
  <2>1. preview' \in [Previews -> PreviewRow]
    BY <1>2 DEF TypeOK, StartRotationRemoval, PreviewRow
  <2>2. [NoRow EXCEPT !.state = "pending"] \in SlotRow
    BY RowTypes DEF SlotRow, SlotState
  <2>3. slot' \in [Slots -> SlotRow]
    BY <1>2, <2>2 DEF TypeOK, StartRotationRemoval
  <2> QED  BY <1>2, <2>1, <2>3 DEF TypeOK, StartRotationRemoval
<1>3. StoppedSlots(p) \in [Slots -> SlotRow]
  <2>1. ASSUME NEW s \in Slots PROVE SlotStopped(s) \in SlotRow
    <3>1. slot[s] \in SlotRow
      BY DEF TypeOK
    <3>2. slot[s].leaseEpoch + 1 \in Nat
      BY <3>1 DEF SlotRow
    <3> QED  BY <3>1, <3>2 DEF SlotStopped, SlotRow, SlotState
  <2> QED  BY <2>1 DEF TypeOK, StoppedSlots
<1>4. CASE StopRotationRemoval(p)
  <2>1. [preview[p] EXCEPT !.removal = "stopped"] \in PreviewRow
    BY DEF TypeOK, PreviewRow
  <2>2. preview' \in [Previews -> PreviewRow] /\ slot' \in [Slots -> SlotRow]
    BY <1>3, <1>4, <2>1 DEF TypeOK, StopRotationRemoval
  <2> QED BY <1>4, <2>2 DEF TypeOK, StopRotationRemoval
<1>5. CASE RevokeExpiryRotation(p)
  <2>1. slot' \in [Slots -> SlotRow]
    BY <1>3, <1>5 DEF TypeOK, RevokeExpiryRotation
  <2>2. preview' \in [Previews -> PreviewRow]
    <3>1. /\ [preview[p] EXCEPT !.status = "revoked"] \in PreviewRow
          /\ [preview[p] EXCEPT !.status = "revoked", !.removal = "stopped"]
               \in PreviewRow
      BY DEF TypeOK, PreviewRow
    <3> QED  BY <1>5, <3>1 DEF TypeOK, RevokeExpiryRotation
  <2> QED  BY <1>5, <2>1, <2>2 DEF TypeOK, RevokeExpiryRotation
<1> QED  BY <1>1, <1>2, <1>4, <1>5 DEF OwnerStep

LEMMA ClaimType ==
  ASSUME TypeOK, NEW w \in Workers, NEW s \in Slots, NEW verifyOnly \in BOOLEAN,
         ClaimRemoval(w, s, verifyOnly)
  PROVE  TypeOK'
<1>1. slot[s] \in SlotRow /\ worker[w] \in Request
  BY DEF TypeOK
<1>2. slot' \in [Slots -> SlotRow]
  <2>1. slot[s].leaseEpoch + 1 \in Nat
    BY <1>1 DEF SlotRow
  <2>2. ASSUME NEW readOnly \in BOOLEAN PROVE SlotClaimed(s, readOnly) \in SlotRow
    BY <1>1, <2>1 DEF SlotClaimed, SlotRow, SlotState
  <2> QED  BY <2>2 DEF TypeOK, ClaimRemoval
<1>3. worker' \in [Workers -> Request]
  <2>1. [Idle EXCEPT !.pc = "preflight", !.slot = s,
                     !.epoch = slot[s].leaseEpoch + 1,
                     !.requested = slot[s].requested,
                     !.readOnly = verifyOnly /\ ObservationOnly(PreviewOf[s]),
                     !.gated = TRUE] \in Request
    <3>1. (verifyOnly /\ ObservationOnly(PreviewOf[s])) \in BOOLEAN
      OBVIOUS
    <3>2. slot[s].leaseEpoch + 1 \in Nat /\ slot[s].requested \in BOOLEAN
      BY <1>1 DEF SlotRow
    <3> QED  BY <3>1, <3>2, RowTypes DEF Request
  <2> QED  BY <2>1 DEF TypeOK, ClaimRemoval
<1> QED  BY <1>2, <1>3 DEF TypeOK, ClaimRemoval

LEMMA RequestStepType ==
  ASSUME TypeOK, BusyHasSlot, NEW w \in Workers, RequestStep(w)
  PROVE  TypeOK'
<1> DEFINE s == worker[w].slot
<1>a. worker[w] \in Request /\ (worker[w].pc # "idle" => s \in Slots /\ slot[s] \in SlotRow)
  BY DEF TypeOK, BusyHasSlot
<1>1. CASE \E t \in Slots, verifyOnly \in BOOLEAN : ClaimRemoval(w, t, verifyOnly)
  BY <1>1, ClaimType
<1>2. CASE ObserveRoster(w)
  <2>1. rejoins[MemberOf[s]] \in Nat
    BY <1>a, <1>2, ConstantsAssumption DEF TypeOK, ObserveRoster
  <2> QED  BY <1>2, <1>a, <2>1 DEF TypeOK, ObserveRoster, Request
<1>3. CASE ObservationFails(w)
  BY <1>3, <1>a DEF TypeOK, ObservationFails, Request
<1>4. CASE ReserveRemovalRequest(w)
  BY <1>4, <1>a DEF TypeOK, ReserveRemovalRequest, Request, SlotRow, SlotState
<1>5. CASE ProbeGate(w)
  BY <1>5, <1>a DEF TypeOK, ProbeGate, Request
<1>6. CASE SendDelete(w)
  BY <1>6, <1>a DEF TypeOK, SendDelete, Request
<1>7. CASE DeleteNotSent(w)
  BY <1>7, <1>a DEF TypeOK, DeleteNotSent, Request
<1>8. CASE \E accepted \in BOOLEAN : DeleteAnswered(w, accepted)
  <2>1. PICK accepted \in BOOLEAN : DeleteAnswered(w, accepted)
    BY <1>8
  <2>2. [worker[w] EXCEPT !.pc = "receipt", !.accepted = accepted] \in Request
    BY <1>a DEF Request
  <2> QED  BY <2>1, <2>2 DEF TypeOK, DeleteAnswered
<1>9. CASE RemovalReceipt(w)
  <2>1. SlotReceipt(w) \in SlotRow
    BY <1>9, <1>a DEF RemovalReceipt, SlotReceipt, SlotRow, SlotState
  <2>2. slot' \in [Slots -> SlotRow]
    BY <1>9, <2>1 DEF TypeOK, RemovalReceipt
  <2>3. /\ [worker[w] EXCEPT !.pc = "failing"] \in Request
        /\ [worker[w] EXCEPT !.pc = "verify", !.accepted = FALSE] \in Request
    BY <1>a DEF Request
  <2>4. worker' \in [Workers -> Request] /\ gate' \in Workers \cup {NoWorker}
    BY <1>9, <2>3, ReturnType DEF TypeOK, RemovalReceipt
  <2> QED  BY <1>9, <2>2, <2>4 DEF TypeOK, RemovalReceipt
<1>10. CASE FinishRemovalFailure(w)
  <2>1. SlotFailed(w) \in SlotRow
    BY <1>10, <1>a DEF FinishRemovalFailure, SlotFailed, SlotRow, SlotState
  <2> QED
    BY <1>10, <2>1, ReturnType, ReleaseGateType DEF TypeOK, FinishRemovalFailure
<1>11. CASE CommitRemovalEvidence(w)
  <2>1. PICK fresh \in BOOLEAN :
          slot' = [slot EXCEPT ![s] =
            [@ EXCEPT !.state = IF worker[w].readOnly THEN "stopped"
                                ELSE IF worker[w].absent /\ ~worker[w].readOnly
                                     THEN "absent_verified"
                                     ELSE "remote_result_uncertain",
                      !.uncertain = ~(worker[w].absent /\ ~worker[w].readOnly),
                      !.lease = "none",
                      !.evidence = [absent |-> worker[w].absent,
                                    epoch |-> worker[w].epoch,
                                    fresh |-> fresh,
                                    seen |-> worker[w].seen]]]
    BY <1>11 DEF CommitRemovalEvidence
  <2>2. [absent |-> worker[w].absent, epoch |-> worker[w].epoch,
         fresh |-> fresh, seen |-> worker[w].seen] \in Evidence
    BY <1>a DEF Request, Evidence
  <2>3. slot' \in [Slots -> SlotRow]
    BY <1>11, <1>a, <2>1, <2>2 DEF TypeOK, CommitRemovalEvidence, SlotRow, SlotState
  <2> QED  BY <1>11, <2>3, ReturnType DEF TypeOK, CommitRemovalEvidence
<1>12. CASE Abandon(w)
  BY <1>12, ReturnType, ReleaseGateType DEF TypeOK, Abandon
<1>13. CASE GateLost(w)
  BY <1>13, <1>a, ReleaseGateType DEF TypeOK, GateLost, Request
<1> QED
  BY <1>1, <1>2, <1>3, <1>4, <1>5, <1>6, <1>7, <1>8, <1>9, <1>10, <1>11, <1>12,
     <1>13 DEF RequestStep

LEMMA EnvironmentType ==
  ASSUME TypeOK,
         \/ \E p \in Previews : ClockStep(p)
         \/ \E s \in Slots : SlotStep(s)
         \/ \E m \in Churners : MemberLeaves(m) \/ MemberRejoins(m)
         \/ EpochAdvance
         \/ UNCHANGED vars
  PROVE  TypeOK'
<1>1. ASSUME NEW p \in Previews PROVE ExpireLeases(p) \in [Slots -> SlotRow]
  <2>1. ASSUME NEW s \in Slots
        PROVE  [slot[s] EXCEPT !.lease = "expired"] \in SlotRow
    BY DEF TypeOK, SlotRow
  <2> QED  BY <2>1 DEF TypeOK, ExpireLeases
<1>2. ASSUME NEW p \in Previews, ClockStep(p) PROVE TypeOK'
  <2>1. /\ [preview[p] EXCEPT !.expired = TRUE] \in PreviewRow
        /\ [preview[p] EXCEPT !.session = FALSE] \in PreviewRow
    BY DEF TypeOK, PreviewRow
  <2> QED
    BY <1>1, <1>2, <2>1
    DEF TypeOK, ClockStep, PreviewExpires, SessionExpires, SessionRevoked
<1>3. ASSUME NEW s \in Slots, SlotStep(s) PROVE TypeOK'
  <2>1. [slot[s] EXCEPT !.lease = "expired"] \in SlotRow
    BY DEF TypeOK, SlotRow
  <2>2. [slot[s] EXCEPT !.evidence.fresh = FALSE] \in SlotRow
    <3>1. slot[s] \in SlotRow /\ slot[s].evidence \in Evidence
      BY DEF TypeOK, SlotRow
    <3>2. [slot[s].evidence EXCEPT !.fresh = FALSE] \in Evidence
      BY <3>1 DEF Evidence
    <3> QED BY <3>1, <3>2 DEF SlotRow
  <2>3. LeaseExpires(s) => TypeOK'
    BY <2>1 DEF TypeOK, LeaseExpires
  <2>4. EvidenceAges(s) => TypeOK'
    BY <2>2 DEF TypeOK, EvidenceAges
  <2>5. DeleteApplied(s) \/ DeleteDropped(s) => TypeOK'
    BY DEF TypeOK, DeleteApplied, DeleteDropped
  <2> QED  BY <1>3, <2>3, <2>4, <2>5 DEF SlotStep
<1>4. ASSUME NEW m \in Churners, MemberLeaves(m) \/ MemberRejoins(m) PROVE TypeOK'
  BY <1>4, ConstantsAssumption DEF TypeOK, MemberLeaves, MemberRejoins
<1>5. EpochAdvance => TypeOK'
  BY DEF TypeOK, EpochAdvance
<1>6. UNCHANGED vars => TypeOK'
  BY DEF TypeOK, vars
<1> QED  BY <1>2, <1>3, <1>4, <1>5, <1>6

LEMMA TypeStep ==
  ASSUME TypeOK, BusyHasSlot, [Next]_vars
  PROVE  TypeOK'
BY OwnerStepType, RequestStepType, EnvironmentType DEF Next

\* A request keeps its slot from its claim to its return.
LEMMA StepKeepsSlot ==
  ASSUME TypeOK, NEW w \in Workers, RequestStep(w)
  PROVE  \/ \E s \in Slots, v \in BOOLEAN : ClaimRemoval(w, s, v)
         \/ Return(w)
         \/ /\ worker[w].pc # "idle" /\ worker'[w].slot = worker[w].slot
            /\ worker'[w].readOnly = worker[w].readOnly
            /\ worker'[w].epoch = worker[w].epoch
<1>0. CASE ObserveRoster(w)
  BY <1>0 DEF TypeOK, ObserveRoster, Request
<1>1. CASE ObservationFails(w) \/ GateLost(w)
  BY <1>1 DEF TypeOK, ObservationFails, GateLost, Request
<1>2. CASE ReserveRemovalRequest(w)
  BY <1>2 DEF TypeOK, ReserveRemovalRequest, Request
<1>3. CASE ProbeGate(w)
  BY <1>3 DEF TypeOK, ProbeGate, Request
<1>4. CASE SendDelete(w) \/ DeleteNotSent(w)
  BY <1>4 DEF TypeOK, SendDelete, DeleteNotSent, Request
<1>5. CASE \E v \in BOOLEAN : DeleteAnswered(w, v)
  BY <1>5 DEF TypeOK, DeleteAnswered, Request
<1>6. CASE RemovalReceipt(w)
  BY <1>6, ReceiptMoves DEF TypeOK, RemovalReceipt
<1>7. CASE FinishRemovalFailure(w) \/ CommitRemovalEvidence(w) \/ Abandon(w)
  BY <1>7 DEF FinishRemovalFailure, CommitRemovalEvidence, Abandon
<1> QED  BY <1>0, <1>1, <1>2, <1>3, <1>4, <1>5, <1>6, <1>7 DEF RequestStep

\* Only the request that takes a step changes.
LEMMA OthersUnchanged ==
  ASSUME TypeOK, NEW w \in Workers, RequestStep(w), NEW u \in Workers, u # w
  PROVE  worker'[u] = worker[u]
BY DEF TypeOK, RequestStep, ClaimRemoval, ObserveRoster, ObservationFails,
       ReserveRemovalRequest, ProbeGate, SendDelete, DeleteNotSent,
       DeleteAnswered, RemovalReceipt, FinishRemovalFailure,
       CommitRemovalEvidence, Abandon, GateLost, Return

\* Requests change only by their own steps.
LEMMA WorkerChanges ==
  ASSUME TypeOK, [Next]_vars
  PROVE  UNCHANGED worker \/ \E w \in Workers : RequestStep(w)
BY DEF Next, vars, OwnerStep, ClockStep, SlotStep, ConfirmExpiryRotation,
       StartRotationRemoval, StopRotationRemoval, RevokeExpiryRotation,
       PreviewExpires, SessionExpires, SessionRevoked, LeaseExpires,
       EvidenceAges, DeleteApplied, DeleteDropped, MemberLeaves, MemberRejoins,
       EpochAdvance

LEMMA BusyStep ==
  ASSUME TypeOK, BusyHasSlot, [Next]_vars
  PROVE  BusyHasSlot'
<1>1. ASSUME NEW w \in Workers, RequestStep(w) PROVE BusyHasSlot'
  <2>1. worker'[w].pc # "idle" => worker'[w].slot \in Slots
    <3>1. CASE \E s \in Slots, v \in BOOLEAN : ClaimRemoval(w, s, v)
      BY <3>1 DEF TypeOK, ClaimRemoval, Idle
    <3>2. CASE Return(w)
      BY <3>2 DEF TypeOK, Return, Idle
    <3>3. CASE worker[w].pc # "idle" /\ worker'[w].slot = worker[w].slot
      BY <3>3 DEF BusyHasSlot
    <3> QED  BY <1>1, <3>1, <3>2, <3>3, StepKeepsSlot
  <2> QED  BY <1>1, <2>1, OthersUnchanged DEF BusyHasSlot
<1>2. UNCHANGED worker => BusyHasSlot'
  BY DEF BusyHasSlot
<1> QED  BY <1>1, <1>2, WorkerChanges

\* Whatever the numbers of previews, slots, members and requests, every row and
\* every request stays within the values the schema and the handlers allow.
THEOREM TypeCorrect == Spec => []TypeOK
<1>1. Init => TypeOK /\ BusyHasSlot
  BY InitType
<1>2. TypeOK /\ BusyHasSlot /\ [Next]_vars => (TypeOK /\ BusyHasSlot)'
  BY TypeStep, BusyStep
<1> QED  BY <1>1, <1>2, PTL DEF Spec

-----------------------------------------------------------------------------
(* What a step may do to one row *)

Requesting(s, A(_)) == \E w \in Workers : worker[w].slot = s /\ A(w)

\* Every way a step changes a slot row.
SlotChange(s) ==
  \/ slot'[s] = slot[s]
  \/ /\ slot'[s] = [NoRow EXCEPT !.state = "pending"]
     /\ StartRotationRemoval(PreviewOf[s])
  \/ /\ slot'[s] = SlotStopped(s)
     /\ slot[s].state # "stopped"
     /\ StopRotationRemoval(PreviewOf[s]) \/ RevokeExpiryRotation(PreviewOf[s])
     /\ preview[PreviewOf[s]].removal # "none"
  \/ \E w \in Workers, v \in BOOLEAN : ClaimRemoval(w, s, v)
  \/ Requesting(s, ReserveRemovalRequest)
  \/ Requesting(s, RemovalReceipt)
  \/ \E w \in Workers : /\ worker[w].slot = s /\ FinishRemovalFailure(w)
                       /\ LeaseValid(w) /\ slot'[s] = SlotFailed(w)
  \/ Requesting(s, CommitRemovalEvidence)
  \/ slot[s].lease = "live" /\ slot'[s] = [slot[s] EXCEPT !.lease = "expired"]
  \/ slot[s].evidence.fresh /\ slot'[s] = [slot[s] EXCEPT !.evidence.fresh = FALSE]

LEMMA SlotChanges ==
  ASSUME TypeOK, BusyHasSlot, [Next]_vars, NEW s \in Slots
  PROVE  SlotChange(s)
<1>1. ASSUME NEW p \in Previews, OwnerStep(p) PROVE SlotChange(s)
  <2>1. CASE ConfirmExpiryRotation(p)
    BY <2>1 DEF SlotChange, ConfirmExpiryRotation
  <2>2. CASE StartRotationRemoval(p)
    <3>1. slot'[s] = IF PreviewOf[s] = p THEN [NoRow EXCEPT !.state = "pending"]
                     ELSE slot[s]
      BY <2>2 DEF StartRotationRemoval
    <3> QED  BY <2>2, <3>1 DEF SlotChange
  <2>3. CASE StopRotationRemoval(p)
    <3>1. slot'[s] = IF PreviewOf[s] = p /\ slot[s].state # "stopped"
                     THEN SlotStopped(s) ELSE slot[s]
      BY <2>3 DEF StopRotationRemoval, StoppedSlots
    <3>2. preview[p].removal # "none"
      BY <2>3 DEF StopRotationRemoval
    <3> QED  BY <2>3, <3>1, <3>2 DEF SlotChange
  <2>4. CASE RevokeExpiryRotation(p)
    <3>1. CASE preview[p].removal = "none"
      BY <2>4, <3>1 DEF SlotChange, RevokeExpiryRotation
    <3>2. CASE preview[p].removal # "none"
      <4>1. slot'[s] = IF PreviewOf[s] = p /\ slot[s].state # "stopped"
                       THEN SlotStopped(s) ELSE slot[s]
        BY <2>4, <3>2 DEF RevokeExpiryRotation, StoppedSlots
      <4> QED  BY <2>4, <3>2, <4>1 DEF SlotChange
    <3> QED  BY <3>1, <3>2
  <2> QED  BY <1>1, <2>1, <2>2, <2>3, <2>4 DEF OwnerStep
<1>2. ASSUME NEW w \in Workers, RequestStep(w) PROVE SlotChange(s)
  <2>1. CASE UNCHANGED slot
    BY <2>1 DEF SlotChange
  <2>2. ASSUME NEW t \in Slots, NEW v \in BOOLEAN, ClaimRemoval(w, t, v)
        PROVE  SlotChange(s)
    <3>1. s # t => slot'[s] = slot[s]
      BY <2>2 DEF TypeOK, ClaimRemoval
    <3> QED  BY <2>2, <3>1 DEF SlotChange
  <2>3. CASE ReserveRemovalRequest(w)
    <3>1. s # worker[w].slot => slot'[s] = slot[s]
      BY <2>3 DEF TypeOK, ReserveRemovalRequest
    <3> QED  BY <2>3, <3>1 DEF SlotChange, Requesting
  <2>4. CASE RemovalReceipt(w)
    <3>1. s # worker[w].slot => slot'[s] = slot[s]
      BY <2>4 DEF TypeOK, RemovalReceipt
    <3> QED  BY <2>4, <3>1 DEF SlotChange, Requesting
  <2>5. CASE FinishRemovalFailure(w)
    <3>1. slot'[s] = slot[s] \/ (/\ s = worker[w].slot /\ LeaseValid(w)
                                /\ slot'[s] = SlotFailed(w))
      BY <2>5 DEF TypeOK, FinishRemovalFailure
    <3> QED  BY <2>5, <3>1 DEF SlotChange
  <2>6. CASE CommitRemovalEvidence(w)
    <3>1. s # worker[w].slot => slot'[s] = slot[s]
      BY <2>6 DEF TypeOK, CommitRemovalEvidence
    <3> QED  BY <2>6, <3>1 DEF SlotChange, Requesting
  <2> QED
    BY <1>2, <2>1, <2>2, <2>3, <2>4, <2>5, <2>6
    DEF RequestStep, ObserveRoster, ObservationFails, ProbeGate, SendDelete,
        DeleteNotSent, DeleteAnswered, Abandon, GateLost
<1>3. ASSUME NEW p \in Previews, ClockStep(p) PROVE SlotChange(s)
  <2>1. \/ slot' = slot
        \/ slot'[s] = IF /\ PreviewOf[s] = p /\ slot[s].lease = "live"
                         /\ slot[s].state # "stopped"
                      THEN [slot[s] EXCEPT !.lease = "expired"] ELSE slot[s]
    BY <1>3
    DEF ClockStep, PreviewExpires, SessionExpires, SessionRevoked, ExpireLeases
  <2> QED  BY <2>1 DEF SlotChange
<1>4. ASSUME NEW t \in Slots, SlotStep(t) PROVE SlotChange(s)
  <2>1. CASE LeaseExpires(t)
    <3>1. \/ slot'[s] = slot[s]
          \/ slot[s].lease = "live" /\ slot'[s] = [slot[s] EXCEPT !.lease = "expired"]
      BY <2>1 DEF TypeOK, LeaseExpires
    <3> QED  BY <3>1 DEF SlotChange
  <2>2. CASE EvidenceAges(t)
    <3>1. \/ slot'[s] = slot[s]
          \/ /\ slot[s].evidence.fresh
             /\ slot'[s] = [slot[s] EXCEPT !.evidence.fresh = FALSE]
      BY <2>2 DEF TypeOK, EvidenceAges
    <3> QED  BY <3>1 DEF SlotChange
  <2>3. CASE UNCHANGED slot
    BY <2>3 DEF SlotChange
  <2> QED
    BY <1>4, <2>1, <2>2, <2>3 DEF SlotStep, DeleteApplied, DeleteDropped
<1>5. UNCHANGED slot => SlotChange(s)
  BY DEF SlotChange
<1> QED
  BY <1>1, <1>2, <1>3, <1>4, <1>5
  DEF Next, vars, MemberLeaves, MemberRejoins, EpochAdvance

\* A removal is started once, with fresh rows, and stopped once, with its rows.
LEMMA RemovalChanges ==
  ASSUME TypeOK, [Next]_vars, NEW p \in Previews
  PROVE  \/ preview'[p].removal = preview[p].removal
         \/ /\ preview[p].removal = "none" /\ preview'[p].removal = "started"
            /\ StartRotationRemoval(p)
         \/ /\ preview[p].removal # "none" /\ preview'[p].removal = "stopped"
            /\ slot' = StoppedSlots(p)
<1>1. ASSUME NEW q \in Previews, ConfirmExpiryRotation(q)
      PROVE  preview'[p].removal = preview[p].removal
  BY <1>1 DEF TypeOK, PreviewRow, ConfirmExpiryRotation
<1>2. ASSUME NEW q \in Previews, StartRotationRemoval(q)
      PROVE  \/ preview'[p].removal = preview[p].removal
             \/ /\ p = q /\ preview[p].removal = "none"
                /\ preview'[p].removal = "started"
  BY <1>2 DEF TypeOK, PreviewRow, StartRotationRemoval
<1>3. ASSUME NEW q \in Previews, StopRotationRemoval(q)
      PROVE  \/ preview'[p].removal = preview[p].removal
             \/ /\ preview[p].removal # "none" /\ preview'[p].removal = "stopped"
                /\ slot' = StoppedSlots(p)
  BY <1>3 DEF TypeOK, PreviewRow, StopRotationRemoval
<1>4. ASSUME NEW q \in Previews, RevokeExpiryRotation(q)
      PROVE  \/ preview'[p].removal = preview[p].removal
             \/ /\ preview[p].removal # "none" /\ preview'[p].removal = "stopped"
                /\ slot' = StoppedSlots(p)
  <2>1. CASE p # q
    BY <1>4, <2>1 DEF TypeOK, RevokeExpiryRotation
  <2>2. CASE p = q /\ preview[q].removal = "none"
    BY <1>4, <2>2 DEF TypeOK, PreviewRow, RevokeExpiryRotation
  <2>3. CASE p = q /\ preview[q].removal # "none"
    BY <1>4, <2>3 DEF TypeOK, PreviewRow, RevokeExpiryRotation
  <2> QED  BY <2>1, <2>2, <2>3
<1>5. ASSUME NEW q \in Previews, ClockStep(q)
      PROVE  preview'[p].removal = preview[p].removal
  BY <1>5 DEF TypeOK, PreviewRow, ClockStep, PreviewExpires, SessionExpires,
              SessionRevoked
<1>6. UNCHANGED preview => preview'[p].removal = preview[p].removal
  OBVIOUS
<1>7. ASSUME NEW w \in Workers, RequestStep(w) PROVE UNCHANGED preview
  BY <1>7
  DEF RequestStep, ClaimRemoval, ObserveRoster, ObservationFails,
      ReserveRemovalRequest, ProbeGate, SendDelete, DeleteNotSent,
      DeleteAnswered, RemovalReceipt, FinishRemovalFailure,
      CommitRemovalEvidence, Abandon, GateLost
<1> QED
  BY <1>1, <1>2, <1>3, <1>4, <1>5, <1>6, <1>7
  DEF Next, vars, OwnerStep, SlotStep, LeaseExpires, EvidenceAges,
      DeleteApplied, DeleteDropped, MemberLeaves, MemberRejoins, EpochAdvance

-----------------------------------------------------------------------------
(* What the rows say, whatever requests are doing *)

\* Rows exist from the start of the removal on, and only then are they worked on.
Unstarted ==
  /\ \A s \in Slots : preview[PreviewOf[s]].removal = "none" => slot[s] = NoRow
  /\ \A w \in Workers :
       worker[w].pc # "idle" => preview[PreviewOf[worker[w].slot]].removal # "none"

\* An observation is made of a request already sent and never reaches a DELETE;
\* a request past its marker is about a marked slot.
RequestSound(w) ==
  /\ worker[w].readOnly => /\ worker[w].requested
                           /\ worker[w].pc \in {"preflight", "commit", "failing"}
  /\ worker[w].pc \in {"probe", "send", "await", "receipt", "verify", "commit"} =>
       worker[w].requested
  /\ worker[w].pc # "idle" /\ worker[w].requested => slot[worker[w].slot].requested

\* The CHECK constraints, and verified rows point at evidence of their last lease.
RowSound(s) ==
  /\ slot[s].uncertain => slot[s].requested
  /\ slot[s].requested /\ ~slot[s].uncertain => slot[s].evidence.absent
  /\ slot[s].state = "absent_verified" =>
       /\ slot[s].requested /\ slot[s].evidence.absent
       /\ slot[s].evidence.epoch = slot[s].leaseEpoch
  /\ preview[PreviewOf[s]].removal = "stopped" => slot[s].state = "stopped"

RowInv ==
  /\ TypeOK /\ BusyHasSlot /\ Unstarted
  /\ \A w \in Workers : RequestSound(w)
  /\ \A s \in Slots : RowSound(s)

LEMMA RowInit == Init => RowInv
<1> SUFFICES ASSUME Init PROVE RowInv
  OBVIOUS
<1>1. TypeOK /\ BusyHasSlot
  BY InitType
<1>2. Unstarted /\ \A w \in Workers : RequestSound(w)
  BY DEF Init, Unstarted, RequestSound, Idle
<1>3. \A s \in Slots : RowSound(s)
  BY ConstantsAssumption DEF Init, RowSound, NoRow
<1> QED  BY <1>1, <1>2, <1>3 DEF RowInv

LEMMA UnstartedStep ==
  ASSUME RowInv, [Next]_vars
  PROVE  Unstarted'
<1> USE DEF RowInv
<1>1. ASSUME NEW s \in Slots, preview'[PreviewOf[s]].removal = "none"
      PROVE  slot'[s] = NoRow
  <2>1. PreviewOf[s] \in Previews
    BY ConstantsAssumption
  <2>2. preview[PreviewOf[s]].removal = "none"
    BY <1>1, <2>1, RemovalChanges
  <2>3. slot[s] = NoRow
    BY <2>2 DEF Unstarted
  <2>4. \A w \in Workers : worker[w].pc # "idle" => worker[w].slot # s
    BY <2>2 DEF Unstarted
  <2>5. SlotChange(s)
    BY SlotChanges
  <2>6. ~StartRotationRemoval(PreviewOf[s])
    BY <1>1, <2>1 DEF TypeOK, PreviewRow, StartRotationRemoval
  <2>7. ~\E w \in Workers, v \in BOOLEAN : ClaimRemoval(w, s, v)
    BY <2>3 DEF ClaimRemoval, NoRow
  <2>8. /\ ~Requesting(s, ReserveRemovalRequest) /\ ~Requesting(s, RemovalReceipt)
        /\ ~Requesting(s, CommitRemovalEvidence)
        /\ ~\E w \in Workers : worker[w].slot = s /\ FinishRemovalFailure(w)
    BY <2>4 DEF Requesting, ReserveRemovalRequest, RemovalReceipt,
                FinishRemovalFailure, CommitRemovalEvidence
  <2>9. slot[s].lease # "live" /\ ~slot[s].evidence.fresh
    BY <2>3 DEF NoRow, NoEvidence
  <2> QED
    BY <2>2, <2>3, <2>5, <2>6, <2>7, <2>8, <2>9 DEF SlotChange
<1>2. ASSUME NEW w \in Workers, worker'[w].pc # "idle"
      PROVE  preview'[PreviewOf[worker'[w].slot]].removal # "none"
  <2>1. BusyHasSlot'
    BY BusyStep
  <2>2. worker'[w].slot \in Slots
    BY <1>2, <2>1 DEF BusyHasSlot
  <2>3. preview[PreviewOf[worker'[w].slot]].removal # "none"
    <3>1. CASE worker[w].pc # "idle" /\ worker'[w].slot = worker[w].slot
      BY <3>1 DEF Unstarted
    <3>2. CASE \E s \in Slots, v \in BOOLEAN : ClaimRemoval(w, s, v)
      <4>1. PICK s \in Slots, v \in BOOLEAN : ClaimRemoval(w, s, v)
        BY <3>2
      <4>2. worker'[w].slot = s /\ slot[s].state # "none"
        BY <4>1 DEF TypeOK, ClaimRemoval, Idle
      <4> QED  BY <4>2 DEF Unstarted, NoRow
    <3>3. \/ worker[w].pc # "idle" /\ worker'[w].slot = worker[w].slot
          \/ \E s \in Slots, v \in BOOLEAN : ClaimRemoval(w, s, v)
      <4>1. CASE UNCHANGED worker
        BY <1>2, <4>1
      <4>2. ASSUME NEW u \in Workers, RequestStep(u), u # w
            PROVE  worker[w].pc # "idle" /\ worker'[w].slot = worker[w].slot
        BY <1>2, <4>2, OthersUnchanged
      <4>3. CASE RequestStep(w)
        <5>1. Return(w) => worker'[w].pc = "idle"
          BY DEF TypeOK, Return, Idle
        <5> QED  BY <1>2, <4>3, <5>1, StepKeepsSlot
      <4> QED  BY <4>1, <4>2, <4>3, WorkerChanges
    <3> QED  BY <3>1, <3>2, <3>3
  <2>4. PreviewOf[worker'[w].slot] \in Previews
    BY <2>2, ConstantsAssumption
  <2> QED  BY <2>3, <2>4, RemovalChanges
<1> QED  BY <1>1, <1>2 DEF Unstarted

\* A marker is never erased.
LEMMA MarkerStays ==
  ASSUME RowInv, [Next]_vars, NEW s \in Slots, slot[s].requested
  PROVE  slot'[s].requested
<1> USE DEF RowInv
<1>1. slot[s] \in SlotRow
  BY DEF TypeOK
<1>2. ~StartRotationRemoval(PreviewOf[s])
  BY DEF Unstarted, StartRotationRemoval, NoRow
<1>3. ASSUME NEW w \in Workers, NEW v \in BOOLEAN, ClaimRemoval(w, s, v)
      PROVE  slot'[s].requested
  BY <1>1, <1>3 DEF TypeOK, ClaimRemoval, SlotClaimed, SlotRow
<1>4. Requesting(s, ReserveRemovalRequest) => slot'[s].requested
  BY <1>1 DEF TypeOK, Requesting, ReserveRemovalRequest, SlotRow
<1>5. Requesting(s, RemovalReceipt) => slot'[s].requested
  BY <1>1 DEF TypeOK, Requesting, RemovalReceipt, SlotReceipt, SlotRow
<1>6. Requesting(s, CommitRemovalEvidence) => slot'[s].requested
  BY <1>1 DEF TypeOK, Requesting, CommitRemovalEvidence, SlotRow
<1>7. \A w \in Workers :
        worker[w].slot = s /\ slot'[s] = SlotFailed(w) => slot'[s].requested
  BY <1>1 DEF SlotFailed, SlotRow
<1>8. \/ slot'[s] = SlotStopped(s)
      \/ slot'[s] = [slot[s] EXCEPT !.lease = "expired"]
      \/ slot'[s] = [slot[s] EXCEPT !.evidence.fresh = FALSE]
      => slot'[s].requested
  BY <1>1 DEF SlotStopped, SlotRow
<1>9. SlotChange(s)
  BY SlotChanges
<1> QED
  BY <1>2, <1>3, <1>4, <1>5, <1>6, <1>7, <1>8, <1>9 DEF SlotChange

LEMMA RequestSoundStep ==
  ASSUME RowInv, [Next]_vars, NEW w \in Workers
  PROVE  RequestSound(w)'
<1> USE DEF RowInv
<1>1. CASE worker'[w] = worker[w]
  BY <1>1, MarkerStays DEF RequestSound, BusyHasSlot
<1>2. CASE RequestStep(w)
  <2>a. worker[w] \in Request /\ RequestSound(w) /\ worker \in [Workers -> Request]
    BY DEF TypeOK
  <2>b. \A s \in Slots : slot[s].requested => slot'[s].requested
    BY MarkerStays
  <2>c. worker[w].pc # "idle" => worker[w].slot \in Slots
    BY DEF BusyHasSlot
  <2>1. ASSUME NEW s \in Slots, NEW v \in BOOLEAN, ClaimRemoval(w, s, v)
        PROVE  RequestSound(w)'
    <3>1. PICK readOnly \in BOOLEAN :
            /\ readOnly => v
            /\ worker'[w] = [Idle EXCEPT !.pc = "preflight", !.slot = s,
                               !.epoch = slot[s].leaseEpoch + 1,
                               !.requested = slot[s].requested,
                               !.readOnly = readOnly, !.gated = TRUE]
      BY <2>1 DEF TypeOK, ClaimRemoval
    <3>2. v => slot[s].requested
      BY <2>1 DEF ClaimRemoval
    <3> QED  BY <2>b, <3>1, <3>2 DEF RequestSound, Idle
  <2>2. CASE ObserveRoster(w)
    BY <2>a, <2>b, <2>c, <2>2 DEF RequestSound, ObserveRoster, Request
  <2>3. CASE ObservationFails(w) \/ GateLost(w)
    BY <2>a, <2>b, <2>c, <2>3 DEF RequestSound, ObservationFails, GateLost, Request
  <2>4. CASE ReserveRemovalRequest(w)
    <3>1. slot'[worker[w].slot].requested
      BY <2>4, <2>c DEF TypeOK, ReserveRemovalRequest, SlotRow
    <3> QED
      BY <2>a, <2>4, <3>1 DEF RequestSound, ReserveRemovalRequest, Request
  <2>5. CASE ProbeGate(w)
    BY <2>a, <2>b, <2>c, <2>5 DEF RequestSound, ProbeGate, Request
  <2>6. CASE SendDelete(w) \/ DeleteNotSent(w)
    BY <2>a, <2>b, <2>c, <2>6 DEF RequestSound, SendDelete, DeleteNotSent, Request
  <2>7. CASE \E v \in BOOLEAN : DeleteAnswered(w, v)
    BY <2>a, <2>b, <2>c, <2>7 DEF RequestSound, DeleteAnswered, Request
  <2>8. CASE Return(w)
    BY <2>a, <2>8 DEF RequestSound, Return, Idle
  <2>9. CASE RemovalReceipt(w)
    <3>1. CASE worker' = [worker EXCEPT ![w] = [@ EXCEPT !.pc = "failing"]]
      BY <2>a, <2>b, <2>c, <2>9, <3>1 DEF RequestSound, RemovalReceipt, Request
    <3>2. CASE worker' = [worker EXCEPT ![w] =
                            [@ EXCEPT !.pc = "verify", !.accepted = FALSE]]
      BY <2>a, <2>b, <2>c, <2>9, <3>2 DEF RequestSound, RemovalReceipt, Request
    <3> QED  BY <2>8, <2>9, <3>1, <3>2 DEF RemovalReceipt
  <2> QED
    BY <1>2, <2>1, <2>2, <2>3, <2>4, <2>5, <2>6, <2>7, <2>8, <2>9
    DEF RequestStep, FinishRemovalFailure, CommitRemovalEvidence, Abandon
<1> QED  BY <1>1, <1>2, WorkerChanges, OthersUnchanged

LEMMA RowSoundStep ==
  ASSUME RowInv, [Next]_vars, NEW s \in Slots
  PROVE  RowSound(s)'
<1> USE DEF RowInv
<1> DEFINE p == PreviewOf[s]
<1>a. p \in Previews /\ slot[s] \in SlotRow /\ RowSound(s)
  BY ConstantsAssumption DEF TypeOK
<1>b. \/ preview'[p].removal = preview[p].removal
      \/ preview'[p].removal = "started"
      \/ slot'[s].state = "stopped"
  <2>1. slot' = StoppedSlots(p) => slot'[s].state = "stopped"
    <3>1. slot' = StoppedSlots(p) =>
            slot'[s] = SlotStopped(s) \/ (slot'[s] = slot[s] /\ slot[s].state = "stopped")
      BY <1>a DEF StoppedSlots
    <3>2. SlotStopped(s).state = "stopped"
      BY <1>a DEF SlotStopped, SlotRow
    <3> QED BY <3>1, <3>2
  <2> QED  BY <1>a, <2>1, RemovalChanges
<1>1. CASE slot'[s] = slot[s]
  BY <1>1, <1>a, <1>b DEF RowSound
<1>2. CASE slot'[s] = [NoRow EXCEPT !.state = "pending"] /\ StartRotationRemoval(p)
  <2>1. preview'[p].removal = "started"
    BY <1>2, <1>a DEF TypeOK, PreviewRow, StartRotationRemoval
  <2> QED  BY <1>2, <2>1 DEF RowSound, NoRow
<1>3. CASE slot'[s] = SlotStopped(s)
  BY <1>3, <1>a DEF RowSound, SlotStopped, SlotRow
<1>4. ASSUME NEW w \in Workers, NEW v \in BOOLEAN, ClaimRemoval(w, s, v)
      PROVE  RowSound(s)'
  <2>1. preview' = preview
    BY <1>4 DEF ClaimRemoval
  <2>2. PICK readOnly \in BOOLEAN :
          /\ slot'[s] = SlotClaimed(s, readOnly)
          /\ readOnly \/ preview[p].removal # "stopped"
    BY <1>4 DEF TypeOK, ClaimRemoval
  <2> QED  BY <1>a, <2>1, <2>2 DEF RowSound, SlotClaimed, SlotRow
<1>5. ASSUME NEW w \in Workers, worker[w].slot = s, ReserveRemovalRequest(w)
      PROVE  RowSound(s)'
  <2>1. preview' = preview /\ preview[p].removal # "stopped"
    BY <1>5 DEF ReserveRemovalRequest, LeaseValid, RequestSound
  <2> QED
    BY <1>5, <1>a, <2>1 DEF TypeOK, RowSound, ReserveRemovalRequest, SlotRow
<1>6. ASSUME NEW w \in Workers, worker[w].slot = s, RemovalReceipt(w)
      PROVE  RowSound(s)'
  <2>1. preview' = preview /\ preview[p].removal # "stopped"
    BY <1>6 DEF RemovalReceipt, LeaseValid, RequestSound
  <2>2. slot'[s] = SlotReceipt(w)
    BY <1>6 DEF TypeOK, RemovalReceipt
  <2> QED  BY <1>6, <1>a, <2>1, <2>2 DEF RowSound, SlotReceipt, SlotRow
<1>7. ASSUME NEW w \in Workers, worker[w].slot = s, FinishRemovalFailure(w),
             LeaseValid(w), slot'[s] = SlotFailed(w)
      PROVE  RowSound(s)'
  <2>1. preview' = preview
    BY <1>7 DEF FinishRemovalFailure
  <2>2. worker[w].readOnly \/ preview[p].removal # "stopped"
    BY <1>7 DEF LeaseValid
  <2> QED  BY <1>7, <1>a, <2>1, <2>2 DEF RowSound, SlotFailed, LeaseValid, SlotRow
<1>8. ASSUME NEW w \in Workers, worker[w].slot = s, CommitRemovalEvidence(w)
      PROVE  RowSound(s)'
  <2>1. preview' = preview
    BY <1>8 DEF CommitRemovalEvidence
  <2>2. /\ worker[w].readOnly \/ preview[p].removal # "stopped"
        /\ slot[s].leaseEpoch = worker[w].epoch
    BY <1>8 DEF CommitRemovalEvidence, LeaseValid
  <2>3. /\ slot'[s].state = IF worker[w].readOnly THEN "stopped"
                            ELSE IF worker[w].absent THEN "absent_verified"
                                 ELSE "remote_result_uncertain"
        /\ slot'[s].uncertain = ~(worker[w].absent /\ ~worker[w].readOnly)
        /\ slot'[s].evidence.absent = worker[w].absent
        /\ slot'[s].evidence.epoch = worker[w].epoch
        /\ slot'[s].requested = slot[s].requested
        /\ slot'[s].leaseEpoch = slot[s].leaseEpoch
    BY <1>8, <1>a DEF TypeOK, CommitRemovalEvidence, SlotRow, Evidence
  <2>4. slot[s].requested
    BY <1>8 DEF CommitRemovalEvidence, RequestSound
  <2> QED  BY <1>8, <1>a, <2>1, <2>2, <2>3, <2>4 DEF RowSound, SlotRow
<1>9. CASE slot'[s] = [slot[s] EXCEPT !.lease = "expired"]
  BY <1>9, <1>a, <1>b DEF RowSound, SlotRow
<1>10. CASE slot'[s] = [slot[s] EXCEPT !.evidence.fresh = FALSE]
  BY <1>10, <1>a, <1>b DEF RowSound, SlotRow, Evidence
<1>11. SlotChange(s)
  BY SlotChanges
<1> QED
  BY <1>1, <1>2, <1>3, <1>4, <1>5, <1>6, <1>7, <1>8, <1>9, <1>10, <1>11
  DEF SlotChange, Requesting

\* The invariant of the rows: see RowInv.
THEOREM RowsSound == Spec => []RowInv
<1>1. RowInv /\ [Next]_vars => RowInv'
  BY TypeStep, BusyStep, UnstartedStep, RequestSoundStep, RowSoundStep DEF RowInv
<1> QED  BY RowInit, <1>1, PTL DEF Spec

\* A marker without committed absence evidence stays an uncertain obligation,
\* through failures, stops, revocations, observations and takeovers.
THEOREM ObligationsKept == Spec => []ObligationKept
<1>1. RowInv => ObligationKept
  BY DEF RowInv, RowSound, ObligationKept
<1> QED  BY RowsSound, <1>1, PTL

\* After a stop or a revocation no late request can take a slot out of "stopped".
THEOREM StopsFence == Spec => []StopFences
<1>1. RowInv => StopFences
  BY DEF RowInv, RowSound, StopFences
<1> QED  BY RowsSound, <1>1, PTL

-----------------------------------------------------------------------------
(* One unexpired lease in the Workspace *)

LEMMA OneLeaseStep ==
  ASSUME RowInv, OneActiveLease, [Next]_vars
  PROVE  OneActiveLease'
<1> USE DEF RowInv
<1>1. ASSUME NEW s \in Slots, slot'[s].lease = "live"
      PROVE  \/ slot[s].lease = "live"
             \/ \E w \in Workers, v \in BOOLEAN : ClaimRemoval(w, s, v)
  <2>1. slot[s] \in SlotRow
    BY DEF TypeOK
  <2>2. Requesting(s, ReserveRemovalRequest) => slot[s].lease = "live"
    BY DEF Requesting, ReserveRemovalRequest, LeaseValid, LeaseUnexpired
  <2>3. Requesting(s, RemovalReceipt) => slot[s].lease = "live"
    BY DEF Requesting, RemovalReceipt, LeaseValid, LeaseUnexpired
  <2>4. Requesting(s, CommitRemovalEvidence) => slot[s].lease = "live"
    BY DEF Requesting, CommitRemovalEvidence, LeaseValid, LeaseUnexpired
  <2>5. \A w \in Workers : LeaseValid(w) /\ worker[w].slot = s => slot[s].lease = "live"
    BY DEF LeaseValid, LeaseUnexpired
  <2>6. SlotChange(s)
    BY SlotChanges
  <2> QED
    BY <1>1, <2>1, <2>2, <2>3, <2>4, <2>5, <2>6
    DEF SlotChange, NoRow, SlotStopped, SlotRow
<1>2. ASSUME NEW s \in Slots, NEW w \in Workers, NEW v \in BOOLEAN,
             ClaimRemoval(w, s, v)
      PROVE  OneActiveLease'
  <2>1. \A t \in Slots : slot[t].lease # "live" /\ (t # s => slot'[t] = slot[t])
    BY <1>2 DEF TypeOK, ClaimRemoval, LeaseFree
  <2> QED  BY <2>1 DEF OneActiveLease
<1> QED  BY <1>1, <1>2 DEF OneActiveLease

\* At most one removal works on the Workspace at any time, whatever leases were
\* abandoned, expired, stopped or taken over.
THEOREM OneLease == Spec => []OneActiveLease
<1>1. Init => OneActiveLease
  BY DEF Init, OneActiveLease, NoRow
<1>2. RowInv /\ OneActiveLease /\ [Next]_vars => OneActiveLease'
  BY OneLeaseStep
<1> QED  BY RowsSound, <1>1, <1>2, PTL DEF Spec

-----------------------------------------------------------------------------
(* One DELETE for a slot *)

\* A request reaches the dispatch only by committing its marker.
LEMMA DispatchEntered ==
  ASSUME RowInv, [Next]_vars, NEW w \in Workers, Dispatching(w)'
  PROVE  \/ ReserveRemovalRequest(w) /\ worker'[w].slot = worker[w].slot
         \/ Dispatching(w) /\ worker'[w].slot = worker[w].slot
<1> USE DEF RowInv
<1>1. CASE worker'[w] = worker[w]
  BY <1>1 DEF Dispatching
<1>2. CASE RequestStep(w)
  <2>1. ~\E s \in Slots, v \in BOOLEAN : ClaimRemoval(w, s, v)
    <3>1. ASSUME NEW s \in Slots, NEW v \in BOOLEAN, ClaimRemoval(w, s, v)
          PROVE  worker'[w].pc = "preflight"
      BY <3>1 DEF TypeOK, ClaimRemoval, Idle
    <3> QED  BY <3>1 DEF Dispatching
  <2>2. ~Return(w)
    BY DEF TypeOK, Return, Idle, Dispatching
  <2>3. worker'[w].slot = worker[w].slot
    BY <1>2, <2>1, <2>2, StepKeepsSlot
  <2>4. ~(\/ ObserveRoster(w) \/ ObservationFails(w) \/ SendDelete(w)
          \/ DeleteNotSent(w) \/ \E v \in BOOLEAN : DeleteAnswered(w, v)
          \/ RemovalReceipt(w))
    <3>0. worker \in [Workers -> Request] /\ worker'[w].pc \in {"probe", "send"}
      BY DEF TypeOK, Dispatching
    <3> HIDE DEF RowInv
    <3>1. ~ObserveRoster(w) /\ ~ObservationFails(w)
      <4>1. ~ObserveRoster(w)
        BY <3>0, RosterMoves
      <4>2. ~ObservationFails(w)
        BY <3>0 DEF ObservationFails, Request
      <4> QED  BY <4>1, <4>2
    <3>2. ~SendDelete(w) /\ ~DeleteNotSent(w)
      BY <3>0 DEF SendDelete, DeleteNotSent, Request
    <3>3. ~\E v \in BOOLEAN : DeleteAnswered(w, v)
      BY <3>0 DEF DeleteAnswered, Request
    <3>4. ~RemovalReceipt(w)
      <4>1. RemovalReceipt(w) =>
              \/ worker' = [worker EXCEPT ![w] = [@ EXCEPT !.pc = "failing"]]
              \/ worker' = [worker EXCEPT ![w] =
                             [@ EXCEPT !.pc = "verify", !.accepted = FALSE]]
        BY <2>2 DEF RemovalReceipt
      <4> QED  BY <3>0, <4>1 DEF Request
    <3> QED  BY <3>1, <3>2, <3>3, <3>4
  <2>5. ProbeGate(w) \/ GateLost(w) => Dispatching(w)
    BY DEF TypeOK, ProbeGate, GateLost, Request, Dispatching
  <2> QED
    BY <1>2, <2>1, <2>2, <2>3, <2>4, <2>5
    DEF RequestStep, FinishRemovalFailure, CommitRemovalEvidence, Abandon
<1> QED  BY <1>1, <1>2, WorkerChanges, OthersUnchanged

\* The marker precedes the DELETE, and only the request that set it sends it.
DispatchInv ==
  /\ \A s \in Slots : sent[s] <= 1 /\ (~slot[s].requested => sent[s] = 0)
  /\ \A w \in Workers :
       Dispatching(w) => /\ slot[worker[w].slot].requested
                         /\ sent[worker[w].slot] = 0
  /\ \A w, u \in Workers :
       Dispatching(w) /\ Dispatching(u) /\ worker[w].slot = worker[u].slot => w = u

LEMMA MarkedByRequest ==
  ASSUME RowInv, [Next]_vars, NEW s \in Slots, ~slot[s].requested, slot'[s].requested
  PROVE  Requesting(s, ReserveRemovalRequest)
<1> USE DEF RowInv
<1>1. slot[s] \in SlotRow /\ slot \in [Slots -> SlotRow]
  BY DEF TypeOK
<1>2. ~([NoRow EXCEPT !.state = "pending"].requested)
  BY DEF NoRow
<1>3. ASSUME NEW w \in Workers, NEW v \in BOOLEAN, ClaimRemoval(w, s, v) PROVE FALSE
  BY <1>1, <1>3 DEF ClaimRemoval, SlotClaimed, SlotRow
<1>4. \A w \in Workers : worker[w].slot = s => worker[w].pc \notin {"receipt", "commit"}
  BY DEF RequestSound
<1>5. ~Requesting(s, RemovalReceipt) /\ ~Requesting(s, CommitRemovalEvidence)
  BY <1>4 DEF Requesting, RemovalReceipt, CommitRemovalEvidence
<1>6. \A w \in Workers : worker[w].slot = s => slot'[s] # SlotFailed(w)
  BY <1>1 DEF SlotFailed, SlotRow
<1>7. /\ slot'[s] # SlotStopped(s)
      /\ slot'[s] # [slot[s] EXCEPT !.lease = "expired"]
      /\ slot'[s] # [slot[s] EXCEPT !.evidence.fresh = FALSE]
  BY <1>1 DEF SlotStopped, SlotRow
<1> QED BY <1>2, <1>3, <1>5, <1>6, <1>7, SlotChanges DEF SlotChange

LEMMA SentOnlyByDispatch ==
  ASSUME TypeOK, [Next]_vars
  PROVE  sent' = sent \/ \E w \in Workers : SendDelete(w)
<1>1. ASSUME NEW p \in Previews, OwnerStep(p) \/ ClockStep(p) PROVE sent' = sent
  BY <1>1 DEF OwnerStep, ClockStep, ConfirmExpiryRotation, StartRotationRemoval,
       StopRotationRemoval, RevokeExpiryRotation, PreviewExpires, SessionExpires,
       SessionRevoked
<1>2. ASSUME NEW s \in Slots, SlotStep(s) PROVE sent' = sent
  BY <1>2 DEF SlotStep, LeaseExpires, EvidenceAges, DeleteApplied, DeleteDropped
<1>3. ASSUME NEW w \in Workers, RequestStep(w), ~SendDelete(w) PROVE sent' = sent
  BY <1>3 DEF RequestStep, ClaimRemoval, ObserveRoster, ObservationFails,
       ReserveRemovalRequest, ProbeGate, DeleteNotSent, DeleteAnswered, RemovalReceipt,
       FinishRemovalFailure, CommitRemovalEvidence, Abandon, GateLost
<1>4. (\E m \in Churners : MemberLeaves(m) \/ MemberRejoins(m)) \/ EpochAdvance => sent' = sent
  BY DEF MemberLeaves, MemberRejoins, EpochAdvance
<1> QED BY <1>1, <1>2, <1>3, <1>4 DEF Next, vars

LEMMA DispatchStep ==
  ASSUME RowInv, DispatchInv, [Next]_vars
  PROVE  DispatchInv'
<1> USE DEF RowInv
<1>a. /\ sent \in [Slots -> Nat] /\ worker \in [Workers -> Request]
      /\ \A w \in Workers : Dispatching(w) => worker[w].slot \in Slots
  BY DEF TypeOK, BusyHasSlot, Dispatching
<1>b. \A w \in Workers : ReserveRemovalRequest(w) =>
        /\ worker[w].slot \in Slots
        /\ ~slot[worker[w].slot].requested /\ slot'[worker[w].slot].requested
        /\ sent' = sent
  BY DEF TypeOK, BusyHasSlot, ReserveRemovalRequest, SlotRow
<1>1. CASE sent' = sent
  <2>1. \A s \in Slots : sent'[s] <= 1 /\ (~slot'[s].requested => sent'[s] = 0)
    BY <1>1, MarkerStays DEF DispatchInv
  <2>2. ASSUME NEW w \in Workers, Dispatching(w)'
        PROVE  slot'[worker'[w].slot].requested /\ sent'[worker'[w].slot] = 0
    BY <1>1, <1>a, <1>b, <2>2, DispatchEntered, MarkerStays DEF DispatchInv
  <2>3. ASSUME NEW w \in Workers, NEW u \in Workers, w # u, Dispatching(w)',
               Dispatching(u)', worker'[w].slot = worker'[u].slot
        PROVE  FALSE
    <3>1. ~(ReserveRemovalRequest(w) /\ ReserveRemovalRequest(u))
      BY <2>3, <1>a DEF ReserveRemovalRequest, Request
    <3> QED  BY <1>b, <2>3, <3>1, DispatchEntered DEF DispatchInv
  <2> QED  BY <2>1, <2>2, <2>3 DEF DispatchInv
<1>2. ASSUME NEW w \in Workers, SendDelete(w) PROVE DispatchInv'
  <2> DEFINE s == worker[w].slot
  <2>1. /\ Dispatching(w) /\ s \in Slots /\ slot' = slot
        /\ sent' = [sent EXCEPT ![s] = @ + 1]
        /\ worker'[w].pc = "await"
        /\ \A u \in Workers : u # w => worker'[u] = worker[u]
    BY <1>2, <1>a DEF SendDelete, Dispatching, Request
  <2>2. sent'[s] = 1 /\ slot[s].requested
    BY <1>a, <2>1 DEF DispatchInv
  <2>3. \A t \in Slots : sent'[t] <= 1 /\ (~slot'[t].requested => sent'[t] = 0)
    BY <1>a, <2>1, <2>2 DEF DispatchInv
  <2>4. ASSUME NEW u \in Workers, Dispatching(u)'
        PROVE  u # w /\ Dispatching(u) /\ worker'[u] = worker[u] /\ worker[u].slot # s
    BY <2>1, <2>4 DEF Dispatching, DispatchInv
  <2> QED  BY <1>a, <2>1, <2>3, <2>4 DEF DispatchInv
<1> QED  BY <1>1, <1>2, SentOnlyByDispatch

\* Every request that may still send its DELETE has committed its marker, and what
\* was sent is counted for the slot (reserveRemovalRequest, dispatchRemoval).
THEOREM DispatchesMarked == Spec => [](RowInv /\ DispatchInv)
<1>1. Init => DispatchInv
  BY DEF Init, DispatchInv, Dispatching, Idle, NoRow
<1>2. RowInv /\ DispatchInv /\ [Next]_vars => DispatchInv'
  BY DispatchStep
<1> QED  BY RowsSound, <1>1, <1>2, PTL DEF Spec

\* However often a slot is run again, after a crash, a lost response, a failure
\* or a takeover, one DELETE at most is sent for it, after its durable marker.
THEOREM DeleteSentOnce == Spec => []OneDeletePerSlot
<1>1. RowInv /\ DispatchInv => OneDeletePerSlot
  <2> SUFFICES ASSUME RowInv, DispatchInv, NEW s \in Slots
               PROVE  sent[s] <= 1 /\ (sent[s] = 1 => slot[s].requested)
    BY DEF OneDeletePerSlot
  <2>1. slot[s].requested \in BOOLEAN /\ sent[s] \in Nat
    BY DEF RowInv, TypeOK, SlotRow
  <2> QED  BY <2>1 DEF DispatchInv
<1> QED  BY DispatchesMarked, <1>1, PTL

LEMMA EffectStep ==
  ASSUME RowInv, DispatchInv, [Next]_vars, NEW s \in Slots
  PROVE  [DeleteEffect(s)!Next]_(DeleteEffect(s)!vars)
<1> DEFINE reserved == preview[PreviewOf[s]].removal # "none"
           marked == slot[s].requested
<1> USE DEF RowInv
<1>1. /\ PreviewOf[s] \in Previews /\ marked \in BOOLEAN /\ marked' \in BOOLEAN
      /\ sent \in [Slots -> Nat]
  BY TypeStep, ConstantsAssumption DEF TypeOK, SlotRow
<1>2. reserved => reserved'
  BY <1>1, RemovalChanges
<1>3. CASE \E w \in Workers : SendDelete(w)
  <2>1. PICK w \in Workers : SendDelete(w)
    BY <1>3
  <2>2. /\ slot' = slot /\ preview' = preview
        /\ sent' = [sent EXCEPT ![worker[w].slot] = @ + 1]
        /\ slot[worker[w].slot].requested /\ sent[worker[w].slot] = 0
    BY <2>1 DEF SendDelete, Dispatching, DispatchInv
  <2>3. \/ sent'[s] = sent[s]
        \/ marked /\ sent[s] = 0 /\ sent'[s] = 1
    BY <1>1, <2>2
  <2> QED BY <1>1, <2>2, <2>3 DEF DeleteEffect!Next, DeleteEffect!Send, DeleteEffect!vars
<1>4. CASE sent' = sent
  <2>1. CASE marked' = marked
    BY <1>1, <1>2, <1>4, <2>1 DEF DeleteEffect!Next, DeleteEffect!Reserve, DeleteEffect!vars
  <2>2. CASE marked' # marked
    <3>1. marked' /\ ~marked
      BY <1>1, <2>2, MarkerStays
    <3>2. PICK w \in Workers : worker[w].slot = s /\ ReserveRemovalRequest(w)
      BY <3>1, MarkedByRequest DEF Requesting
    <3>3. reserved /\ preview' = preview
      BY <3>2 DEF ReserveRemovalRequest, Unstarted
    <3> QED BY <1>1, <1>4, <3>1, <3>3 DEF DeleteEffect!Next, DeleteEffect!Mark, DeleteEffect!vars
  <2> QED BY <2>1, <2>2
<1> QED BY <1>3, <1>4, SentOnlyByDispatch

\* The DELETE of each slot implements the abstract promise: reserved by the start,
\* marked once, sent once at most, nothing taken back (reserveRemovalRequest,
\* RemoveWorkspaceMember, and every update of the slots table).
THEOREM DeletesAreOnce == Spec => DeletesOnce
<1>1. Init => \A s \in Slots : DeleteEffect(s)!Init
  <2> SUFFICES ASSUME Init, NEW s \in Slots PROVE DeleteEffect(s)!Init
    OBVIOUS
  <2>1. PreviewOf[s] \in Previews
    BY ConstantsAssumption
  <2>2. preview[PreviewOf[s]].removal = "none"
    BY <2>1 DEF Init
  <2>3. ~slot[s].requested /\ sent[s] = 0
    BY DEF Init, NoRow
  <2> QED BY <2>2, <2>3 DEF DeleteEffect!Init
<1>2. RowInv /\ DispatchInv /\ [Next]_vars =>
        [\A s \in Slots : [DeleteEffect(s)!Next]_(DeleteEffect(s)!vars)]_vars
  BY EffectStep
<1> QED BY <1>1, <1>2, DispatchesMarked, PTL DEF Spec, DeletesOnce

-----------------------------------------------------------------------------
(* Absence evidence *)

\* The fields commitRemovalEvidence leaves in a row.
LEMMA CommittedRow ==
  ASSUME RowInv, NEW w \in Workers, NEW s \in Slots, worker[w].slot = s,
         CommitRemovalEvidence(w)
  PROVE  /\ slot'[s].state = IF worker[w].readOnly THEN "stopped"
                             ELSE IF worker[w].absent THEN "absent_verified"
                                  ELSE "remote_result_uncertain"
         /\ slot'[s].uncertain = ~(worker[w].absent /\ ~worker[w].readOnly)
         /\ slot'[s].evidence.absent = worker[w].absent
         /\ slot'[s].evidence.epoch = worker[w].epoch
         /\ slot'[s].evidence.seen = worker[w].seen
         /\ slot'[s].requested = slot[s].requested
         /\ slot'[s].leaseEpoch = slot[s].leaseEpoch
         /\ slot[s].lease = "live" /\ slot[s].leaseEpoch = worker[w].epoch
         /\ slot[s].state # "absent_verified" /\ slot[s].requested
         /\ ~worker[w].readOnly => /\ slot[s].state # "stopped"
                                   /\ preview[PreviewOf[s]].removal # "stopped"
                                   /\ LocalFacts(PreviewOf[s])
<1>1. slot[s] \in SlotRow /\ slot \in [Slots -> SlotRow]
  BY DEF RowInv, TypeOK
<1>2. /\ slot'[s].state = IF worker[w].readOnly THEN "stopped"
                          ELSE IF worker[w].absent THEN "absent_verified"
                               ELSE "remote_result_uncertain"
      /\ slot'[s].uncertain = ~(worker[w].absent /\ ~worker[w].readOnly)
      /\ slot'[s].evidence.absent = worker[w].absent
      /\ slot'[s].evidence.epoch = worker[w].epoch
      /\ slot'[s].evidence.seen = worker[w].seen
      /\ slot'[s].requested = slot[s].requested
      /\ slot'[s].leaseEpoch = slot[s].leaseEpoch
  BY <1>1 DEF CommitRemovalEvidence, SlotRow, Evidence
<1>3. slot[s].requested
  BY DEF RowInv, RequestSound, CommitRemovalEvidence
<1> QED
  BY <1>2, <1>3 DEF CommitRemovalEvidence, LeaseValid, LeaseUnexpired, FactsFor

-----------------------------------------------------------------------------
(* Closing an obligation *)

LEMMA ClosedStep ==
  ASSUME RowInv, [Next]_vars, NEW s \in Slots,
         slot[s].uncertain, ~slot'[s].uncertain
  PROVE  /\ slot[s].lease = "live"
         /\ LocalFacts(PreviewOf[s])
         /\ slot'[s].evidence.absent
         /\ slot'[s].evidence.epoch = slot[s].leaseEpoch
<1>1. slot[s] \in SlotRow /\ slot \in [Slots -> SlotRow] /\ RowSound(s)
  BY DEF RowInv, TypeOK
<1>2. ~StartRotationRemoval(PreviewOf[s])
  BY DEF RowInv, Unstarted, StartRotationRemoval, NoRow
<1>3. ASSUME NEW w \in Workers, NEW v \in BOOLEAN, ClaimRemoval(w, s, v)
      PROVE  FALSE
  BY <1>1, <1>3 DEF ClaimRemoval, SlotClaimed, SlotRow, RowSound
<1>4. ASSUME NEW w \in Workers, worker[w].slot = s, ReserveRemovalRequest(w)
      PROVE  FALSE
  <2>1. slot'[s].uncertain = TRUE
    BY <1>1, <1>4 DEF ReserveRemovalRequest, SlotRow
  <2> QED  BY <2>1
<1>5. ASSUME NEW w \in Workers, worker[w].slot = s, RemovalReceipt(w)
      PROVE  FALSE
  <2>1. slot'[s] = SlotReceipt(w)
    BY <1>1, <1>5 DEF RemovalReceipt
  <2>2. slot'[s].uncertain = slot[s].uncertain
    BY <1>1, <1>5, <2>1 DEF SlotReceipt, SlotRow
  <2> QED  BY <2>2
<1>6. ASSUME \/ \E w \in Workers : worker[w].slot = s /\ slot'[s] = SlotFailed(w)
             \/ slot'[s] = SlotStopped(s) \/ slot'[s] = slot[s]
             \/ slot'[s] = [slot[s] EXCEPT !.lease = "expired"]
             \/ slot'[s] = [slot[s] EXCEPT !.evidence.fresh = FALSE]
      PROVE  FALSE
  <2>1. \A w \in Workers : worker[w].slot = s =>
          SlotFailed(w).uncertain = slot[s].uncertain
    BY <1>1 DEF SlotFailed, SlotRow
  <2>2. SlotStopped(s).uncertain = slot[s].uncertain
    BY <1>1 DEF SlotStopped, SlotRow
  <2>3. /\ [slot[s] EXCEPT !.lease = "expired"].uncertain = slot[s].uncertain
        /\ [slot[s] EXCEPT !.evidence.fresh = FALSE].uncertain = slot[s].uncertain
    BY <1>1 DEF SlotRow
  <2>4. slot'[s].uncertain = slot[s].uncertain
    BY <1>6, <2>1, <2>2, <2>3
  <2> QED  BY <2>4
<1>7. PICK w \in Workers : worker[w].slot = s /\ CommitRemovalEvidence(w)
  <2>1. SlotChange(s)
    BY SlotChanges DEF RowInv
  <2> QED
    BY <2>1, <1>2, <1>3, <1>4, <1>5, <1>6 DEF SlotChange, Requesting
<1>8. worker[w].readOnly \in BOOLEAN /\ worker[w].absent \in BOOLEAN
  BY DEF RowInv, TypeOK, Request
<1>9. /\ slot'[s].uncertain = ~(worker[w].absent /\ ~worker[w].readOnly)
      /\ slot'[s].evidence.absent = worker[w].absent
      /\ slot'[s].evidence.epoch = slot[s].leaseEpoch
      /\ slot[s].lease = "live"
      /\ ~worker[w].readOnly => LocalFacts(PreviewOf[s])
  BY <1>7, CommittedRow
<1> QED  BY <1>8, <1>9

\* An obligation closes only under an unexpired lease of the current fence and an
\* authorization still in force, with absence evidence of that very lease.
THEOREM ClosesUnderFence == Spec => ClosedUnderFence
<1>1. RowInv /\ [Next]_vars =>
        \A s \in Slots :
          slot[s].uncertain /\ ~slot'[s].uncertain =>
            /\ slot[s].lease = "live"
            /\ LocalFacts(PreviewOf[s])
            /\ slot'[s].evidence.absent
            /\ slot'[s].evidence.epoch = slot[s].leaseEpoch
  BY ClosedStep
<1> QED  BY RowsSound, <1>1, PTL DEF Spec, ClosedUnderFence

-----------------------------------------------------------------------------
(* The immutability trigger *)

TriggerAccepts(s) ==
  LET old == slot[s]
      new == slot'[s]
      p == PreviewOf[s] IN
  old.state # "none" /\ old # new =>
    /\ new.leaseEpoch >= old.leaseEpoch
    /\ old.requested => new.requested
    /\ old.state = "stopped" => new.state = "stopped"
    /\ old.state = "absent_verified" =>
         \/ new.state \in {"absent_verified", "stopped"}
         \/ /\ new.state = "absent_verification_pending"
            /\ new.leaseEpoch = old.leaseEpoch + 1
            /\ new.lease = "live" /\ new.uncertain
    /\ new.state = "absent_verified" =>
         /\ new.evidence.absent
         /\ new.evidence.epoch = new.leaseEpoch
         /\ old.state # "absent_verified" =>
              /\ preview[p].status = "authorized" /\ ~preview[p].expired
              /\ preview[p].removal = "started"

LEMMA TriggerStep ==
  ASSUME RowInv, [Next]_vars, NEW s \in Slots
  PROVE  TriggerAccepts(s)
<1>1. /\ slot[s] \in SlotRow /\ slot \in [Slots -> SlotRow] /\ RowSound(s)
      /\ PreviewOf[s] \in Previews /\ preview[PreviewOf[s]] \in PreviewRow
      /\ slot[s].leaseEpoch \in Nat
  BY ConstantsAssumption DEF RowInv, TypeOK, SlotRow
<1>2. CASE StartRotationRemoval(PreviewOf[s])
  BY <1>2 DEF RowInv, Unstarted, StartRotationRemoval, NoRow, TriggerAccepts
<1>3. CASE slot'[s] = SlotStopped(s)
  BY <1>1, <1>3 DEF TriggerAccepts, SlotStopped, SlotRow
<1>4. ASSUME NEW w \in Workers, NEW v \in BOOLEAN, ClaimRemoval(w, s, v)
      PROVE  TriggerAccepts(s)
  <2>1. PICK readOnly \in BOOLEAN :
          /\ slot'[s] = SlotClaimed(s, readOnly)
          /\ readOnly \/ slot[s].state # "stopped"
    BY <1>1, <1>4 DEF ClaimRemoval
  <2>2. slot[s].state = "absent_verified" => slot[s].requested
    BY <1>1 DEF RowSound
  <2> QED  BY <1>1, <2>1, <2>2 DEF TriggerAccepts, SlotClaimed, SlotRow
<1>5. ASSUME NEW w \in Workers, worker[w].slot = s, ReserveRemovalRequest(w)
      PROVE  TriggerAccepts(s)
  <2>1. slot[s].state \notin {"stopped", "absent_verified"}
    BY <1>5 DEF ReserveRemovalRequest, LeaseValid, RowInv, RequestSound
  <2>2. /\ slot'[s].state = "remove_requested" /\ slot'[s].requested
        /\ slot'[s].leaseEpoch = slot[s].leaseEpoch
    BY <1>1, <1>5 DEF ReserveRemovalRequest, SlotRow
  <2> QED  BY <1>1, <2>1, <2>2 DEF TriggerAccepts
<1>6. ASSUME NEW w \in Workers, worker[w].slot = s, RemovalReceipt(w)
      PROVE  TriggerAccepts(s)
  <2>1. slot[s].state \notin {"stopped", "absent_verified"}
    BY <1>6 DEF RemovalReceipt, LeaseValid, RowInv, RequestSound
  <2>2. slot'[s] = SlotReceipt(w)
    BY <1>1, <1>6 DEF RemovalReceipt
  <2> QED  BY <1>1, <1>6, <2>1, <2>2 DEF TriggerAccepts, SlotReceipt, SlotRow
<1>7. ASSUME NEW w \in Workers, worker[w].slot = s, LeaseValid(w),
             slot'[s] = SlotFailed(w)
      PROVE  TriggerAccepts(s)
  BY <1>1, <1>7 DEF TriggerAccepts, SlotFailed, LeaseValid, SlotRow
<1>8. ASSUME NEW w \in Workers, worker[w].slot = s, CommitRemovalEvidence(w)
      PROVE  TriggerAccepts(s)
  <2>1. preview[PreviewOf[s]].removal # "none"
    BY <1>8 DEF RowInv, Unstarted, CommitRemovalEvidence
  <2>2. worker[w].readOnly \in BOOLEAN /\ worker[w].absent \in BOOLEAN
    BY DEF RowInv, TypeOK, Request
  <2> QED
    BY <1>1, <1>8, <2>1, <2>2, CommittedRow
    DEF TriggerAccepts, LocalFacts, PreviewRow
<1>9. CASE slot'[s] = [slot[s] EXCEPT !.lease = "expired"]
  BY <1>1, <1>9 DEF TriggerAccepts, RowSound, SlotRow
<1>10. CASE slot'[s] = [slot[s] EXCEPT !.evidence.fresh = FALSE]
  BY <1>1, <1>10 DEF TriggerAccepts, RowSound, SlotRow, Evidence
<1>11. CASE slot'[s] = slot[s]
  BY <1>11 DEF TriggerAccepts
<1>12. SlotChange(s)
  BY SlotChanges DEF RowInv
<1> QED
  BY <1>2, <1>3, <1>4, <1>5, <1>6, <1>7, <1>8, <1>9, <1>10, <1>11, <1>12
  DEF SlotChange, Requesting

\* No handler ever relies on the trigger of migration 00029 to stop it.
THEOREM TriggerIsQuiet == Spec => TriggerNeverRaises
<1>1. RowInv /\ [Next]_vars => \A s \in Slots : TriggerAccepts(s)
  BY TriggerStep
<1> QED  BY RowsSound, <1>1, PTL DEF Spec, TriggerNeverRaises, TriggerAccepts

-----------------------------------------------------------------------------
(* A released slot is vacant *)

\* The member is away, or came back after it had come back n times.
Vacant(m, n) ==
  n <= rejoins[m] /\ (m \notin remote \/ rejoins[m] > n)

VacancyInv ==
  /\ \A w \in Workers :
       worker[w].pc = "commit" /\ worker[w].absent =>
         Vacant(MemberOf[worker[w].slot], worker[w].seen)
  /\ \A s \in Slots :
       slot[s].state = "absent_verified" => Vacant(MemberOf[s], slot[s].evidence.seen)

\* Only a member's own return refills a vacancy, and it is counted.
LEMMA VacantStays ==
  ASSUME TypeOK, [Next]_vars, NEW m \in Members, NEW n \in Nat, Vacant(m, n)
  PROVE  Vacant(m, n)'
<1>1. ASSUME UNCHANGED rejoins, remote' \subseteq remote PROVE Vacant(m, n)'
  BY <1>1 DEF Vacant
<1>2. ASSUME NEW c \in Churners, MemberRejoins(c) PROVE Vacant(m, n)'
  <2>1. rejoins \in [Members -> Nat] /\ c \in Members
    BY ConstantsAssumption DEF TypeOK
  <2> QED  BY <1>2, <2>1 DEF Vacant, MemberRejoins
<1>3. \/ UNCHANGED rejoins /\ remote' \subseteq remote
      \/ \E c \in Churners : MemberRejoins(c)
  <2>1. ASSUME NEW p \in Previews, OwnerStep(p) \/ ClockStep(p)
        PROVE  UNCHANGED <<rejoins, remote>>
    BY <2>1 DEF OwnerStep, ClockStep, ConfirmExpiryRotation, StartRotationRemoval,
         StopRotationRemoval, RevokeExpiryRotation, PreviewExpires, SessionExpires,
         SessionRevoked
  <2>2. ASSUME NEW s \in Slots, SlotStep(s)
        PROVE  UNCHANGED rejoins /\ remote' \subseteq remote
    BY <2>2 DEF SlotStep, LeaseExpires, EvidenceAges, DeleteApplied, DeleteDropped
  <2>3. ASSUME NEW w \in Workers, RequestStep(w)
        PROVE  UNCHANGED <<rejoins, remote>>
    BY <2>3 DEF RequestStep, ClaimRemoval, ObserveRoster, ObservationFails,
         ReserveRemovalRequest, ProbeGate, SendDelete, DeleteNotSent, DeleteAnswered,
         RemovalReceipt, FinishRemovalFailure, CommitRemovalEvidence, Abandon, GateLost
  <2>4. (\E c \in Churners : MemberLeaves(c)) \/ EpochAdvance =>
          UNCHANGED rejoins /\ remote' \subseteq remote
    BY DEF MemberLeaves, EpochAdvance
  <2> QED BY <2>1, <2>2, <2>3, <2>4 DEF Next, vars
<1> QED  BY <1>1, <1>2, <1>3

\* A request that is about to commit has just read the roster, or kept its reading.
LEMMA CommitEntered ==
  ASSUME RowInv, [Next]_vars, NEW w \in Workers, worker'[w].pc = "commit"
  PROVE  \/ ObserveRoster(w)
         \/ /\ worker[w].pc = "commit" /\ worker'[w].slot = worker[w].slot
            /\ worker'[w].absent = worker[w].absent
            /\ worker'[w].seen = worker[w].seen
<1> USE DEF RowInv
<1>1. CASE worker'[w] = worker[w]
  BY <1>1
<1>2. CASE RequestStep(w)
  <2>1. ASSUME NEW s \in Slots, NEW v \in BOOLEAN, ClaimRemoval(w, s, v)
        PROVE  worker'[w].pc = "preflight"
    BY <2>1 DEF TypeOK, ClaimRemoval, Idle
  <2>2. Return(w) => worker'[w].pc = "idle"
    BY DEF TypeOK, Return, Idle
  <2>3. ~ObservationFails(w)
    BY DEF TypeOK, ObservationFails, Request
  <2>9. worker' = [worker EXCEPT ![w] = [@ EXCEPT !.pc = "probe", !.requested = TRUE]]
          => worker'[w].pc = "probe"
    BY DEF TypeOK, Request
  <2>3b. ~ReserveRemovalRequest(w)
    BY <2>9, Zenon DEF ReserveRemovalRequest
  <2>3a. ~ProbeGate(w)
    BY DEF TypeOK, ProbeGate, Request
  <2>4. ~SendDelete(w) /\ ~DeleteNotSent(w)
    BY DEF TypeOK, SendDelete, DeleteNotSent, Request
  <2>5. ~\E v \in BOOLEAN : DeleteAnswered(w, v)
    BY DEF TypeOK, DeleteAnswered, Request
  <2>6. ~RemovalReceipt(w)
    BY <2>2, ReceiptMoves DEF TypeOK
  <2>7. GateLost(w) => /\ worker[w].pc = "commit" /\ worker'[w].slot = worker[w].slot
                       /\ worker'[w].absent = worker[w].absent
                       /\ worker'[w].seen = worker[w].seen
    BY DEF TypeOK, GateLost, Request
  <2> QED
    BY <1>2, <2>1, <2>2, <2>3, <2>3a, <2>3b, <2>4, <2>5, <2>6, <2>7
    DEF RequestStep, FinishRemovalFailure, CommitRemovalEvidence, Abandon
<1> QED  BY <1>1, <1>2, WorkerChanges, OthersUnchanged

LEMMA ObservedVacancy ==
  ASSUME RowInv, NEW w \in Workers, ObserveRoster(w), worker'[w].pc = "commit",
         worker'[w].absent
  PROVE  Vacant(MemberOf[worker[w].slot], worker[w].seen)'
<1>1. /\ worker[w] \in Request /\ worker \in [Workers -> Request]
      /\ worker[w].slot \in Slots
  BY DEF RowInv, TypeOK, BusyHasSlot, ObserveRoster
<1>2. rejoins[MemberOf[worker[w].slot]] \in Nat
  BY <1>1, ConstantsAssumption DEF RowInv, TypeOK
<1>3. /\ worker'[w].slot = worker[w].slot
      /\ MemberOf[worker[w].slot] \notin remote
      /\ worker'[w].seen = rejoins[MemberOf[worker[w].slot]]
  BY <1>1 DEF ObserveRoster, Request
<1>4. rejoins' = rejoins /\ remote' = remote
  BY DEF ObserveRoster
<1> QED  BY <1>2, <1>3, <1>4 DEF Vacant

LEMMA VerifiedChanges ==
  ASSUME RowInv, [Next]_vars, NEW s \in Slots, slot'[s].state = "absent_verified"
  PROVE  \/ /\ slot[s].state = "absent_verified"
            /\ slot'[s].evidence.seen = slot[s].evidence.seen
         \/ \E w \in Workers :
              /\ worker[w].slot = s /\ worker[w].pc = "commit" /\ worker[w].absent
              /\ slot'[s].evidence.seen = worker[w].seen
<1>1. slot[s] \in SlotRow /\ slot \in [Slots -> SlotRow]
  BY DEF RowInv, TypeOK
<1>2. ~StartRotationRemoval(PreviewOf[s])
  BY <1>1 DEF StartRotationRemoval, NoRow
<1>3. ASSUME NEW w \in Workers, NEW v \in BOOLEAN, ClaimRemoval(w, s, v)
      PROVE  FALSE
  <2>1. PICK readOnly \in BOOLEAN : slot'[s] = SlotClaimed(s, readOnly)
    BY <1>1, <1>3 DEF ClaimRemoval
  <2> QED  BY <1>1, <2>1 DEF SlotClaimed, SlotRow
<1>4. ASSUME NEW w \in Workers, worker[w].slot = s, ReserveRemovalRequest(w)
      PROVE  FALSE
  BY <1>1, <1>4 DEF ReserveRemovalRequest, SlotRow
<1>5. ASSUME NEW w \in Workers, worker[w].slot = s, RemovalReceipt(w)
      PROVE  FALSE
  BY <1>1, <1>5 DEF RemovalReceipt, SlotReceipt, SlotRow
<1>6. ASSUME NEW w \in Workers, worker[w].slot = s, LeaseValid(w),
             slot'[s] = SlotFailed(w)
      PROVE  FALSE
  BY <1>1, <1>6 DEF SlotFailed, LeaseValid, SlotRow
<1>7. ASSUME NEW w \in Workers, worker[w].slot = s, CommitRemovalEvidence(w)
      PROVE  /\ worker[w].pc = "commit" /\ worker[w].absent
             /\ slot'[s].evidence.seen = worker[w].seen
  BY <1>7, CommittedRow DEF CommitRemovalEvidence
<1>8. slot'[s] # SlotStopped(s)
  BY <1>1 DEF SlotStopped, SlotRow
<1>9. CASE \/ slot'[s] = [slot[s] EXCEPT !.lease = "expired"]
           \/ slot'[s] = [slot[s] EXCEPT !.evidence.fresh = FALSE]
  BY <1>1, <1>9 DEF SlotRow, Evidence
<1>10. SlotChange(s)
  BY SlotChanges DEF RowInv
<1> QED
  BY <1>2, <1>3, <1>4, <1>5, <1>6, <1>7, <1>8, <1>9, <1>10
  DEF SlotChange, Requesting

LEMMA VacancyStep ==
  ASSUME RowInv, VacancyInv, [Next]_vars
  PROVE  VacancyInv'
<1>a. /\ \A w \in Workers : worker[w].seen \in Nat
      /\ \A w \in Workers : worker[w].pc # "idle" => MemberOf[worker[w].slot] \in Members
      /\ \A s \in Slots : slot[s].evidence.seen \in Nat /\ MemberOf[s] \in Members
  BY ConstantsAssumption
  DEF RowInv, TypeOK, BusyHasSlot, Request, SlotRow, Evidence
<1>b. TypeOK
  BY DEF RowInv
<1>1. ASSUME NEW w \in Workers, worker'[w].pc = "commit", worker'[w].absent
      PROVE  Vacant(MemberOf[worker[w].slot], worker[w].seen)'
  <2>1. CASE ObserveRoster(w)
    BY <1>1, <2>1, ObservedVacancy
  <2>2. CASE /\ worker[w].pc = "commit" /\ worker'[w].slot = worker[w].slot
             /\ worker'[w].absent = worker[w].absent
             /\ worker'[w].seen = worker[w].seen
    <3>1. PICK m \in Members, n \in Nat :
            m = MemberOf[worker[w].slot] /\ n = worker[w].seen
      BY <1>a, <2>2
    <3>2. Vacant(m, n)
      BY <1>1, <2>2, <3>1 DEF VacancyInv
    <3>3. Vacant(m, n)'
      BY <1>b, <3>2, VacantStays
    <3>4. m = MemberOf[worker'[w].slot] /\ n = worker'[w].seen
      BY <2>2, <3>1
    <3> QED  BY <3>3, <3>4 DEF Vacant
  <2> QED  BY <1>1, <2>1, <2>2, CommitEntered
<1>2. ASSUME NEW s \in Slots, slot'[s].state = "absent_verified"
      PROVE  Vacant(MemberOf[s], slot[s].evidence.seen)'
  <2>1. PICK n \in Nat : slot'[s].evidence.seen = n /\ Vacant(MemberOf[s], n)
    BY <1>a, <1>2, VerifiedChanges DEF VacancyInv
  <2>2. Vacant(MemberOf[s], n)'
    BY <1>a, <1>b, <2>1, VacantStays
  <2> QED  BY <2>1, <2>2 DEF Vacant
<1> QED  BY <1>1, <1>2 DEF VacancyInv, Vacant

\* A slot offered to its candidate belongs to a member that is gone, unless that
\* member came back after the roster was read.
THEOREM ReleasesVacant == Spec => []ReleasedIsVacant
<1>1. Init => VacancyInv
  BY DEF Init, VacancyInv, Idle, NoRow
<1>2. RowInv /\ VacancyInv /\ [Next]_vars => VacancyInv'
  BY VacancyStep
<1>3. VacancyInv => ReleasedIsVacant
  BY DEF VacancyInv, Vacant, ReleasedIsVacant, Released
<1> QED  BY RowsSound, <1>1, <1>2, <1>3, PTL DEF Spec

-----------------------------------------------------------------------------
(* The dispatch under guard *)

Holding == {"probe", "send", "await", "receipt"}

\* A lease epoch names one request, and no request is ahead of its slot.
LeasesNamed ==
  /\ \A w \in Workers : worker[w].pc # "idle" =>
       worker[w].epoch <= slot[worker[w].slot].leaseEpoch
  /\ \A w, u \in Workers :
       /\ worker[w].pc # "idle" /\ worker[u].pc # "idle"
       /\ worker[w].slot = worker[u].slot /\ worker[w].epoch = worker[u].epoch
       => w = u

\* From the marker to the receipt the Workspace belongs to the request, as long
\* as its session lives.
GateHeld ==
  \A w \in Workers : worker[w].pc \in Holding /\ worker[w].gated => gate = w

GuardInv == LeasesNamed /\ GateHeld /\ DispatchGuarded

LEMMA LeaseEpochGrows ==
  ASSUME RowInv, [Next]_vars, NEW s \in Slots
  PROVE  \/ slot'[s].leaseEpoch >= slot[s].leaseEpoch
         \/ preview[PreviewOf[s]].removal = "none"
<1> USE DEF RowInv
<1>1. slot[s] \in SlotRow /\ slot \in [Slots -> SlotRow] /\ slot[s].leaseEpoch \in Nat
  BY DEF TypeOK, SlotRow
<1>2. SlotChange(s)
  BY SlotChanges
<1>3. CASE StartRotationRemoval(PreviewOf[s])
  BY <1>3 DEF StartRotationRemoval
<1>4. CASE slot'[s] = SlotStopped(s)
  BY <1>1, <1>4 DEF SlotStopped, SlotRow
<1>5. ASSUME NEW w \in Workers, NEW v \in BOOLEAN, ClaimRemoval(w, s, v)
      PROVE  slot'[s].leaseEpoch >= slot[s].leaseEpoch
  BY <1>1, <1>5 DEF ClaimRemoval, SlotClaimed, SlotRow
<1>6. ASSUME NEW w \in Workers, worker[w].slot = s,
             ReserveRemovalRequest(w) \/ RemovalReceipt(w) \/ CommitRemovalEvidence(w)
      PROVE  slot'[s].leaseEpoch = slot[s].leaseEpoch
  <2>1. CASE ReserveRemovalRequest(w)
    BY <1>1, <1>6, <2>1 DEF ReserveRemovalRequest, SlotRow
  <2>2. CASE RemovalReceipt(w)
    BY <1>1, <1>6, <2>2 DEF RemovalReceipt, SlotReceipt, SlotRow
  <2>3. CASE CommitRemovalEvidence(w)
    BY <1>6, <2>3, CommittedRow
  <2> QED BY <1>6, <2>1, <2>2, <2>3
<1>7. CASE \E w \in Workers : worker[w].slot = s /\ slot'[s] = SlotFailed(w)
  BY <1>1, <1>7 DEF SlotFailed, SlotRow
<1>8. CASE \/ slot'[s] = slot[s]
           \/ slot'[s] = [slot[s] EXCEPT !.lease = "expired"]
           \/ slot'[s] = [slot[s] EXCEPT !.evidence.fresh = FALSE]
  BY <1>1, <1>8 DEF SlotRow
<1>9. CASE \E w \in Workers : worker[w].slot = s /\
             (ReserveRemovalRequest(w) \/ RemovalReceipt(w) \/ CommitRemovalEvidence(w))
  BY <1>1, <1>6, <1>9
<1> HIDE DEF RowInv
<1> QED BY <1>2, <1>3, <1>4, <1>5, <1>7, <1>8, <1>9 DEF SlotChange, Requesting

\* A claim names a new epoch; every other step of a request keeps its own.
LEMMA RequestNames ==
  ASSUME RowInv, [Next]_vars, NEW w \in Workers, worker'[w].pc # "idle"
  PROVE  \/ \E s \in Slots, v \in BOOLEAN :
              /\ ClaimRemoval(w, s, v)
              /\ worker'[w].slot = s /\ worker'[w].pc = "preflight"
              /\ worker'[w].epoch = slot[s].leaseEpoch + 1
              /\ slot'[s].leaseEpoch = slot[s].leaseEpoch + 1
              /\ slot[s].lease # "live"
         \/ /\ worker[w].pc # "idle"
            /\ worker'[w].slot = worker[w].slot
            /\ worker'[w].epoch = worker[w].epoch
<1> USE DEF RowInv
<1>1. worker \in [Workers -> Request] /\ slot \in [Slots -> SlotRow]
  BY DEF TypeOK
<1>2. CASE worker'[w] = worker[w]
  BY <1>2
<1>3. CASE RequestStep(w)
  <2>1. ASSUME NEW s \in Slots, NEW v \in BOOLEAN, ClaimRemoval(w, s, v)
        PROVE  /\ worker'[w].slot = s /\ worker'[w].pc = "preflight"
               /\ worker'[w].epoch = slot[s].leaseEpoch + 1
               /\ slot'[s].leaseEpoch = slot[s].leaseEpoch + 1
               /\ slot[s].lease # "live"
    BY <1>1, <2>1 DEF ClaimRemoval, SlotClaimed, SlotRow, Idle, LeaseFree
  <2>2. ~Return(w)
    BY <1>1 DEF Return, Idle
  <2> QED BY <1>3, <2>1, <2>2, StepKeepsSlot
<1> QED BY <1>2, <1>3, WorkerChanges, OthersUnchanged

LEMMA NamesStep ==
  ASSUME RowInv, LeasesNamed, [Next]_vars
  PROVE  LeasesNamed'
<1>0. worker \in [Workers -> Request] /\ slot \in [Slots -> SlotRow] /\ slot' \in [Slots -> SlotRow]
      /\ \A u \in Workers : worker[u].pc # "idle" =>
           /\ worker[u].slot \in Slots
           /\ preview[PreviewOf[worker[u].slot]].removal # "none"
  BY TypeStep DEF RowInv, TypeOK, BusyHasSlot, Unstarted
<1>1. ASSUME NEW w \in Workers, worker'[w].pc # "idle"
      PROVE  worker'[w].epoch <= slot'[worker'[w].slot].leaseEpoch
  <2>1. CASE \E s \in Slots, v \in BOOLEAN :
               /\ ClaimRemoval(w, s, v) /\ worker'[w].slot = s
               /\ worker'[w].epoch = slot[s].leaseEpoch + 1
               /\ slot'[s].leaseEpoch = slot[s].leaseEpoch + 1
    BY <1>0, <2>1 DEF SlotRow
  <2>2. CASE /\ worker[w].pc # "idle" /\ worker'[w].slot = worker[w].slot
             /\ worker'[w].epoch = worker[w].epoch
    <3> DEFINE s == worker[w].slot
    <3>1. /\ s \in Slots /\ worker[w].epoch <= slot[s].leaseEpoch
          /\ slot'[s].leaseEpoch >= slot[s].leaseEpoch
      BY <1>0, <2>2, LeaseEpochGrows DEF LeasesNamed
    <3>2. slot[s].leaseEpoch \in Nat /\ slot'[s].leaseEpoch \in Nat /\ worker[w].epoch \in Nat
      BY <1>0, <3>1 DEF SlotRow, Request
    <3> QED BY <2>2, <3>1, <3>2
  <2> QED BY <1>1, <2>1, <2>2, RequestNames
<1>2. ASSUME NEW w \in Workers, NEW u \in Workers, w # u,
             worker'[w].pc # "idle", worker'[u].pc # "idle",
             worker'[w].slot = worker'[u].slot, worker'[w].epoch = worker'[u].epoch,
             NEW s \in Slots, NEW v \in BOOLEAN, ClaimRemoval(w, s, v),
             worker'[w].slot = s, worker'[w].epoch = slot[s].leaseEpoch + 1
      PROVE  FALSE
  <2>1. worker'[u] = worker[u]
    BY <1>0, <1>2 DEF ClaimRemoval
  <2>2. worker[u].epoch <= slot[s].leaseEpoch
    BY <1>2, <2>1 DEF LeasesNamed
  <2>3. slot[s].leaseEpoch \in Nat /\ worker[u].epoch \in Nat
    BY <1>0 DEF SlotRow, Request
  <2>4. worker[u].epoch = slot[s].leaseEpoch + 1
    BY <1>2, <2>1
  <2> QED BY <2>2, <2>3, <2>4
<1>3. ASSUME NEW w \in Workers, NEW u \in Workers, w # u,
             worker'[w].pc # "idle", worker'[u].pc # "idle",
             worker'[w].slot = worker'[u].slot, worker'[w].epoch = worker'[u].epoch
      PROVE  FALSE
  <2>1. \/ /\ worker[w].pc # "idle" /\ worker'[w].slot = worker[w].slot
           /\ worker'[w].epoch = worker[w].epoch
        \/ \E s \in Slots, v \in BOOLEAN :
             /\ ClaimRemoval(w, s, v) /\ worker'[w].slot = s
             /\ worker'[w].epoch = slot[s].leaseEpoch + 1
    BY <1>3, RequestNames
  <2>2. \/ /\ worker[u].pc # "idle" /\ worker'[u].slot = worker[u].slot
           /\ worker'[u].epoch = worker[u].epoch
        \/ \E s \in Slots, v \in BOOLEAN :
             /\ ClaimRemoval(u, s, v) /\ worker'[u].slot = s
             /\ worker'[u].epoch = slot[s].leaseEpoch + 1
    BY <1>3, RequestNames
  <2> QED BY <1>2, <1>3, <2>1, <2>2 DEF LeasesNamed
<1> QED BY <1>1, <1>3 DEF LeasesNamed

LEMMA GateHeldStep ==
  ASSUME RowInv, GateHeld, [Next]_vars
  PROVE  GateHeld'
<1> SUFFICES ASSUME NEW w \in Workers, worker'[w].pc \in Holding, worker'[w].gated
             PROVE  gate' = w
  BY DEF GateHeld
<1>0. worker \in [Workers -> Request] /\ NoWorker \notin Workers
  BY ConstantsAssumption DEF RowInv, TypeOK
<1>1. CASE UNCHANGED vars
  BY <1>1 DEF vars, GateHeld
<1>2. ASSUME NEW p \in Previews, OwnerStep(p) \/ ClockStep(p) PROVE gate' = w
  BY <1>2 DEF GateHeld, OwnerStep, ClockStep, ConfirmExpiryRotation, StartRotationRemoval,
     StopRotationRemoval, RevokeExpiryRotation, PreviewExpires, SessionExpires, SessionRevoked
<1>3. ASSUME NEW s \in Slots, SlotStep(s) PROVE gate' = w
  BY <1>3 DEF GateHeld, SlotStep, LeaseExpires, EvidenceAges, DeleteApplied, DeleteDropped
<1>4. CASE EpochAdvance \/ \E m \in Churners : MemberLeaves(m) \/ MemberRejoins(m)
  BY <1>4 DEF GateHeld, EpochAdvance, MemberLeaves, MemberRejoins
<1>5. ASSUME NEW u \in Workers, RequestStep(u), u # w PROVE gate' = w
  <2>1. gate = w
    BY <1>0, <1>5, OthersUnchanged DEF RowInv, GateHeld
  <2>2. RemovalReceipt(u) /\ worker[u].gated => gate = u
    BY DEF GateHeld, RemovalReceipt, Holding
  <2>3. ~ReserveRemovalRequest(u)
    BY <1>0, <2>1 DEF ReserveRemovalRequest
  <2> QED BY <1>5, <2>1, <2>2, <2>3
          DEF RequestStep, ClaimRemoval, ObserveRoster, ObservationFails, ProbeGate, SendDelete,
              DeleteNotSent, DeleteAnswered, RemovalReceipt, FinishRemovalFailure, ReleaseGate,
              CommitRemovalEvidence, Abandon, GateLost
<1>6. CASE RequestStep(w)
  <2>0. ~Return(w)
    BY <1>0 DEF Return, Idle, Holding
  <2>1. ASSUME NEW s \in Slots, NEW v \in BOOLEAN, ClaimRemoval(w, s, v) PROVE FALSE
    <3>1. worker'[w].pc = "preflight"
      BY <1>0, <2>1 DEF ClaimRemoval, Idle
    <3> QED BY <3>1 DEF Holding
  <2>2. ~ObserveRoster(w) /\ ~ObservationFails(w) /\ ~GateLost(w)
    <3>1. ~ObserveRoster(w)
      <4>1. ObserveRoster(w) => worker'[w].pc \in {"commit", "reserve"}
        BY <1>0, RosterMoves
      <4> QED BY <4>1 DEF Holding
    <3> QED BY <1>0, <3>1 DEF ObservationFails, GateLost, Request, Holding
  <2>3. CASE ReserveRemovalRequest(w)
    BY <2>3 DEF ReserveRemovalRequest
  <2>4. CASE ProbeGate(w) \/ SendDelete(w) \/ DeleteNotSent(w)
             \/ \E v \in BOOLEAN : DeleteAnswered(w, v)
    <3>1. worker[w].pc \in Holding /\ gate' = gate /\ worker'[w].gated = worker[w].gated
      <4>1. CASE ProbeGate(w)
        BY <1>0, <4>1 DEF ProbeGate, Holding, Request
      <4>2. CASE SendDelete(w) \/ DeleteNotSent(w)
        <5>1. CASE SendDelete(w)
          BY <1>0, <5>1 DEF SendDelete, Holding, Request
        <5>2. CASE DeleteNotSent(w)
          BY <1>0, <5>2 DEF DeleteNotSent, Holding, Request
        <5> QED BY <4>2, <5>1, <5>2
      <4>3. CASE \E v \in BOOLEAN : DeleteAnswered(w, v)
        BY <1>0, <4>3 DEF DeleteAnswered, Holding, Request
      <4> QED BY <2>4, <4>1, <4>2, <4>3
    <3> QED BY <3>1 DEF GateHeld
  <2>5. ~RemovalReceipt(w)
    BY <1>0, <2>0, ReceiptMoves DEF Holding
  <2> QED BY <1>6, <2>0, <2>1, <2>2, <2>3, <2>4, <2>5
          DEF RequestStep, FinishRemovalFailure, CommitRemovalEvidence, Abandon
<1> QED BY <1>1, <1>2, <1>3, <1>4, <1>5, <1>6 DEF Next

\* A dispatch goes on by the probe of the gate only, under its own lease.
LEMMA DispatchGoesOn ==
  ASSUME RowInv, [Next]_vars, NEW w \in Workers, Dispatching(w), Dispatching(w)'
  PROVE  /\ worker'[w].slot = worker[w].slot /\ worker'[w].epoch = worker[w].epoch
         /\ worker'[w].gated => worker[w].gated
         /\ slot'[worker[w].slot] # slot[worker[w].slot] => ~RequestStep(w)
<1> USE DEF RowInv
<1>0. worker \in [Workers -> Request] /\ worker[w].pc \in {"probe", "send"}
  BY DEF TypeOK, Dispatching
<1>1. CASE ~RequestStep(w)
  <2>1. worker'[w] = worker[w]
    BY <1>1, WorkerChanges, OthersUnchanged
  <2> QED BY <1>1, <2>1
<1>2. CASE RequestStep(w)
  <2>1. ASSUME NEW s \in Slots, NEW v \in BOOLEAN, ClaimRemoval(w, s, v) PROVE FALSE
    BY <1>0, <2>1 DEF ClaimRemoval
  <2>2. ~Return(w)
    BY <1>0 DEF Return, Idle, Dispatching
  <2>3. ~SendDelete(w) /\ ~DeleteNotSent(w)
    BY <1>0 DEF SendDelete, DeleteNotSent, Request, Dispatching
  <2>4. ProbeGate(w) \/ GateLost(w)
    BY <1>0, <1>2, <2>1, <2>2, <2>3
    DEF RequestStep, ObserveRoster, ObservationFails, ReserveRemovalRequest, DeleteAnswered,
        RemovalReceipt, FinishRemovalFailure, CommitRemovalEvidence, Abandon
  <2>5. CASE ProbeGate(w)
    BY <1>0, <2>5 DEF ProbeGate, Request
  <2>6. CASE GateLost(w)
    BY <1>0, <2>6 DEF GateLost, Request
  <2> QED BY <2>4, <2>5, <2>6
<1> QED BY <1>1, <1>2

\* What the guard says of one request.
Guarded(w) ==
  LET s == worker[w].slot IN
  /\ gate = w
  /\ slot[s].state = "remove_requested"
  /\ slot[s].lease = "live" /\ slot[s].leaseEpoch = worker[w].epoch
  /\ preview[PreviewOf[s]].removal = "started"
  /\ LocalFacts(PreviewOf[s])

LEMMA GuardEntered ==
  ASSUME RowInv, NEW w \in Workers, ReserveRemovalRequest(w)
  PROVE  Guarded(w)'
<1> DEFINE s == worker[w].slot
<1>1. /\ worker \in [Workers -> Request] /\ slot \in [Slots -> SlotRow] /\ s \in Slots
      /\ worker[w].pc = "reserve" /\ slot[s] \in SlotRow
      /\ preview \in [Previews -> PreviewRow] /\ PreviewOf[s] \in Previews
  BY ConstantsAssumption DEF RowInv, TypeOK, BusyHasSlot, ReserveRemovalRequest
<1>2. ~worker[w].readOnly
  BY <1>1 DEF RowInv, RequestSound
<1>3. /\ gate' = w /\ preview' = preview /\ epoch' = epoch
      /\ LocalFacts(PreviewOf[s]) /\ slot[s].lease = "live"
      /\ slot[s].leaseEpoch = worker[w].epoch
      /\ preview[PreviewOf[s]].removal # "stopped"
  BY <1>2 DEF ReserveRemovalRequest, LeaseValid, LeaseUnexpired
<1>4. preview[PreviewOf[s]].removal = "started"
  <2>1. preview[PreviewOf[s]].removal # "none"
    BY <1>1 DEF RowInv, Unstarted
  <2> QED BY <1>1, <1>3, <2>1 DEF PreviewRow
<1>5. /\ slot'[s].state = "remove_requested" /\ slot'[s].lease = slot[s].lease
      /\ slot'[s].leaseEpoch = slot[s].leaseEpoch
  BY <1>1 DEF ReserveRemovalRequest, SlotRow
<1>6. worker'[w].slot = s /\ worker'[w].epoch = worker[w].epoch
  BY <1>1 DEF ReserveRemovalRequest, Request
<1> QED BY <1>3, <1>4, <1>5, <1>6 DEF Guarded, LocalFacts

\* The gate keeps the Owner out, the session the writers, the deadlines the
\* clocks, and the name of the lease every other request.
LEMMA GuardKept ==
  ASSUME RowInv, LeasesNamed, [Next]_vars, NEW w \in Workers,
         Dispatching(w), Dispatching(w)', worker[w].gated, Guarded(w)
  PROVE  /\ slot'[worker[w].slot].state = "remove_requested"
         /\ slot'[worker[w].slot].lease = "live"
         /\ slot'[worker[w].slot].leaseEpoch = slot[worker[w].slot].leaseEpoch
<1> DEFINE s == worker[w].slot
<1>1. /\ slot \in [Slots -> SlotRow] /\ s \in Slots /\ slot[s] \in SlotRow
      /\ worker[w].pc # "idle" /\ NoWorker \notin Workers
      /\ slot[s].lease = "live" /\ slot[s].leaseEpoch = worker[w].epoch
      /\ slot[s].state = "remove_requested" /\ gate = w
  <2>1. slot \in [Slots -> SlotRow] /\ s \in Slots /\ NoWorker \notin Workers
    BY ConstantsAssumption DEF RowInv, TypeOK, BusyHasSlot, Dispatching
  <2>2. worker[w].pc # "idle"
    BY DEF Dispatching
  <2> QED BY <2>1, <2>2 DEF Guarded
<1>2. SlotChange(s)
  BY <1>1, SlotChanges DEF RowInv
<1>3. CASE slot'[s] = slot[s]
  BY <1>1, <1>3
<1>4. ~StartRotationRemoval(PreviewOf[s]) /\ ~StopRotationRemoval(PreviewOf[s])
      /\ ~RevokeExpiryRotation(PreviewOf[s])
  BY <1>1 DEF StartRotationRemoval, StopRotationRemoval, RevokeExpiryRotation
<1>5. ASSUME NEW u \in Workers, NEW v \in BOOLEAN PROVE ~ClaimRemoval(u, s, v)
  BY <1>1 DEF ClaimRemoval, LeaseFree
<1>6. ASSUME NEW u \in Workers, worker[u].slot = s
      PROVE  ~ReserveRemovalRequest(u) /\ ~CommitRemovalEvidence(u)
  BY <1>1 DEF ReserveRemovalRequest, CommitRemovalEvidence
<1>7. ASSUME NEW u \in Workers, worker[u].slot = s, LeaseValid(u), worker[u].pc # "idle"
      PROVE  u = w
  <2>1. worker[u].epoch = worker[w].epoch
    BY <1>1, <1>7 DEF LeaseValid
  <2> QED BY <1>1, <1>7, <2>1 DEF LeasesNamed
<1>8. ASSUME NEW u \in Workers, worker[u].slot = s
      PROVE  ~RemovalReceipt(u) /\ ~(FinishRemovalFailure(u) /\ LeaseValid(u))
  BY <1>7, <1>8 DEF RemovalReceipt, FinishRemovalFailure, Dispatching
<1>9. slot'[s] # [slot[s] EXCEPT !.lease = "expired"]
  <2>1. slot'[s].lease # "expired"
    <3>1. ASSUME NEW p \in Previews, PreviewExpires(p) \/ SessionExpires(p)
          PROVE  slot'[s] = slot[s]
      <4>1. PreviewOf[s] # p
        BY <3>1 DEF PreviewExpires, SessionExpires, DeadlinesPassed
      <4>2. slot' = ExpireLeases(p)
        BY <3>1 DEF PreviewExpires, SessionExpires
      <4> QED BY <1>1, <4>1, <4>2 DEF ExpireLeases
    <3>2. ASSUME NEW t \in Slots, LeaseExpires(t) PROVE slot'[s] = slot[s]
      <4>1. t # s
        BY <1>1, <3>2 DEF LeaseExpires, DeadlinePassed
      <4> QED BY <1>1, <3>2, <4>1 DEF LeaseExpires
    <3>3. ASSUME NEW t \in Slots, EvidenceAges(t) PROVE slot'[s].lease = slot[s].lease
      BY <1>1, <3>3 DEF EvidenceAges, SlotRow
    <3>4. ASSUME NEW u \in Workers, RequestStep(u) PROVE slot'[s].lease # "expired"
      <4>1. SlotChange(s) /\ (slot'[s] = slot[s] => slot'[s].lease # "expired")
        BY <1>1, <1>2
      <4> QED BY <1>1, <1>5, <1>6, <1>8, <3>4, <4>1
              DEF RequestStep, ClaimRemoval, ObserveRoster, ObservationFails,
                  ReserveRemovalRequest, ProbeGate, SendDelete, DeleteNotSent, DeleteAnswered,
                  RemovalReceipt, FinishRemovalFailure, CommitRemovalEvidence, Abandon, GateLost
    <3>5. ASSUME NEW p \in Previews, OwnerStep(p) \/ SessionRevoked(p)
          PROVE  slot'[s] = slot[s]
      BY <1>1, <3>5 DEF OwnerStep, ConfirmExpiryRotation, StartRotationRemoval,
         StopRotationRemoval, RevokeExpiryRotation, SessionRevoked
    <3> QED BY <1>1, <3>1, <3>2, <3>3, <3>4, <3>5
            DEF Next, vars, ClockStep, SlotStep, DeleteApplied, DeleteDropped, MemberLeaves,
                MemberRejoins, EpochAdvance
  <2> QED BY <1>1, <2>1 DEF SlotRow
<1>10. CASE slot'[s] = [slot[s] EXCEPT !.evidence.fresh = FALSE]
  BY <1>1, <1>10 DEF SlotRow
<1> QED BY <1>2, <1>3, <1>4, <1>5, <1>6, <1>8, <1>9, <1>10 DEF SlotChange, Requesting

LEMMA FactsKept ==
  ASSUME RowInv, [Next]_vars, NEW w \in Workers, Dispatching(w), worker[w].gated, Guarded(w)
  PROVE  /\ epoch' = epoch
         /\ preview'[PreviewOf[worker[w].slot]] = preview[PreviewOf[worker[w].slot]]
<1> DEFINE p == PreviewOf[worker[w].slot]
<1>1. /\ preview \in [Previews -> PreviewRow] /\ p \in Previews /\ NoWorker \notin Workers
      /\ gate = w /\ preview[p].removal = "started" /\ LocalFacts(p)
      /\ ~ActionLocksFree /\ ~DeadlinesPassed(p)
  BY ConstantsAssumption DEF RowInv, TypeOK, BusyHasSlot, Dispatching, Guarded, ActionLocksFree,
     DeadlinesPassed
<1>2. epoch' = epoch /\ preview'[p] = preview[p]
  <2>1. ASSUME NEW q \in Previews, OwnerStep(q) \/ ClockStep(q) PROVE <1>2
    <3>1. CASE ConfirmExpiryRotation(q)
      <4>1. q # p
        BY <1>1, <3>1 DEF ConfirmExpiryRotation, LocalFacts
      <4> QED BY <1>1, <3>1, <4>1 DEF ConfirmExpiryRotation
    <3>2. CASE PreviewExpires(q) \/ SessionExpires(q)
      <4>1. q # p
        BY <1>1, <3>2 DEF PreviewExpires, SessionExpires
      <4> QED BY <1>1, <3>2, <4>1 DEF PreviewExpires, SessionExpires
    <3> QED BY <1>1, <2>1, <3>1, <3>2 DEF OwnerStep, ClockStep, StartRotationRemoval,
               StopRotationRemoval, RevokeExpiryRotation, SessionRevoked
  <2>2. ASSUME NEW u \in Workers, RequestStep(u) PROVE <1>2
    BY <2>2 DEF RequestStep, ClaimRemoval, ObserveRoster, ObservationFails,
       ReserveRemovalRequest, ProbeGate, SendDelete, DeleteNotSent, DeleteAnswered,
       RemovalReceipt, FinishRemovalFailure, CommitRemovalEvidence, Abandon, GateLost
  <2> QED BY <1>1, <2>1, <2>2 DEF Next, vars, SlotStep, LeaseExpires, EvidenceAges,
             DeleteApplied, DeleteDropped, MemberLeaves, MemberRejoins, EpochAdvance
<1> QED BY <1>2

\* The guard holds from the reservation to the send.
LEMMA GuardStep ==
  ASSUME RowInv, GuardInv, [Next]_vars
  PROVE  GuardInv'
<1>1. LeasesNamed' /\ GateHeld'
  BY NamesStep, GateHeldStep DEF GuardInv
<1>2. ASSUME NEW w \in Workers, Dispatching(w)', worker'[w].gated
      PROVE  Guarded(w)'
  <2>1. CASE ReserveRemovalRequest(w)
    BY <2>1, GuardEntered
  <2>2. CASE Dispatching(w)
    <3>1. worker[w].gated /\ worker'[w].slot = worker[w].slot
          /\ worker'[w].epoch = worker[w].epoch
      BY <1>2, <2>2, DispatchGoesOn
    <3>2. Guarded(w)
      BY <2>2, <3>1 DEF GuardInv, DispatchGuarded, Guarded
    <3>3. gate' = w
      BY <1>1, <1>2 DEF GateHeld, Dispatching, Holding
    <3>4. /\ slot'[worker[w].slot].state = "remove_requested"
          /\ slot'[worker[w].slot].lease = "live"
          /\ slot'[worker[w].slot].leaseEpoch = slot[worker[w].slot].leaseEpoch
      BY <1>2, <2>2, <3>1, <3>2, GuardKept DEF GuardInv
    <3>5. epoch' = epoch
          /\ preview'[PreviewOf[worker[w].slot]] = preview[PreviewOf[worker[w].slot]]
      BY <2>2, <3>1, <3>2, FactsKept
    <3> QED BY <3>1, <3>2, <3>3, <3>4, <3>5 DEF Guarded, LocalFacts
  <2> QED BY <1>2, <2>1, <2>2, DispatchEntered
<1> QED BY <1>1, <1>2 DEF GuardInv, DispatchGuarded, Guarded

\* As long as the session that holds its locks lives, a request sends the DELETE
\* with all it checked still true: the Workspace is its own, its lease is current
\* and unexpired, nothing was stopped and no covered writer got in.
THEOREM DispatchIsGuarded == Spec => []DispatchGuarded
<1>1. Init => GuardInv
  BY DEF Init, GuardInv, LeasesNamed, GateHeld, Holding, DispatchGuarded, Dispatching, Idle
<1>2. RowInv /\ GuardInv /\ [Next]_vars => GuardInv'
  BY GuardStep
<1>3. GuardInv => DispatchGuarded
  BY DEF GuardInv
<1> QED BY <1>1, <1>2, <1>3, RowsSound, PTL DEF Spec

=============================================================================
