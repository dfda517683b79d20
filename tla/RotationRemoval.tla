--------------------------- MODULE RotationRemoval ---------------------------
(***************************************************************************)
(* Authorization-bound removal of the original members of one Workspace    *)
(* (internal/runtime/rotation_removal.go, migration 00029).                *)
(*                                                                         *)
(* An authorized preview fixes a set of slots, one per original member.    *)
(* Owner requests (Workers) run a slot: claim a fenced lease, read the     *)
(* remote roster, commit a request marker, send ONE remote DELETE, read    *)
(* the roster again and commit absence evidence.  A slot is released to    *)
(* its candidate only while tsw_rotation_released_slots shows it.          *)
(*                                                                         *)
(* Each database transaction is one step; remote reads, the dispatch and   *)
(* the response are steps of their own, between which other requests,      *)
(* Stop/Revoke, clocks, writers of source facts and the remote platform    *)
(* act.  A request may end at any point (error return, crash).             *)
(***************************************************************************)
EXTENDS Naturals

CONSTANTS
  Slots,        \* rows of tsw_rotation_removal_slots
  Previews,     \* rows of tsw_expiry_rotation_previews of the Workspace
  Members,      \* remote members of the Workspace
  Workers,      \* concurrent Owner requests (run / verify)
  PreviewOf,    \* preview_id of a slot
  MemberOf,     \* platform_member_id of a slot
  Churners,     \* members that may leave and come back by themselves
  NoWorker,     \* nobody holds the workspace advisory lock
  NoSlot,       \* slot of an idle request
  MaxEpoch,     \* bound on writer epochs
  MaxLease,     \* bound on lease_epoch when claiming
  MaxRejoins    \* bound on how often a member comes back

ASSUME ConstantsAssumption ==
  /\ PreviewOf \in [Slots -> Previews]
  /\ MemberOf \in [Slots -> Members]
  /\ Churners \subseteq Members
  /\ NoWorker \notin Workers
  /\ NoSlot \notin Slots
  /\ MaxEpoch \in Nat /\ MaxLease \in Nat /\ MaxRejoins \in Nat

\* UNIQUE(preview_id,platform_member_id) of migration 00029.
ASSUME SlotKeyAssumption ==
  \A s, t \in Slots :
    PreviewOf[s] = PreviewOf[t] /\ MemberOf[s] = MemberOf[t] => s = t

VARIABLES
  epoch,     \* version of the frozen writer-epoch scopes, as one counter
  preview,   \* preview row and its tsw_rotation_removals row
  slot,      \* slot rows
  worker,    \* Owner requests in progress
  gate,      \* holder of the workspace advisory lock
  remote,    \* members really in the Workspace
  inflight,  \* slots whose DELETE the platform has not handled yet
  rejoins,   \* how often each member came back (external)
  sent       \* history: DELETEs sent for each slot

vars == <<epoch, preview, slot, worker, gate, remote, inflight, rejoins, sent>>

-----------------------------------------------------------------------------
(* Rows *)

SlotState == {"none", "pending", "lease_acquired", "remove_requested",
              "remote_result_uncertain", "absent_verification_pending",
              "absent_verified", "blocked", "stopped"}

\* A row of tsw_rotation_removal_evidence; epoch 0 stands for NULL.
\* seen: the member's rejoin count when the roster was read.
Evidence == [absent : BOOLEAN, epoch : Nat, fresh : BOOLEAN, seen : Nat]
NoEvidence == [absent |-> FALSE, epoch |-> 0, fresh |-> FALSE, seen |-> 0]

SlotRow == [state : SlotState, leaseEpoch : Nat,
            lease : {"none", "live", "expired"},
            requested : BOOLEAN, uncertain : BOOLEAN, evidence : Evidence]
NoRow == [state |-> "none", leaseEpoch |-> 0, lease |-> "none",
          requested |-> FALSE, uncertain |-> FALSE, evidence |-> NoEvidence]

PreviewRow == [status : {"ready", "authorized", "revoked"}, expired : BOOLEAN,
               session : BOOLEAN, frozen : Nat, roster : SUBSET Members,
               removal : {"none", "started", "stopped"}]

\* removalLease plus the position in runRotationRemovalSlot; gated says that the
\* physical database session holding the action locks is still alive.
Request == [pc : {"idle", "preflight", "reserve", "probe", "send", "await",
                  "receipt", "verify", "commit", "failing"},
            slot : Slots \cup {NoSlot}, epoch : Nat, requested : BOOLEAN,
            readOnly : BOOLEAN, accepted : BOOLEAN, absent : BOOLEAN,
            seen : Nat, gated : BOOLEAN]
Idle == [pc |-> "idle", slot |-> NoSlot, epoch |-> 0, requested |-> FALSE,
         readOnly |-> FALSE, accepted |-> FALSE, absent |-> FALSE,
         seen |-> 0, gated |-> FALSE]

\* Every variable holds a value the schema and the handlers allow.
TypeOK ==
  /\ epoch \in Nat
  /\ preview \in [Previews -> PreviewRow]
  /\ slot \in [Slots -> SlotRow]
  /\ worker \in [Workers -> Request]
  /\ gate \in Workers \cup {NoWorker}
  /\ remote \subseteq Members
  /\ inflight \subseteq Slots
  /\ rejoins \in [Members -> Nat]
  /\ sent \in [Slots -> Nat]

Init ==
  /\ epoch = 1
  /\ preview = [p \in Previews |->
                  [status |-> "ready", expired |-> FALSE, session |-> TRUE,
                   frozen |-> 0, roster |-> {}, removal |-> "none"]]
  /\ slot = [s \in Slots |-> NoRow]
  /\ worker = [w \in Workers |-> Idle]
  /\ gate = NoWorker
  /\ remote = Members
  /\ inflight = {}
  /\ rejoins = [m \in Members |-> 0]
  /\ sent = [s \in Slots |-> 0]

-----------------------------------------------------------------------------
(* Conditions shared by the transactions *)

SlotsOf(p) == {s \in Slots : PreviewOf[s] = p}

\* removalLocalFacts: authorization active, every frozen epoch unchanged, the
\* original session valid.  Drafts, credentials, usage and protection rows are
\* writer-fenced facts: changing one advances an epoch.
LocalFacts(p) ==
  /\ preview[p].status = "authorized"
  /\ ~preview[p].expired
  /\ preview[p].frozen = epoch
  /\ preview[p].session

\* removalReadOnlyFacts asks only for current credentials and session.
FactsFor(w) == worker[w].readOnly \/ LocalFacts(PreviewOf[worker[w].slot])

LeaseUnexpired(s) == slot[s].lease = "live"

\* The fence of removalLeaseTx and of finishRemovalFailure: owner, token and
\* epoch match (a lease epoch names one claim), the lease is unexpired in
\* database time, and the slot is neither verified nor stopped.
LeaseValid(w) ==
  LET s == worker[w].slot IN
  /\ slot[s].leaseEpoch = worker[w].epoch
  /\ LeaseUnexpired(s)
  /\ slot[s].state # "absent_verified"
  /\ \/ worker[w].readOnly
     \/ /\ slot[s].state # "stopped"
        /\ preview[PreviewOf[s]].removal # "stopped"

\* checkRemovalSnapshot: the live roster is the frozen one minus only the
\* members of this preview that are committed absent_verified.
Expected(p) ==
  preview[p].roster \
    {MemberOf[t] : t \in {u \in SlotsOf(p) : slot[u].state = "absent_verified"}}

SnapshotAccepted(w, allowAbsent) ==
  LET s == worker[w].slot IN
  \/ worker[w].readOnly
  \/ /\ remote \subseteq Expected(PreviewOf[s])
     /\ Expected(PreviewOf[s]) \ remote \subseteq {MemberOf[s]}
     /\ allowAbsent \/ MemberOf[s] \in remote

\* View tsw_rotation_released_slots.
Released(s) ==
  LET p == PreviewOf[s] IN
  /\ slot[s].state = "absent_verified"
  /\ ~slot[s].uncertain
  /\ slot[s].evidence.absent
  /\ slot[s].evidence.fresh
  /\ preview[p].removal # "stopped"
  /\ LocalFacts(p)

\* gate.close: the handler returned and its physical session dropped its locks.
Return(w) == worker' = [worker EXCEPT ![w] = Idle]
ReleaseGate(w) == gate' = IF gate = w THEN NoWorker ELSE gate

-----------------------------------------------------------------------------
(* The Owner's control requests *)

\* ConfirmExpiryRotation: re-read facts equal the previewed ones, so the original
\* members are present; assignments, roster and epochs are frozen.
ConfirmExpiryRotation(p) ==
  /\ preview[p].status = "ready"
  /\ ~preview[p].expired
  /\ \A s \in SlotsOf(p) : MemberOf[s] \in remote
  /\ preview' = [preview EXCEPT ![p] =
       [@ EXCEPT !.status = "authorized", !.session = TRUE,
                 !.frozen = epoch, !.roster = remote]]
  /\ UNCHANGED <<epoch, slot, worker, gate, remote, inflight, rejoins, sent>>

\* The "outstanding" query of StartRotationRemoval.
Outstanding(t) ==
  \/ slot[t].uncertain
  \/ slot[t].state \in {"pending", "lease_acquired", "remove_requested",
                        "absent_verification_pending"}

StartRotationRemoval(p) ==
  /\ gate = NoWorker
  /\ preview[p].removal = "none"
  /\ LocalFacts(p)
  /\ \A s \in SlotsOf(p), t \in Slots :
       MemberOf[t] = MemberOf[s] => ~Outstanding(t)
  /\ preview' = [preview EXCEPT ![p] = [@ EXCEPT !.removal = "started"]]
  /\ slot' = [s \in Slots |-> IF PreviewOf[s] = p
                              THEN [NoRow EXCEPT !.state = "pending"]
                              ELSE slot[s]]
  /\ UNCHANGED <<epoch, worker, gate, remote, inflight, rejoins, sent>>

\* Fenced: the running request loses its lease, marker and obligation remain.
SlotStopped(s) ==
  [slot[s] EXCEPT !.state = "stopped", !.lease = "none", !.leaseEpoch = @ + 1]

\* The UPDATE shared by Stop and Revoke.
StoppedSlots(p) ==
  [s \in Slots |->
     IF PreviewOf[s] = p /\ slot[s].state # "stopped" THEN SlotStopped(s)
     ELSE slot[s]]

StopRotationRemoval(p) ==
  /\ gate = NoWorker
  /\ preview[p].removal = "started"
  /\ preview' = [preview EXCEPT ![p] = [@ EXCEPT !.removal = "stopped"]]
  /\ slot' = StoppedSlots(p)
  /\ UNCHANGED <<epoch, worker, gate, remote, inflight, rejoins, sent>>

\* Without a removal there is neither a removals row nor a slot to update.
RevokeExpiryRotation(p) ==
  /\ gate = NoWorker
  /\ preview[p].status = "authorized"
  /\ IF preview[p].removal = "none"
     THEN /\ preview' = [preview EXCEPT ![p] = [@ EXCEPT !.status = "revoked"]]
          /\ slot' = slot
     ELSE /\ preview' = [preview EXCEPT ![p] =
               [@ EXCEPT !.status = "revoked", !.removal = "stopped"]]
          /\ slot' = StoppedSlots(p)
  /\ UNCHANGED <<epoch, worker, gate, remote, inflight, rejoins, sent>>

-----------------------------------------------------------------------------
(* One slot request: runRotationRemovalSlot *)

\* verify turns into observation-only once the authorization is not usable.
ObservationOnly(p) ==
  \/ preview[p].removal = "stopped"
  \/ preview[p].status # "authorized"
  \/ preview[p].expired
  \/ preview[p].frozen # epoch

\* slot_lease_busy and workspace_removal_busy.
LeaseFree(s) == \A t \in Slots : slot[t].lease # "live"

\* A verified slot becomes pending and uncertain again: its renewal may fail.
SlotClaimed(s, readOnly) ==
  [slot[s] EXCEPT
     !.state = IF readOnly THEN "stopped"
               ELSE IF slot[s].requested THEN "absent_verification_pending"
                    ELSE "lease_acquired",
     !.uncertain = slot[s].requested,
     !.lease = "live",
     !.leaseEpoch = @ + 1]

\* lockRemovalGate, claimRemoval and unlockWorkspace.
ClaimRemoval(w, s, verifyOnly) ==
  LET p == PreviewOf[s]
      readOnly == verifyOnly /\ ObservationOnly(p) IN
  /\ worker[w].pc = "idle"
  /\ gate = NoWorker
  /\ slot[s].state # "none"
  /\ readOnly \/ LocalFacts(p)
  /\ readOnly \/ (preview[p].removal # "stopped" /\ slot[s].state # "stopped")
  /\ slot[s].state = "absent_verified" => verifyOnly
  /\ LeaseFree(s)
  /\ verifyOnly => slot[s].requested
  /\ slot[s].leaseEpoch < MaxLease
  /\ slot' = [slot EXCEPT ![s] = SlotClaimed(s, readOnly)]
  /\ worker' = [worker EXCEPT ![w] =
       [Idle EXCEPT !.pc = "preflight", !.slot = s,
                    !.epoch = slot[s].leaseEpoch + 1,
                    !.requested = slot[s].requested,
                    !.readOnly = readOnly, !.gated = TRUE]]
  /\ UNCHANGED <<epoch, preview, gate, remote, inflight, rejoins, sent>>

\* currentRemovalRole, SnapshotWorkspaceMembers and checkRemovalSnapshot before
\* and after the DELETE.  Presence after a marker only leads to a commit.
ObserveRoster(w) ==
  LET s == worker[w].slot
      after == worker[w].requested IN
  /\ worker[w].pc \in {"preflight", "verify"}
  /\ SnapshotAccepted(w, after)
  /\ worker' = [worker EXCEPT ![w] =
       IF after THEN [@ EXCEPT !.pc = "commit",
                               !.absent = MemberOf[s] \notin remote,
                               !.seen = rejoins[MemberOf[s]]]
                ELSE [@ EXCEPT !.pc = "reserve"]]
  /\ UNCHANGED <<epoch, preview, slot, gate, remote, inflight, rejoins, sent>>

\* The role read, the roster read or its check failed, or the deadline passed.
ObservationFails(w) ==
  /\ worker[w].pc \in {"preflight", "verify"}
  /\ worker' = [worker EXCEPT ![w] = [@ EXCEPT !.pc = "failing"]]
  /\ UNCHANGED <<epoch, preview, slot, gate, remote, inflight, rejoins, sent>>

\* lockWorkspace and reserveRemovalRequest: the marker is durable before the
\* DELETE; the workspace lock is kept until the receipt.
ReserveRemovalRequest(w) ==
  LET s == worker[w].slot IN
  /\ worker[w].pc = "reserve"
  /\ worker[w].gated
  /\ gate = NoWorker
  /\ LocalFacts(PreviewOf[s])
  /\ LeaseValid(w)
  /\ ~slot[s].requested
  /\ gate' = w
  /\ slot' = [slot EXCEPT ![s] =
       [@ EXCEPT !.state = "remove_requested", !.requested = TRUE,
                 !.uncertain = TRUE]]
  /\ worker' = [worker EXCEPT ![w] =
       [@ EXCEPT !.pc = "probe", !.requested = TRUE]]
  /\ UNCHANGED <<epoch, preview, remote, inflight, rejoins, sent>>

\* SELECT 1 on the session that holds the locks, under the request's deadline.
ProbeGate(w) ==
  /\ worker[w].pc = "probe"
  /\ \E pc \in {"send", "failing"} :
       /\ pc = "send" => worker[w].gated
       /\ worker' = [worker EXCEPT ![w] = [@ EXCEPT !.pc = pc]]
  /\ UNCHANGED <<epoch, preview, slot, gate, remote, inflight, rejoins, sent>>

\* RemoveWorkspaceMember.
SendDelete(w) ==
  LET s == worker[w].slot IN
  /\ worker[w].pc = "send"
  /\ sent' = [sent EXCEPT ![s] = @ + 1]
  /\ inflight' = inflight \cup {s}
  /\ worker' = [worker EXCEPT ![w] = [@ EXCEPT !.pc = "await"]]
  /\ UNCHANGED <<epoch, preview, slot, gate, remote, rejoins>>

\* No client, an invalid access token or an ended context: nothing was sent.
DeleteNotSent(w) ==
  /\ worker[w].pc = "send"
  /\ worker' = [worker EXCEPT ![w] = [@ EXCEPT !.pc = "receipt"]]
  /\ UNCHANGED <<epoch, preview, slot, gate, remote, inflight, rejoins, sent>>

\* A 2xx, any other status, or a timeout; none of them says what was applied.
DeleteAnswered(w, accepted) ==
  /\ worker[w].pc = "await"
  /\ worker' = [worker EXCEPT ![w] =
       [@ EXCEPT !.pc = "receipt", !.accepted = accepted]]
  /\ UNCHANGED <<epoch, preview, slot, gate, remote, inflight, rejoins, sent>>

\* Mutant: a 2xx receipt is taken for the vacancy itself.
SlotReceiptReleases(w) ==
  LET s == worker[w].slot IN
  IF worker[w].accepted
  THEN [slot[s] EXCEPT !.state = "absent_verified", !.uncertain = FALSE,
          !.lease = "none",
          !.evidence = [absent |-> TRUE, epoch |-> worker[w].epoch,
                        fresh |-> TRUE, seen |-> worker[w].seen]]
  ELSE [slot[s] EXCEPT !.state = "remote_result_uncertain"]

SlotReceipt(w) ==
  [slot[worker[w].slot] EXCEPT
     !.state = IF worker[w].accepted THEN "absent_verification_pending"
               ELSE "remote_result_uncertain"]

\* removalReceipt, then fail(code), or unlockWorkspace and the second read; a
\* lost session makes unlockWorkspace fail and the handler return.
RemovalReceipt(w) ==
  LET s == worker[w].slot IN
  /\ worker[w].pc = "receipt"
  /\ LocalFacts(PreviewOf[s])
  /\ LeaseValid(w)
  /\ slot' = [slot EXCEPT ![s] = SlotReceipt(w)]
  /\ \/ /\ ~worker[w].accepted
        /\ worker' = [worker EXCEPT ![w] = [@ EXCEPT !.pc = "failing"]]
        /\ gate' = gate
     \/ /\ worker[w].accepted /\ worker[w].gated
        /\ worker' = [worker EXCEPT ![w] =
             [@ EXCEPT !.pc = "verify", !.accepted = FALSE]]
        /\ gate' = NoWorker
     \/ /\ worker[w].accepted /\ ~worker[w].gated
        /\ Return(w) /\ gate' = gate
  /\ UNCHANGED <<epoch, preview, remote, inflight, rejoins, sent>>

\* Mutant: the marker is erased with the failed attempt.
SlotFailedUnmarked(w) ==
  [slot[worker[w].slot] EXCEPT !.state = "blocked", !.requested = FALSE,
                               !.uncertain = FALSE, !.lease = "none"]

\* Mutant: a failed observation reopens the stopped slot.
SlotFailedReopened(w) ==
  [slot[worker[w].slot] EXCEPT !.state = "remote_result_uncertain",
                               !.lease = "none"]

\* A failure never erases the marker; an observation keeps the slot stopped.
SlotFailed(w) ==
  [slot[worker[w].slot] EXCEPT
     !.state = IF worker[w].readOnly THEN @
               ELSE IF slot[worker[w].slot].requested
                    THEN "remote_result_uncertain" ELSE "blocked",
     !.lease = "none"]

\* Mutant: the failure is recorded without comparing the lease.
FinishFailureUncompared(w) ==
  /\ worker[w].pc = "failing"
  /\ slot' = [slot EXCEPT ![worker[w].slot] = SlotFailed(w)]
  /\ Return(w) /\ ReleaseGate(w)
  /\ UNCHANGED <<epoch, preview, remote, inflight, rejoins, sent>>

\* finishRemovalFailure: a compare-and-set on the lease; a stale request changes
\* nothing.
FinishRemovalFailure(w) ==
  /\ worker[w].pc = "failing"
  /\ slot' = IF LeaseValid(w)
             THEN [slot EXCEPT ![worker[w].slot] = SlotFailed(w)]
             ELSE slot
  /\ Return(w) /\ ReleaseGate(w)
  /\ UNCHANGED <<epoch, preview, remote, inflight, rejoins, sent>>

\* lockWorkspace and commitRemovalEvidence: evidence and slot in one transaction.
\* The roster may be older than the view's thirty seconds when it is committed.
CommitRemovalEvidence(w) ==
  LET s == worker[w].slot
      vacant == worker[w].absent /\ ~worker[w].readOnly IN
  /\ worker[w].pc = "commit"
  /\ worker[w].gated
  /\ gate = NoWorker
  /\ FactsFor(w)
  /\ LeaseValid(w)
  /\ \E fresh \in BOOLEAN :
       slot' = [slot EXCEPT ![s] =
         [@ EXCEPT !.state = IF worker[w].readOnly THEN "stopped"
                             ELSE IF vacant THEN "absent_verified"
                                  ELSE "remote_result_uncertain",
                   !.uncertain = ~vacant,
                   !.lease = "none",
                   !.evidence = [absent |-> worker[w].absent,
                                 epoch |-> worker[w].epoch,
                                 fresh |-> fresh,
                                 seen |-> worker[w].seen]]]
  /\ Return(w)
  /\ UNCHANGED <<epoch, preview, gate, remote, inflight, rejoins, sent>>

\* An error return or a crash of the process, at any point of a request.
Abandon(w) ==
  /\ worker[w].pc # "idle"
  /\ Return(w) /\ ReleaseGate(w)
  /\ UNCHANGED <<epoch, preview, slot, remote, inflight, rejoins, sent>>

\* The database session of the gate dies: its advisory locks are gone while the
\* request goes on with other connections of the pool.
GateLost(w) ==
  /\ worker[w].pc # "idle" /\ worker[w].gated
  /\ worker' = [worker EXCEPT ![w] = [@ EXCEPT !.gated = FALSE]]
  /\ ReleaseGate(w)
  /\ UNCHANGED <<epoch, preview, slot, remote, inflight, rejoins, sent>>

-----------------------------------------------------------------------------
(* Writers of source facts, clocks, and the platform *)

\* Mutant: a covered writer commits without the exclusive action lock.
ActionLocksIgnored == TRUE

\* No request holds the shared action locks it took before its claim.
ActionLocksFree == \A w \in Workers : ~worker[w].gated

\* tsw_rotation_epoch_advance, called by every trigger on a covered fact.
EpochAdvance ==
  /\ epoch < MaxEpoch
  /\ ActionLocksFree
  /\ epoch' = epoch + 1
  /\ UNCHANGED <<preview, slot, worker, gate, remote, inflight, rejoins, sent>>

\* Logout, password change or revocation, behind tsw_rotation_session_gate.
SessionRevoked(p) ==
  /\ preview[p].session
  /\ ActionLocksFree
  /\ preview' = [preview EXCEPT ![p] = [@ EXCEPT !.session = FALSE]]
  /\ UNCHANGED <<epoch, slot, worker, gate, remote, inflight, rejoins, sent>>

Dispatching(w) == worker[w].pc \in {"probe", "send"}

\* The dispatch context ends one second before the lease, hence before the
\* authorization and the session do: by then the DELETE was sent or given up.
DeadlinePassed(s) ==
  \A w \in Workers :
    Dispatching(w) /\ worker[w].slot = s => worker[w].epoch # slot[s].leaseEpoch

DeadlinesPassed(p) ==
  \A w \in Workers : Dispatching(w) => PreviewOf[worker[w].slot] # p

\* A writing lease ends no later than the authorization and the sessions
\* (LEAST(...) in claimRemoval); an observation lease is not bounded by them.
ExpireLeases(p) ==
  [s \in Slots |->
     IF PreviewOf[s] = p /\ slot[s].lease = "live" /\ slot[s].state # "stopped"
     THEN [slot[s] EXCEPT !.lease = "expired"]
     ELSE slot[s]]

PreviewExpires(p) ==
  /\ ~preview[p].expired
  /\ DeadlinesPassed(p)
  /\ preview' = [preview EXCEPT ![p] = [@ EXCEPT !.expired = TRUE]]
  /\ slot' = ExpireLeases(p)
  /\ UNCHANGED <<epoch, worker, gate, remote, inflight, rejoins, sent>>

SessionExpires(p) ==
  /\ preview[p].session
  /\ DeadlinesPassed(p)
  /\ preview' = [preview EXCEPT ![p] = [@ EXCEPT !.session = FALSE]]
  /\ slot' = ExpireLeases(p)
  /\ UNCHANGED <<epoch, worker, gate, remote, inflight, rejoins, sent>>

LeaseExpires(s) ==
  /\ slot[s].lease = "live"
  /\ DeadlinePassed(s)
  /\ slot' = [slot EXCEPT ![s] = [@ EXCEPT !.lease = "expired"]]
  /\ UNCHANGED <<epoch, preview, worker, gate, remote, inflight, rejoins, sent>>

\* Thirty seconds since the roster was observed.
EvidenceAges(s) ==
  /\ slot[s].evidence.fresh
  /\ slot' = [slot EXCEPT ![s].evidence.fresh = FALSE]
  /\ UNCHANGED <<epoch, preview, worker, gate, remote, inflight, rejoins, sent>>

\* The platform handles a DELETE now, much later, or never.
DeleteApplied(s) ==
  /\ s \in inflight
  /\ inflight' = inflight \ {s}
  /\ remote' = remote \ {MemberOf[s]}
  /\ UNCHANGED <<epoch, preview, slot, worker, gate, rejoins, sent>>

DeleteDropped(s) ==
  /\ s \in inflight
  /\ inflight' = inflight \ {s}
  /\ UNCHANGED <<epoch, preview, slot, worker, gate, remote, rejoins, sent>>

MemberLeaves(m) ==
  /\ m \in remote
  /\ remote' = remote \ {m}
  /\ UNCHANGED <<epoch, preview, slot, worker, gate, inflight, rejoins, sent>>

MemberRejoins(m) ==
  /\ m \notin remote
  /\ rejoins[m] < MaxRejoins
  /\ remote' = remote \cup {m}
  /\ rejoins' = [rejoins EXCEPT ![m] = @ + 1]
  /\ UNCHANGED <<epoch, preview, slot, worker, gate, inflight, sent>>

-----------------------------------------------------------------------------

OwnerStep(p) ==
  \/ ConfirmExpiryRotation(p)
  \/ StartRotationRemoval(p)
  \/ StopRotationRemoval(p)
  \/ RevokeExpiryRotation(p)

RequestStep(w) ==
  \/ \E s \in Slots, verifyOnly \in BOOLEAN : ClaimRemoval(w, s, verifyOnly)
  \/ ObserveRoster(w)
  \/ ObservationFails(w)
  \/ ReserveRemovalRequest(w)
  \/ ProbeGate(w)
  \/ SendDelete(w)
  \/ DeleteNotSent(w)
  \/ \E accepted \in BOOLEAN : DeleteAnswered(w, accepted)
  \/ RemovalReceipt(w)
  \/ FinishRemovalFailure(w)
  \/ CommitRemovalEvidence(w)
  \/ Abandon(w)
  \/ GateLost(w)

ClockStep(p) ==
  \/ PreviewExpires(p)
  \/ SessionExpires(p)
  \/ SessionRevoked(p)

SlotStep(s) ==
  \/ LeaseExpires(s)
  \/ EvidenceAges(s)
  \/ DeleteApplied(s)
  \/ DeleteDropped(s)

Next ==
  \/ \E p \in Previews : OwnerStep(p) \/ ClockStep(p)
  \/ \E w \in Workers : RequestStep(w)
  \/ \E s \in Slots : SlotStep(s)
  \/ \E m \in Churners : MemberLeaves(m) \/ MemberRejoins(m)
  \/ EpochAdvance

Spec == Init /\ [][Next]_vars

-----------------------------------------------------------------------------
(* Properties *)

\* However often a slot is run again - after a crash, a lost response, a failed
\* attempt or a lease takeover - at most one DELETE is ever sent for it, and
\* only after its marker is durable ("only verify the original request").
OneDeletePerSlot ==
  \A s \in Slots : sent[s] <= 1 /\ (sent[s] = 1 => slot[s].requested)

\* The same of the whole life of a slot, as OnceOnlyEffect states it: starting the
\* removal reserves its DELETE, which is marked once and sent once at most, and no
\* failure, stop or later claim takes the marker back.
DeleteEffect(s) == INSTANCE OnceOnlyEffect WITH
  reserved <- preview[PreviewOf[s]].removal # "none",
  marks <- IF slot[s].requested THEN 1 ELSE 0,
  sent <- sent[s]
DeletesOnce ==
  /\ \A s \in Slots : DeleteEffect(s)!Init
  /\ [][\A s \in Slots : [DeleteEffect(s)!Next]_(DeleteEffect(s)!vars)]_vars

\* A marker without committed absence evidence remains an uncertain obligation:
\* no failure, stop, revocation or observation erases it.
ObligationKept ==
  \A s \in Slots :
    slot[s].requested /\ ~slot[s].uncertain => slot[s].evidence.absent

\* Two unexpired removal leases never coexist in the Workspace.
OneActiveLease ==
  \A s, t \in Slots :
    slot[s].lease = "live" /\ slot[t].lease = "live" => s = t

\* Once a removal is stopped or revoked all its slots are stopped, whatever the
\* requests that were in flight still commit.
StopFences ==
  \A s \in Slots :
    preview[PreviewOf[s]].removal = "stopped" => slot[s].state = "stopped"

\* A slot shown as released belongs to a member that is not in the Workspace,
\* unless the member came back after the roster was read.
ReleasedIsVacant ==
  \A s \in Slots :
    Released(s) => \/ MemberOf[s] \notin remote
                   \/ rejoins[MemberOf[s]] > slot[s].evidence.seen

\* As long as the session holding its locks lives, a request sends the DELETE
\* with everything it checked still true: it holds the workspace lock, its lease
\* is the current unexpired one, the removal is not stopped and no covered writer,
\* logout or revocation got in after the marker.
DispatchGuarded ==
  \A w \in Workers :
    LET s == worker[w].slot IN
    Dispatching(w) /\ worker[w].gated =>
      /\ gate = w
      /\ slot[s].state = "remove_requested"
      /\ slot[s].lease = "live" /\ slot[s].leaseEpoch = worker[w].epoch
      /\ preview[PreviewOf[s]].removal = "started"
      /\ LocalFacts(PreviewOf[s])

\* An obligation is only closed under a live lease of the current epoch and a
\* valid authorization, together with absence evidence of that same lease: an
\* expired or superseded request cannot close it.
ClosedUnderFence ==
  [][\A s \in Slots :
       slot[s].uncertain /\ ~slot'[s].uncertain =>
         /\ slot[s].lease = "live"
         /\ LocalFacts(PreviewOf[s])
         /\ slot'[s].evidence.absent
         /\ slot'[s].evidence.epoch = slot[s].leaseEpoch]_vars

\* The trigger tsw_rotation_removal_immutable never has to refuse an update: no
\* handler moves a fence back, drops a marker, restarts a stopped slot, renews a
\* verified one without a read lease, or calls a slot verified without evidence
\* of its current lease under an authorization that is still in force.
TriggerNeverRaises ==
  [][\A s \in Slots :
       LET old == slot[s]
           new == slot'[s]
           p == PreviewOf[s] IN
       old.state # "none" /\ old # new =>
         /\ new.leaseEpoch >= old.leaseEpoch
         /\ old.requested => new.requested
         /\ old.state = "stopped" => new.state = "stopped"
         /\ old.state = "absent_verified" =>
              \/ new.state \in {"absent_verified", "stopped"}
              \/ /\ new.state = "absent_verification_pending"
                 /\ new.leaseEpoch = old.leaseEpoch + 1
                 /\ new.lease = "live" /\ new.uncertain
         /\ new.state = "absent_verified" =>
              /\ new.evidence.absent
              /\ new.evidence.epoch = new.leaseEpoch
              /\ old.state # "absent_verified" =>
                   /\ preview[p].status = "authorized" /\ ~preview[p].expired
                   /\ preview[p].removal = "started"]_vars

\* A member whose removal was requested and not proven is never asked for again
\* through another slot ("Presence does not authorize a second DELETE, even under
\* another key or renewed lease").  Does not hold: see the README.
OneObligationPerMember ==
  \A s, t \in Slots :
    slot[s].uncertain /\ slot[t].uncertain /\ MemberOf[s] = MemberOf[t] => s = t

=============================================================================
