----------------------------- MODULE RotationJoin -----------------------------
(***************************************************************************)
(* The join of one candidate into the seat of a released rotation slot:    *)
(* run, verify, save and repair of rotation_join_http.go over the journals *)
(* of migrations 00030 to 00034.                                           *)
(*                                                                         *)
(* Requests of the Owner run concurrently, each with a physical database   *)
(* session that holds the shared action locks of the sources and, outside  *)
(* its reads, the lock of the Workspace.  A request may end or die between *)
(* any two steps; its execution or credential lease then stays until it    *)
(* expires.  Each transaction is one step.                                 *)
(***************************************************************************)
EXTENDS Naturals

CONSTANTS
  Requests,       \* concurrent action requests
  NoRequest,      \* nobody holds the Workspace
  MaxEpoch,       \* bound on the claims of each lease
  MaxGeneration   \* bound on the Personal sessions of the candidate

ASSUME BoundsAssumption == MaxEpoch \in Nat /\ MaxGeneration \in Nat \ {0}
ASSUME RequestAssumption == NoRequest \notin Requests

Stages == {"request_join", "accept_join"}
Kinds == {"web", "oauth"}

\* Why the slot is no longer released: the absence evidence or the authorizing
\* session ran out, the Owner stopped the removal, a frozen source changed (or
\* the authorization was revoked), the authorizing session was revoked.
Reasons == {"age", "stop", "source"}

VARIABLES
  lost,       \* what the authorization has lost
  personal,   \* generation of the candidate's Personal session
  exec,       \* tsw_rotation_join_executions
  binding,    \* generation in tsw_rotation_join_personal_bindings, 0 before
  evidence,   \* result of the latest tsw_rotation_join_membership_evidence
  cred,       \* tsw_rotation_join_credential_* rows of the one attempt
  request,    \* requests in progress
  gate,       \* request that holds the Workspace lock
  candidate,  \* the candidate on the platform
  inflight,   \* POSTs the platform has not handled yet
  posts,      \* history: POSTs sent, by stage
  grants      \* history: exchanges and logins sent, by kind

journals == <<exec, binding, evidence>>
platform == <<candidate, inflight>>
history == <<posts, grants>>
vars == <<lost, personal, journals, cred, request, gate, platform, history>>

-----------------------------------------------------------------------------
(* Rows *)

States == {"none", "intent", "ready", "request_started", "request_succeeded",
           "accept_started", "reconcile_required"}

\* "intent" is an intent without an execution.  The two may_have_reached
\* columns are the counts compared with zero (CHECK of migration 00031).
ExecRow == [state : States, epoch : 0..MaxEpoch,
            leased : BOOLEAN, count : [Stages -> Nat]]

Results == {"none", "confirmed", "absent", "invalid", "unknown"}

\* doubted: an observation after the claim did not confirm the candidate.
CredRow == [row : BOOLEAN, epoch : 0..MaxEpoch,
            leased : BOOLEAN, started : SUBSET Kinds,
            review : SUBSET Kinds, saved : SUBSET Kinds, doubted : BOOLEAN,
            published : BOOLEAN]

\* gated: the physical session, and with it the action locks, is alive.
Request == [pc : {"idle", "reserve", "claim", "gate", "admit", "mark", "check",
                  "send", "await", "finish", "observe", "read", "relock",
                  "persist", "lease", "proof", "prove", "decide", "start",
                  "grant", "post", "granted", "publish"},
            act : {"run", "verify", "save", "repair"},
            stage : Stages, kind : Kinds \cup {"none", "both"}, epoch : 0..MaxEpoch,
            pinned : 0..MaxGeneration,
            outcome : Results \cup {"succeeded", "failed", "uncertain"},
            gated : BOOLEAN]
Idle == [pc |-> "idle", act |-> "run", stage |-> "request_join", kind |-> "none",
         epoch |-> 0, pinned |-> 0, outcome |-> "none", gated |-> FALSE]

\* Every row holds a value its CHECK constraints allow.
TypeOK ==
  /\ lost \subseteq Reasons
  /\ personal \in 1..MaxGeneration
  /\ exec \in ExecRow
  /\ binding \in 0..MaxGeneration
  /\ evidence \in Results
  /\ cred \in CredRow
  /\ request \in [Requests -> Request]
  /\ gate \in Requests \cup {NoRequest}
  /\ candidate \in {"invited", "requested", "member", "gone"}
  /\ inflight \subseteq Stages
  /\ posts \in [Stages -> Nat]
  /\ grants \in [Kinds -> Nat]

Init ==
  /\ lost = {}
  /\ personal = 1
  /\ exec = [state |-> "none", epoch |-> 0, leased |-> FALSE,
             count |-> [s \in Stages |-> 0]]
  /\ binding = 0
  /\ evidence = "none"
  /\ cred = [row |-> FALSE, epoch |-> 0, leased |-> FALSE, started |-> {},
             review |-> {}, saved |-> {}, doubted |-> FALSE, published |-> FALSE]
  /\ request = [r \in Requests |-> Idle]
  /\ gate = NoRequest
  /\ candidate = "invited"
  /\ inflight = {}
  /\ posts = [s \in Stages |-> 0]
  /\ grants = [k \in Kinds |-> 0]
-----------------------------------------------------------------------------
(* Conditions and updates shared by the handlers *)

\* joinAdmissionLocal and the write guards: the slot is still released under
\* the original authorization and the candidate unchanged and unused.
Admitted == lost = {}

\* The Personal session is the one the request stage was sent with.
Bound == binding = personal

ReconcileOnly == exec.state = "reconcile_required" \/ exec.count["request_join"] > 0

\* joinExecutionCAS: the claim names the epoch and its lease is valid.  An
\* Owner session that ends by its clock only ends the request (Abandon).
Holds(r) ==
  /\ exec.epoch = request[r].epoch
  /\ exec.leased

\* tsw_rotation_join_credential_authority.
CredentialAuthority ==
  /\ exec.state = "reconcile_required"
  /\ evidence = "confirmed"
  /\ Bound
  /\ Admitted

\* credentialCAS.
HoldsCredentials(r) ==
  /\ cred.epoch = request[r].epoch
  /\ cred.leased
  /\ CredentialAuthority

At(r, pc) == request[r].pc = pc

\* checkJoinDispatchGate: the physical session lives and holds the Workspace.
Gated(r) == request[r].gated /\ gate = r

\* checkJoinReadGate: the session lives; the Workspace may be free for a stop.
ReadGated(r) == request[r].gated

\* lockWorkspace, for a session that may hold it already.
Lockable(r) == request[r].gated /\ gate \in {r, NoRequest}

ActionLocksFree == \A r \in Requests : ~request[r].gated

Update(r, row) == request' = [request EXCEPT ![r] = row]
GoTo(r, pc) == Update(r, [request[r] EXCEPT !.pc = pc])

\* gate.close.
Leave(r) == gate' = IF gate = r THEN NoRequest ELSE gate
Return(r) == Update(r, Idle) /\ Leave(r)

\* The deferred release of saveRotationJoinCredentials, for the exact live lease.
ReleasedBy(r, row) ==
  IF /\ request[r].act \in {"save", "repair"}
     /\ request[r].gated
     /\ row.epoch = request[r].epoch
     /\ row.leased
  THEN [row EXCEPT !.leased = FALSE] ELSE row

\* local of saveRotationJoinCredentials: what each of its transactions requires.
Local(r) == Lockable(r) /\ HoldsCredentials(r) /\ request[r].pinned = personal

Claimed(row) == [row EXCEPT !.epoch = @ + 1, !.leased = TRUE]

\* rotationJoinStatus: what the projection shows of the credentials.
CredentialsMissing == cred.started = {} /\ cred.saved = {}

-----------------------------------------------------------------------------
(* joinAction: duplicates only observe *)

JoinAction(r, act) ==
  /\ At(r, "idle")
  /\ ~cred.published
  /\ act = "run" => exec.state \in {"none", "intent", "ready"}
  /\ act = "save" => CredentialsMissing
  /\ Update(r, [Idle EXCEPT !.act = act, !.pc =
       CASE act = "run" -> "reserve" [] act = "verify" -> "claim" [] OTHER -> "gate"])
  /\ UNCHANGED <<lost, personal, journals, cred, gate, platform, history>>

\* An existing intent is returned as it is; a new one needs the whole admission
\* under the removal gate, which is left again before the claim.
ReserveRotationJoinIntent(r) ==
  /\ At(r, "reserve")
  /\ \/ /\ exec.state # "none"
        /\ UNCHANGED exec
     \/ /\ exec.state = "none"
        /\ gate = NoRequest
        /\ Admitted
        /\ exec' = [exec EXCEPT !.state = "intent"]
  /\ GoTo(r, "claim")
  /\ UNCHANGED <<lost, personal, binding, evidence, cred, gate, platform, history>>

\* Mutant: a marked execution is made ready again when its lease is taken over.
OptimisticClaim(r) ==
  /\ At(r, "claim")
  /\ exec.state # "none"
  /\ ~exec.leased
  /\ exec.epoch < MaxEpoch
  /\ exec' = [Claimed(exec) EXCEPT !.state = "ready"]
  /\ Update(r, [request[r] EXCEPT !.pc = "gate", !.epoch = exec.epoch + 1])
  /\ UNCHANGED <<lost, personal, binding, evidence, cred, gate, platform, history>>

\* claimRotationJoinExecution.  A run that finds a marked execution returns and
\* leaves its new lease to expire.
ClaimRotationJoinExecution(r) ==
  /\ At(r, "claim")
  /\ exec.state # "none"
  /\ ~exec.leased
  /\ exec.epoch < MaxEpoch
  /\ request[r].act = "verify" => ReconcileOnly
  /\ exec' = [Claimed(exec) EXCEPT !.state = IF ReconcileOnly THEN "reconcile_required"
                                             ELSE "ready"]
  /\ Update(r, IF request[r].act = "run" /\ ReconcileOnly THEN Idle
               ELSE [request[r] EXCEPT !.pc = "gate", !.epoch = exec.epoch + 1])
  /\ UNCHANGED <<lost, personal, binding, evidence, cred, gate, platform, history>>

\* lockRemovalGate: shared action locks, then the Workspace.
LockRemovalGate(r) ==
  /\ At(r, "gate")
  /\ gate = NoRequest
  /\ gate' = r
  /\ Update(r, [request[r] EXCEPT !.gated = TRUE, !.pc =
       CASE request[r].act = "run" -> "admit" [] request[r].act = "verify" -> "observe"
         [] OTHER -> "lease"])
  /\ UNCHANGED <<lost, personal, journals, cred, platform, history>>
-----------------------------------------------------------------------------
(* dispatchRotationCandidateJoin: both POSTs under the Workspace lock *)

\* joinAdmissionLocal and joinRemoteAdmission, before each stage: the second
\* one needs the Personal session of the first.
Admit(r) ==
  /\ At(r, "admit")
  /\ Gated(r)
  /\ Admitted
  /\ request[r].stage = "accept_join" => request[r].pinned = personal
  /\ candidate \in {"invited", "requested"}
  /\ Update(r, [request[r] EXCEPT !.pc = "mark", !.pinned = personal])
  /\ UNCHANGED <<lost, personal, journals, cred, gate, platform, history>>

Started(stage) == IF stage = "request_join" THEN "request_started" ELSE "accept_started"

Marked(row, stage) ==
  [row EXCEPT !.state = Started(stage), !.count[stage] = row.count[stage] + 1]

\* The transaction that marks the stage: admission, lease, state, and for the
\* accept stage the binding that the request stage appended.
MarkStage(r) ==
  LET stage == request[r].stage IN
  /\ At(r, "mark")
  /\ Gated(r)
  /\ Admitted
  /\ request[r].pinned = personal
  /\ Holds(r)
  /\ exec.state = IF stage = "request_join" THEN "ready" ELSE "request_succeeded"
  /\ stage = "accept_join" => Bound
  /\ exec' = Marked(exec, stage)
  /\ binding' = IF stage = "request_join" THEN request[r].pinned ELSE binding
  /\ GoTo(r, "check")
  /\ UNCHANGED <<lost, personal, evidence, cred, gate, platform, history>>

\* The last look, on the connection that holds the locks.
CheckDispatch(r) ==
  /\ At(r, "check")
  /\ Gated(r)
  /\ Holds(r)
  /\ Admitted
  /\ exec.state = Started(request[r].stage)
  /\ GoTo(r, "send")
  /\ UNCHANGED <<lost, personal, journals, cred, gate, platform, history>>

\* RequestCandidateJoin and AcceptCandidateJoin.
SendJoin(r) ==
  /\ At(r, "send")
  /\ posts' = [posts EXCEPT ![request[r].stage] = @ + 1]
  /\ inflight' = inflight \cup {request[r].stage}
  /\ GoTo(r, "await")
  /\ UNCHANGED <<lost, personal, journals, cred, gate, candidate, grants>>

JoinNotSent(r) ==
  /\ At(r, "send")
  /\ Update(r, [request[r] EXCEPT !.pc = "finish", !.outcome = "uncertain"])
  /\ UNCHANGED <<lost, personal, journals, cred, gate, platform, history>>

\* joinDispatchOutcome: the answer says nothing of what the platform did.
JoinAnswered(r) ==
  /\ At(r, "await")
  /\ \E outcome \in {"succeeded", "failed", "uncertain"} :
       Update(r, [request[r] EXCEPT !.pc = "finish", !.outcome = outcome])
  /\ UNCHANGED <<lost, personal, journals, cred, gate, platform, history>>

\* finishRotationJoinStageOn: an accepted request goes on to the accept stage
\* under the same lease; everything else is left to reconciliation.
FinishStage(r) ==
  LET stage == request[r].stage
      goesOn == stage = "request_join" /\ request[r].outcome = "succeeded" IN
  /\ At(r, "finish")
  /\ ReadGated(r)
  /\ Holds(r)
  /\ exec.state = Started(stage)
  /\ IF goesOn
     THEN /\ exec' = [exec EXCEPT !.state = "request_succeeded"]
          /\ Update(r, [request[r] EXCEPT !.pc = "admit", !.stage = "accept_join",
                                         !.outcome = "none"])
          /\ UNCHANGED gate
     ELSE /\ exec' = [exec EXCEPT !.state = "reconcile_required", !.leased = FALSE]
          /\ Return(r)
  /\ UNCHANGED <<lost, personal, binding, evidence, cred, platform, history>>

-----------------------------------------------------------------------------
(* reconcileRotationJoinMembership: one observation, no POST *)

\* A changed admission is recorded as "unknown"; otherwise the Workspace is
\* left for the time of the reads.
ObserveAdmission(r) ==
  /\ At(r, "observe")
  /\ Gated(r)
  /\ IF Admitted /\ Bound
     THEN /\ Update(r, [request[r] EXCEPT !.pc = "read", !.pinned = personal])
          /\ gate' = NoRequest
     ELSE /\ Update(r, [request[r] EXCEPT !.pc = "persist", !.outcome = "unknown"])
          /\ UNCHANGED gate
  /\ UNCHANGED <<lost, personal, journals, cred, platform, history>>

\* classifyRotationMembership; an unusable identity or roster is "unknown".
Classified ==
  {"unknown"} \cup {CASE candidate = "member" -> "confirmed"
                      [] candidate = "gone" -> "absent"
                      [] OTHER -> "invalid"}

ReadMembership(r) ==
  /\ At(r, "read")
  /\ ReadGated(r)
  /\ \E result \in Classified :
       Update(r, [request[r] EXCEPT !.pc = "relock", !.outcome = result])
  /\ UNCHANGED <<lost, personal, journals, cred, gate, platform, history>>

Relock(r) ==
  /\ At(r, "relock")
  /\ Lockable(r)
  /\ gate' = r
  /\ GoTo(r, "persist")
  /\ UNCHANGED <<lost, personal, journals, cred, platform, history>>

\* tsw_rotation_join_membership_evidence_guard: the lease of the reconciliation.
EvidenceAdmitted(r) == Holds(r) /\ exec.state = "reconcile_required"

\* persistRotationJoinMembershipEvidence: what was read under an admission that
\* moved meanwhile is recorded as "unknown".
PersistEvidence(r) ==
  LET result == IF Admitted /\ Bound /\ request[r].pinned = personal
                THEN request[r].outcome ELSE "unknown" IN
  /\ At(r, "persist")
  /\ Gated(r)
  /\ EvidenceAdmitted(r)
  /\ evidence' = result
  /\ cred' = [cred EXCEPT !.doubted = @ \/ (cred.row /\ result # "confirmed")]
  /\ exec' = [exec EXCEPT !.leased = FALSE]
  /\ Return(r)
  /\ UNCHANGED <<lost, personal, binding, platform, history>>

-----------------------------------------------------------------------------
(* saveRotationJoinCredentials: "web" first, then "oauth", then publication *)

\* tsw_rotation_join_credential_attempt_guard: a lease follows one that is over,
\* under the original authority.
CredentialClaimable == ~cred.leased /\ CredentialAuthority

\* claimJoinCredentialAttempt: save makes the one attempt of the slot, repair
\* goes on with it under a new lease.
ClaimCredentials(r) ==
  /\ At(r, "lease")
  /\ Gated(r)
  /\ CredentialClaimable
  /\ cred.row => request[r].act = "repair"
  /\ cred.epoch < MaxEpoch
  /\ cred' = [Claimed(cred) EXCEPT !.row = TRUE]
  /\ Update(r, [request[r] EXCEPT !.pc = "proof", !.epoch = cred.epoch + 1,
                                 !.pinned = personal])
  /\ UNCHANGED <<lost, personal, journals, gate, platform, history>>

\* remoteProof: role, identity and membership are read with the Workspace free.
RemoteProof(r) ==
  /\ At(r, "proof")
  /\ ReadGated(r)
  /\ candidate = "member"
  /\ Leave(r)
  /\ GoTo(r, "prove")
  /\ UNCHANGED <<lost, personal, journals, cred, platform, history>>

Prove(r) ==
  /\ At(r, "prove")
  /\ Local(r)
  /\ gate' = r
  /\ GoTo(r, CASE request[r].kind = "none" -> "decide"
               [] request[r].kind = "both" -> "publish"
               [] OTHER -> "start")
  /\ UNCHANGED <<lost, personal, journals, cred, platform, history>>

Unsaved == Kinds \ cred.saved

NextKind == IF "web" \in Unsaved THEN "web" ELSE "oauth"

\* review: recorded if the request still has its authority, and the request ends.
Review(r, kind) ==
  /\ cred' = ReleasedBy(r, IF Local(r) THEN [cred EXCEPT !.review = @ \cup {kind}] ELSE cred)
  /\ Return(r)

\* validateSavedJoinCredentials: a component already saved may have run out.
SavedUnusable(r) == \E kind \in cred.saved : Review(r, kind)

\* A grant marked earlier without a component may have reached the platform.
Decide(r) ==
  /\ At(r, "decide")
  /\ ReadGated(r)
  /\ UNCHANGED <<lost, personal, journals, platform, history>>
  /\ \/ /\ cred.published
        /\ cred' = ReleasedBy(r, cred)
        /\ Return(r)
     \/ /\ ~cred.published
        /\ SavedUnusable(r)
     \/ /\ ~cred.published
        /\ Unsaved # {}
        /\ NextKind \in cred.started
        /\ Review(r, NextKind)
     \/ /\ ~cred.published
        /\ Unsaved = {} \/ NextKind \notin cred.started
        /\ Update(r, [request[r] EXCEPT !.pc = "proof", !.kind =
             IF Unsaved = {} THEN "both" ELSE NextKind])
        /\ UNCHANGED <<cred, gate>>

\* The guard of the events: "oauth" after a saved "web", nothing once published.
\* UNIQUE(attempt_id, stage, event).
StageOrdered(kind) ==
  /\ kind \notin cred.started
  /\ ~cred.published
  /\ kind = "oauth" => "web" \in cred.saved

\* appendCredentialEvent "started", in a transaction of its own before the grant.
StartGrant(r) ==
  LET kind == request[r].kind IN
  /\ At(r, "start")
  /\ Local(r)
  /\ StageOrdered(kind)
  /\ cred' = [cred EXCEPT !.started = @ \cup {kind}]
  /\ gate' = r
  /\ GoTo(r, "grant")
  /\ UNCHANGED <<lost, personal, journals, platform, history>>

\* joinCredentialTransport.before of a read-only request of the adapter.
GrantReads(r) ==
  /\ At(r, "grant")
  /\ ReadGated(r)
  /\ HoldsCredentials(r)
  /\ Leave(r)
  /\ gate' # gate
  /\ UNCHANGED <<lost, personal, journals, cred, request, platform, history>>

\* Mutant: the request is admitted without the Workspace.
AdmissionUnlocked(r) ==
  /\ At(r, "grant")
  /\ Local(r)
  /\ GoTo(r, "post")
  /\ UNCHANGED <<lost, personal, journals, cred, gate, platform, history>>

\* actionAdmission, before each request of the adapter that has an effect.
ActionAdmission(r) ==
  /\ At(r, "grant")
  /\ Local(r)
  /\ gate' = r
  /\ GoTo(r, "post")
  /\ UNCHANGED <<lost, personal, journals, cred, platform, history>>

\* ExchangeCandidateWorkspace or CreateCandidateOAuth.
SendGrant(r) ==
  /\ At(r, "post")
  /\ grants' = [grants EXCEPT ![request[r].kind] = @ + 1]
  /\ GoTo(r, "granted")
  /\ UNCHANGED <<lost, personal, journals, cred, gate, platform, posts>>

\* The guard of the components: the answer of a marked grant not yet in review.
ComponentExpected(kind) == kind \in cred.started \ (cred.review \cup cred.saved)

\* appendCredentialComponent.
WithComponent(kind) == [cred EXCEPT !.saved = @ \cup {kind}]

\* The answer is in hand.
SaveComponent(r) ==
  LET kind == request[r].kind IN
  /\ At(r, "granted")
  /\ Local(r)
  /\ ComponentExpected(kind)
  /\ cred' = WithComponent(kind)
  /\ gate' = r
  /\ Update(r, [request[r] EXCEPT !.pc = "decide", !.kind = "none"])
  /\ UNCHANGED <<lost, personal, journals, platform, history>>

\* The grant failed or its answer is unusable.
ReviewGrant(r) ==
  /\ request[r].pc \in {"grant", "granted"}
  /\ Review(r, request[r].kind)
  /\ UNCHANGED <<lost, personal, journals, platform, history>>

\* Mutant: an old marker for review does not stop the publication.
ReviewIgnored == cred.saved = Kinds /\ ~cred.doubted

\* The guard of the generations table.
ComponentsComplete == cred.saved = Kinds /\ cred.review = {} /\ ~cred.doubted

\* publishJoinCredentials.
Publish(r) ==
  /\ At(r, "publish")
  /\ Local(r)
  /\ ComponentsComplete
  /\ ~cred.published
  /\ cred' = ReleasedBy(r, [cred EXCEPT !.published = TRUE])
  /\ Return(r)
  /\ UNCHANGED <<lost, personal, journals, platform, history>>

-----------------------------------------------------------------------------
(* Failures, clocks, the Owner and the platform *)

\* A request ends early: an error, its deadline or a crash.  The cleanup of the
\* credential lease may not be reached.
Abandon(r) ==
  /\ ~At(r, "idle")
  /\ cred' \in {cred, ReleasedBy(r, cred)}
  /\ Return(r)
  /\ UNCHANGED <<lost, personal, journals, platform, history>>

\* The physical session ends and its advisory locks with it.
GateLost(r) ==
  /\ request[r].gated
  /\ Update(r, [request[r] EXCEPT !.gated = FALSE])
  /\ Leave(r)
  /\ UNCHANGED <<lost, personal, journals, cred, platform, history>>

LeaseExpires ==
  \/ /\ exec.leased
     /\ exec' = [exec EXCEPT !.leased = FALSE]
     /\ UNCHANGED <<lost, personal, binding, evidence, cred, request, gate, platform, history>>
  \/ /\ cred.leased
     /\ cred' = [cred EXCEPT !.leased = FALSE]
     /\ UNCHANGED <<lost, personal, journals, request, gate, platform, history>>

AuthorizationAges ==
  /\ lost' = lost \cup {"age"}
  /\ UNCHANGED <<personal, journals, cred, request, gate, platform, history>>

\* Stop and Revoke lock the Workspace.
StopRemoval ==
  /\ gate = NoRequest
  /\ lost' = lost \cup {"stop"}
  /\ UNCHANGED <<personal, journals, cred, request, gate, platform, history>>

\* tsw_rotation_epoch_advance and tsw_rotation_session_gate: a covered source
\* changes, or the sessions of the Owner are revoked, under the action locks.
SourceChanges ==
  /\ ActionLocksFree
  /\ lost' = lost \cup {"source"}
  /\ UNCHANGED <<personal, journals, cred, request, gate, platform, history>>

\* A refresh of the Personal session of the candidate takes its action lock.
PersonalRefresh ==
  /\ ActionLocksFree
  /\ personal < MaxGeneration
  /\ personal' = personal + 1
  /\ UNCHANGED <<lost, journals, cred, request, gate, platform, history>>

\* The platform handles a POST, or loses it.
PlatformHandles(stage) ==
  /\ stage \in inflight
  /\ inflight' = inflight \ {stage}
  /\ candidate' \in {candidate,
       CASE stage = "request_join" /\ candidate = "invited" -> "requested"
         [] stage = "accept_join" /\ candidate \in {"invited", "requested"} -> "member"
         [] OTHER -> candidate}
  /\ UNCHANGED <<lost, personal, journals, cred, request, gate, history>>

\* The invitation is withdrawn or the member removed, by another hand.
CandidateGone ==
  /\ candidate' = "gone"
  /\ UNCHANGED <<lost, personal, journals, cred, request, gate, inflight, history>>

-----------------------------------------------------------------------------
RequestNext(r) ==
  \/ \E act \in {"run", "verify", "save", "repair"} : JoinAction(r, act)
  \/ ReserveRotationJoinIntent(r) \/ ClaimRotationJoinExecution(r) \/ LockRemovalGate(r)
  \/ Admit(r) \/ MarkStage(r) \/ CheckDispatch(r) \/ SendJoin(r) \/ JoinNotSent(r)
  \/ JoinAnswered(r) \/ FinishStage(r)
  \/ ObserveAdmission(r) \/ ReadMembership(r) \/ Relock(r) \/ PersistEvidence(r)
  \/ ClaimCredentials(r) \/ RemoteProof(r) \/ Prove(r) \/ Decide(r) \/ StartGrant(r)
  \/ GrantReads(r) \/ ActionAdmission(r) \/ SendGrant(r) \/ SaveComponent(r)
  \/ ReviewGrant(r) \/ Publish(r)
  \/ Abandon(r) \/ GateLost(r)

Environment ==
  \/ LeaseExpires \/ AuthorizationAges \/ StopRemoval \/ SourceChanges
  \/ PersonalRefresh \/ CandidateGone
  \/ \E stage \in Stages : PlatformHandles(stage)

Next == Environment \/ \E r \in Requests : RequestNext(r)

Spec == Init /\ [][Next]_vars

-----------------------------------------------------------------------------
(* Properties *)

\* What each POST of the join promises: reserved first, marked once, sent at
\* most once per marker, whatever takes over the execution.
RequestEffect == INSTANCE OnceOnlyEffect WITH
  reserved <- exec.state # "none", marks <- exec.count["request_join"],
  sent <- posts["request_join"]
AcceptEffect == INSTANCE OnceOnlyEffect WITH
  reserved <- exec.state # "none", marks <- exec.count["accept_join"],
  sent <- posts["accept_join"]

\* What each credential grant promises, over repairs.
WebEffect == INSTANCE OnceOnlyEffect WITH
  reserved <- cred.row, marks <- IF "web" \in cred.started THEN 1 ELSE 0,
  sent <- grants["web"]
OAuthEffect == INSTANCE OnceOnlyEffect WITH
  reserved <- cred.row, marks <- IF "oauth" \in cred.started THEN 1 ELSE 0,
  sent <- grants["oauth"]

\* No POST and no grant is ever repeated: each of the four implements
\* OnceOnlyEffect, through crashes, expired and taken-over leases, lost answers,
\* repairs and requests of several Owners' pages (rotation_join_execution.go,
\* rotation_join_credentials.go).
EffectsOnce == RequestEffect!Spec /\ AcceptEffect!Spec /\ WebEffect!Spec /\ OAuthEffect!Spec

\* r sends a POST of the join or of a grant.
Acts(r) ==
  \/ At(r, "send") /\ request'[r].pc = "await"
  \/ At(r, "post") /\ request'[r].pc = "granted"

\* While the session that holds the locks lives, nothing is sent after a stop,
\* a changed source or a revoked session has committed, nor with a Personal
\* session other than the one bound to the first POST; only clocks may have run
\* out since the last look (checkJoinDispatchGate, joinAdmissionLocal).
EffectsUnderAuthority ==
  [][\A r \in Requests : Acts(r) /\ request[r].gated =>
       lost \subseteq {"age"} /\ binding = personal]_vars

\* A published generation has both components, each from the only grant of its
\* kind, no marker for review, and a join whose accept stage was sent
\* (publishJoinCredentials, tsw_rotation_join_credential_write_guard).
PublicationComplete ==
  cred.published =>
    /\ cred.saved = Kinds
    /\ cred.review = {}
    /\ \A kind \in Kinds : grants[kind] = 1
    /\ posts["accept_join"] = 1
=============================================================================
