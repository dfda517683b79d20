# TLA+ verification of Apophis-TeamSeatWatch

Apophis-TeamSeatWatch is a Go control service over PostgreSQL. An Owner manages
Workspaces of a remote platform: who joins, who is removed, which OAuth
deliveries are handed to customers. Every remote effect crosses a network that
may lose the answer, the process may stop between any two transactions, and
several requests and the background worker act on the same rows. These modules
model the protocols that keep the rows true to the platform, check them with TLC
on small instances and prove the most important properties with TLAPS.

## 1. The system

### Processes

* the Owner HTTP API: one goroutine per request, all on one `pgxpool`
  (`internal/runtime/owner_auth.go`);
* one background worker per process, ticking once a second:
  `internal/runtime/control.go` calls `task.Worker.RunOnce`;
* the public gateway (mTLS proxy) in front of the redeem API;
* command line tools for migrations and the Owner account.

Shared state is the database only. Handlers synchronise with row locks, compare
and set on lease tokens or versions, unique indexes, and PostgreSQL advisory
locks (`internal/writerfence`, `removalGate`).

### Inventory

| Component | State | Operations | What is hard | What makes it correct |
|---|---|---|---|---|
| Rotation removal (`runtime/rotation_removal.go`, migration 00029) | `tsw_rotation_removals`, `_slots`, `_evidence`, view `_released_slots` | start, stop, revoke, run, verify | remote reads and the DELETE happen between transactions; leases expire; advisory locks die with their session; late application of a DELETE | one DELETE per slot, obligations never forgotten, stop fences, release only with evidence under an authorization still in force |
| Writer epochs (`writerfence/epoch.go`, migration 00027) | `tsw_rotation_epochs` | `BeginLocked`, trigger `tsw_rotation_epoch_advance` | facts change between check and use | a frozen authorization is unusable after any covered fact changed |
| Task queue (`task/task.go`, `task/worker.go`) | `tsw_tasks`, attempts | claim, renew, settle, interrupt, exhaust | crash with a live lease; attempts run out; a stale worker commits | a task is worked on under one token; every task ends |
| Batch join (`task/join*.go`) | operation, operation targets, batch, memberships | preflight, request, accept, verify, reconcile | crash after a POST, uncertain answers, two reconciliations of one target | a join is never replayed; a confirmed member is not lost |
| Batch removal (`task/removal*.go`) | same tables | canary, snapshot, DELETE, verify, reconcile, at most three DELETEs | uncertain DELETE, retry of what was already done, a failed canary | bounded side effects, every target settles |
| OAuth delivery (`task/oauth*.go`, `runtime/delivery_http.go`) | assets, attempts, delivery versions, cards, orders | generate, probe, reclaim; activate and revoke a card, authorize a reclaim | crash in a running attempt, superseded generations, four sources of tasks on one asset, an end of service under way | one running attempt per asset, the one its fence names; the order moves with the asset; nothing after the end |
| Public redeem (`runtime/public_redeem_http.go`) | cards, orders, tokens | claim, restore, check, request a reclaim, download | facts read before a write, versions replaced and cards revoked in between | no token outlives its card; only the current version is served |
| Rotation join (`runtime/rotation_join_*.go`, migrations 00030-00034) | intents, executions, membership evidence, credential events and components | reserve, dispatch, reconcile, save, repair | as removal, in two POSTs and two grants, each with a marker of its own | a released slot is joined once, evidence before credentials, nothing sent without authority |
| Rotation preview and authorization, usage ledger (`runtime/expiry_rotation*.go`, `rotationledger/`) | `tsw_expiry_rotation_previews`, usage, protections | preview, confirm, revoke; record usage, set a protection | evidence is read outside the fence while writers commit; pages repeat a key | exactly one executable authorization, over the facts shown |
| Owner authentication (`runtime/owner_auth.go`, `app/owner_cli.go`) | owner, sessions, rate limit buckets | login, refresh, rotate, revoke, logout; create and reset on the host | what a statement read without a lock is over when the next one writes | a reset ends every session, a login has one session, guesses are bounded |
| Mother access and discovery (`runtime/mother_*.go`, `selected_workspace*.go`, `workspace_http.go`) | Personal session, discovery, visibility, Workspace tokens, verifications | login, discovery, exchange, read; edit, disable | four attempts that rest on each other, each with the platform between reservation and publication | evidence that may be chosen rests on what is current; nothing outlives its credentials |
| Personal probes and target accounts (`runtime/target_*.go`, `personal_probes.go`, `task/personal_probe.go`, `target/`) | accounts, sessions, probe tasks, batches and items | edit, import, disable; refresh; probe; preview, confirm, cancel, measure | edits and new sessions while a probe is under way, repeated confirmations, leases that lapse | a session belongs to its credentials, the last attempt decides, a verdict is about the current session |
| Egress (`egress/`) | exits, leases, quarantine | admit, acquire, remeasure, release | an exit drifts while in use | no two leases on one exit |
| Batch planning, standby child batches, destinations, facts, audit, drafts, retention, wiring, web | rows of their own | see `PROJECT.json` | mostly single transactions | not modelled, see section 6 |

`PROJECT.json` lists every component with its status, every hazard at its line,
and maps every definition of the models to the lines it stands for.

## 2. Modules

| Module | What it is |
|---|---|
| `RotationRemoval` | the removal protocol, its properties and, beside each operator a mutant replaces, the mutant (as in every module) |
| `MCRotationRemoval` | the layouts of the slots table used by TLC and the symmetry of requests |
| `RotationRemovalProofs` | types and the inductive invariant of rows and requests; one lease, one DELETE; what closing an obligation and releasing a slot rest on; what still holds when the DELETE leaves |
| `BatchJoin` | one join operation of a batch: leased tasks, both POSTs, recovery and reconciliation |
| `MCBatchJoin` | the symmetry of its workers and targets |
| `BatchJoinProofs` | no replay, failures and successes that stand, one mutator of the Workspace |
| `BatchRemoval` | one removal operation of a batch: retried tasks, canary, marked DELETEs, reconciliation, and the batches after it |
| `MCBatchRemoval` | the symmetry of its workers and of the targets other than the canary |
| `BatchRemovalProofs` | canary first, bounded DELETEs, removed is gone, one remover; without Owner reconciliations facts first and removals that stand |
| `Delivery` | the OAuth delivery of one membership: its tasks and attempts, card, order, tokens and the customer |
| `MCDelivery` | the symmetry of its workers |
| `DeliveryProofs` | order, attempt, tokens and downloads in step with the version; nothing moves after the end |
| `RotationJoin` | the join of one candidate into a released slot: intent, two POSTs, evidence, two grants, publication |
| `MCRotationJoin` | the symmetry of its requests, and which disturbances meet |
| `RotationJoinProofs` | each POST and each grant implements `OnceOnlyEffect`; authority of what is sent; complete publications |
| `OnceOnlyEffect` | what a stage that changes the platform promises: reserved, marked once, sent once at most. The DELETE of a removal, the POSTs of a batch join and the POSTs and grants of a rotation join implement it |
| `BoundedEffect` | the same for an effect that may be repeated: a limit of markers, and one request for each. The DELETEs of a batch removal implement it |
| `ExpiryRotation` | previews, confirmations and revocations over the usage ledger and the epochs |
| `MCExpiryRotation` | the symmetry of its accounts, previews, keys and requests |
| `OwnerAuth` | logins under the rate limit, sessions, and the commands on the host |
| `MCOwnerAuth` | which logins and rotations meet at which time |
| `OwnerAuthProofs` | access ends with a reset, one session of a login, guesses in a window |
| `WorkspaceAccess` | login, discovery, exchange and read of one mother account |
| `MCWorkspaceAccess` | the symmetry of its handlers |
| `PreviewProofs` | what a preview rests on: the theorems of `WorkspaceAccess` (the evidence it names) and of `ExpiryRotation` (the epochs it freezes), two models that share no variable |
| `TargetProbes` | target accounts, their sessions, probe tasks and Personal batches |
| `MCTargetProbes` | the symmetries and which kinds of probe meet |
| `TargetProbesProofs` | sessions, verdicts and confirmations against edits, refreshes and late workers |

### RotationRemoval

An authorized preview fixes a set of slots, one per original member of the
Workspace. An Owner request (`Workers`) runs or verifies one slot:

| Action | Code (`rotation_removal.go`) |
|---|---|
| `ClaimRemoval` | `lockRemovalGate`, `claimRemoval`, `unlockWorkspace` (824-851) |
| `ObserveRoster`, `ObservationFails` | role and roster reads and `checkRemovalSnapshot`, before and after (863-882, 930-944) |
| `ReserveRemovalRequest` | `lockWorkspace`, `reserveRemovalRequest` (897-904) |
| `ProbeGate` | `SELECT 1` on the session holding the locks (907) |
| `SendDelete`, `DeleteNotSent`, `DeleteAnswered` | `RemoveWorkspaceMember` (911; `platform/rotation_removal.go:27-143`) |
| `RemovalReceipt` | `removalReceipt`, `unlockWorkspace` (916-927) |
| `FinishRemovalFailure` | `fail(code)` (856-862) |
| `CommitRemovalEvidence` | `lockWorkspace`, `commitRemovalEvidence` (886-895, 945-953) |
| `Abandon`, `GateLost` | an error return or a crash; the gate's database session dies |

`ConfirmExpiryRotation`, `StartRotationRemoval`, `StopRotationRemoval` and
`RevokeExpiryRotation` are the Owner's control requests. `EpochAdvance`,
`SessionRevoked`, `LeaseExpires`, `PreviewExpires`, `SessionExpires` and
`EvidenceAges` are the other writers and the clocks. `DeleteApplied`,
`DeleteDropped`, `MemberLeaves` and `MemberRejoins` are the platform.

Each database transaction is one step. The steps between them are steps of their
own, so every other actor can act in between. What is abstracted:

* All frozen scopes are one counter `epoch`: the code compares each frozen
  version and any difference has the same effect.
* The session of the authorizer and the session of the requester are one flag;
  the code bounds the lease by both.
* A lease token is represented by its lease epoch: both are renewed by each
  claim, and `SlotStopped` advances the epoch when it drops the token.
* A roster is the set of members; identities, seats and roles are compared by
  the code and a mismatch is the failure `ObservationFails`. The read and its
  check are one step, except that a claimed slot may age in between: the
  expected roster only shrinks when another slot is verified, and a second
  lease is needed for that.
* An observation's lease (`readOnly`) is not bounded by the authorization, and
  its commit never changes the state of a stopped slot.
* `sent` and `rejoins` are history: the number of DELETEs sent for a slot and
  the number of times a member came back.

Timing assumptions, both from line 852: the dispatch context ends one second
before its lease, so a lease does not expire while its request stands between
the probe and the DELETE, and the clocks of the process and of the database
differ by less than that second. They are the guards `DeadlinePassed` and
`DeadlinesPassed` and nothing else in the model depends on time.

### BatchJoin

The Owner confirms a join operation: one target and one `join` task per planned
account. Workers (processes ticking `RunOnce`) work on the tasks under leases:

| Action | Code |
|---|---|
| `CreateJoinOperation` | `createJoinOperation` (`join_http.go:111`) |
| `EnqueueJoinReconciliation` | Owner refresh, `EnqueueJoinReconciliation` (`join.go:89`) |
| `RecoverExpiredJoin`, `SettleExhausted` | the first two queries of a tick (`join.go:36`, `task.go:184`) |
| `ClaimTask`, `ClaimRejected` | `claim` (`task.go:436`); `rejectForEgress` when no exit can be leased |
| `PrepareFails` to `FinishJoin` | `runJoin` (`join_worker.go:11`), with `MarkJoinSideEffectStarted` before each POST and `FinishJoin` (`join.go:220`) |
| `ObserveMembership`, `FinishJoinReconciliation` | `runJoinReconcile` (`join_worker.go:119`, `join.go:307`) |
| `LeaseLost`, `Abandon` | `ErrLeaseLost` and other error returns; a crash |
| `LeaseExpires`, `MutationLeaseExpires` | database time |
| `PlatformApplies`, `PlatformDrops` | the platform handles a POST, possibly long after its answer was lost |

What is abstracted:

* A task's lease token is its attempt number: `claim` renews both in one update,
  and nothing else writes either.
* A tick looks for expired joins, then exhausted tasks, then claims. Each is
  enabled here whenever it finds a row, which adds interleavings and removes
  none.
* A membership, its asset and its generation task are one fact, `confirmed`:
  they are inserted together with `ON CONFLICT`.
* Each `Remeasure` and `Renew` is a guard on the lease or a failure of the step
  it precedes. A renewal's new deadline needs no state: a live lease may expire
  at any time.
* What the preflight reads of the account decides between going on, `failed` and
  `blocked`; why is left out. The facts `createJoinOperation` checks once before
  it inserts (readiness, seats, freshness) are not modelled.
* The switch that stops claims during an identity recovery is open.
* `posts` is history.

One timing assumption, the guard of `MutationLeaseExpires`: the Workspace
mutation lease lasts ten minutes, is renewed by the second marker, and the task
lease of its holder lasts thirty seconds and is renewed at most twice after the
first marker; it therefore does not expire under a holder whose task lease is
valid.

### BatchRemoval

The Owner confirms the removal of a serving batch: one target and one `remove`
task per membership. Unlike a join task, a removal task is retried.

| Action | Code |
|---|---|
| `CreateRemovalOperation` | `createRemovalOperation` (`removal_http.go:218`) |
| `EnqueueRemovalReconciliation` | Owner reconciliation (`removal.go:419`) |
| `StartNextBatch`, `NextBatchSettles` | another batch joins and is removed in the same Workspace, seen only through the two unique indexes it shares |
| `RecoverExpiredRemoval`, `SettleExhausted` | the first queries of a tick (`removal.go:112`, `task.go:184`) |
| `ClaimTask`, `ClaimRejected` | `claim`, with its canary clause; `rejectForEgress` |
| `ReadTarget` | `RemovalTarget` (`removal.go:50`): marker and count are read here, once |
| `SnapshotMembers` | the first member list, `resolveRemovalTarget`, `Remeasure`, and what `runRemoval` decides from them (`removal_worker.go:24-52`) |
| `MarkRemovalSideEffectStarted` | `Renew` and the marker (53-58) |
| `RemoveMember`, `DeleteUncertain`, `DeleteRejected` | the DELETE and its answer (59-62) |
| `VerifyRemoval` | `Renew`, the second member list and its reading (63-85) |
| `FinishRemovalConfirmed`, `FinishRemovalReconciliation`, `FinishRemovalUnconfirmed` | the transactions that end an attempt (`removal.go:225-368`) |
| `TransactionFails`, `Abandon` | error returns; a crash |
| `LeaseExpires`, `MutationLeaseExpires`, `PlatformHandles` | database time; the platform handles a DELETE, possibly late, possibly without effect |

What is abstracted:

* A lease token is the number of the attempt, as in `BatchJoin`; the mutation
  lease names the task and its attempt. A lease that expired is the same as none.
* Why a list does not decide (incomplete, Owner missing, ambiguous identity,
  target is an owner, drifted exit) is left out; that it ends the attempt as
  `queued`, `blocked` or `unknown` is kept.
* The tick tries recovery, exhaustion and claims in this order and returns the
  first error. As in `BatchJoin` each is enabled whenever it finds a row; an
  error of the first two is `RecoveryFails` and disables every claim.
* Another batch is three facts: it is planned, its operation is active
  (`working`: both unique indexes are taken) or only the batch is (`serving`).
* The end of the OAuth tasks when the batch ends is `ServiceEnds` of `Delivery`.
* A workspace in which the Owner adds a removed member again by hand is not
  modelled: `member` only shrinks.
* `deletes` counts for each target the DELETEs the platform has not handled
  (`waiting`) and, as history, those that ever left the process (`sent`).

`BoundedEffect` is the abstract specification of the DELETEs of a target: a marker
is counted before a request, up to a limit, and licenses its sender for one
request; the sender uses the license or loses it. The mapping (`DeleteEffect`)
takes `remove_attempt_count` for the markers and the workers between
`MarkRemovalSideEffectStarted` and `RemoveMember` for the licensed senders,
whether they still have their lease or not. TLC checks it as `DeletesBounded`.

One timing assumption, the guard of `MutationLeaseExpires`: ten minutes against
task leases of thirty seconds that are renewed twice in an attempt.

### Delivery

A confirmed membership has one asset and one generation task. Scheduled probes,
customers and the Owner add more tasks on the same asset; a probe that meets a
401 adds a reclaim by itself. Workers resolve a task, begin an attempt, call the
platform and commit under a fence of three parts: lease, generation, attempt.

| Action | Code |
|---|---|
| `SettleExhausted`, `ClaimTask`, `Reject` | the tick (`task.go:184`, `task.go:436`, `worker.go:171`) |
| `Resolve` | `DeliveryTarget`, `DeliveryReclaimTarget`, `DeliveryProbeTarget` (`oauth.go:71-127`, 221) |
| `BeginDeliveryAttempt` | `oauth.go:452`, with the two unique keys of `tsw_oauth_attempts` |
| `CreateDeliveryCredentials`, `CheckDeliveryLiveness` | `runDeliveryGeneration`, `runDeliveryProbe` |
| `ProbeForReclaim` to `ConfirmRelogin` | `runDeliveryReclaim` (`oauth_reclaim_worker.go:14`) |
| `FinishDeliveryAttempt`, `FinishDeliveryProbe`, `PublishReclaim`, `FinishReclaim` | the transactions that end an attempt (`oauth.go:312`, 547, 669) |
| `RecordDeliveryLeaseLost`, `FinishRefused`, `LeaseLost`, `Abandon` | a lost fence; error returns and crashes |
| `EnqueueDeliveryProbes` | the minute ticker and the Owner (`oauth.go:277`) |
| `ActivateMembershipCard`, `RevokeDeliveryCard`, `AuthorizeDeliveryReclaim` | `delivery_http.go` |
| `ServiceMoves`, `ServiceEnds` | batch and membership as join and removal leave them (`removal.go:386`) |
| `CheckCredentialStatus`, `ClaimOrder`, `BeginRestore` to `ServeDownload` | `public_redeem_http.go` |

What the platform adapter makes of its answers (`platform/oauth.go`) is part of
the steps: `FullLogin` is the login with password and code, which ends as unknown
whichever of its requests failed, or with new credentials; `ProbeOutcome` is what a
probe concludes from the classes of answers in `UsageAnswers`.

What is abstracted:

* A version is the generation that published it: the two are unique together.
  A token is the version it gives access to; tokens of one version expire
  together.
* A lease token is the attempt count, as in the other modules.
* A restore, a reclaim request and a download read the facts under the lock of
  the card and write later; each is two steps, and whoever locks the card waits
  (`CardFree`). The download holds the lock in share mode: two downloads at a
  time are not modelled. The first claim locks membership, batch and asset as
  well and is one step.
* `RecordDeliveryReclaimStage` checks the fence before each call of a reclaim and
  writes only what is displayed: it is a guard of the call.
* Redemption deadlines, rate limits and incomplete target material only refuse
  more; `reclaim_status` tokens give no access to a payload.
* `EnqueueDeliveryProbes` is one statement over all assets and is taken as one
  instant. `MaxGeneration` is larger than what the tasks of a run can reach.

### RotationJoin

The slot of a verified removal is released to its candidate. Requests of the
Owner's page (`run`, `verify`, `save`, `repair`) act on the one intent, each with
a session that holds action locks:

| Action | Code (`runtime/rotation_join_*.go`) |
|---|---|
| `ReserveRotationJoinIntent`, `ClaimRotationJoinExecution`, `LockRemovalGate` | `reserveRotationJoinIntent`, `claimRotationJoinExecution`, and the gate of the removal in between |
| `Admit`, `MarkStage`, `CheckDispatch`, `SendJoin`, `JoinNotSent`, `JoinAnswered`, `FinishStage` | `dispatchRotationCandidateJoin`, twice: request stage, accept stage |
| `ObserveAdmission`, `ReadMembership`, `Relock`, `PersistEvidence` | `reconcileRotationJoinMembership`, which never posts |
| `ClaimCredentials`, `Prove`, `Review`, `Decide` | `saveRotationJoinCredentials` up to its grants |
| `StartGrant`, `GrantReads`, `ActionAdmission`, `SendGrant`, `SaveComponent`, `ReviewGrant`, `Publish` | one grant for `web`, one for `oauth`, each under its marker, then the publication |
| `Abandon`, `GateLost`, `LeaseExpires` | an error return or a crash; the session with the locks dies; database time |
| `AuthorizationAges`, `StopRemoval`, `SourceChanges`, `PersonalRefresh` | why the slot is no longer released, and a new Personal session of the candidate |
| `PlatformHandles`, `CandidateGone` | the platform handles a POST, possibly late; the candidate disappears |

The triggers of migrations 00030 to 00034 are guards of the steps that write
(`EvidenceAdmitted`, `CredentialAuthority`, `CredentialClaimable`, `StageOrdered`,
`ComponentExpected`, `ComponentsComplete`). What is abstracted:

* The queries of one account and the rest of one transaction are one step.
* What an authorization has lost is a set of reasons (`age`, `stop`, `source`):
  every check asks whether it is empty, and the action locks decide which
  reason may be added while a request is gated.
* A claim by a request without a Personal session of the candidate, kept by the
  code for intents of an earlier version, is not modelled.
* The contents of roster and identity answers are their classification.
* `posts` and `grants` are history.

`OnceOnlyEffect` is the abstract specification: an obligation is reserved, then
marked once, then sent at most once, and none of that is ever taken back. Each of
the two POSTs and each of the two grants implements it under a refinement mapping
of its own (`RequestEffect`, `AcceptEffect`, `WebEffect`, `OAuthEffect`); TLC
checks the four as `EffectsOnce`.

### ExpiryRotation

| Action | Code (`runtime/expiry_rotation.go`, `expiry_rotation_capability.go`) |
|---|---|
| `PreviewExpiryRotation`, `ConfirmExpiryRotation` | the two handlers up to their evidence, replays included |
| `ReadRoster`, `ReadRows` | the two rosters, then one account after the other, query by query (`Queries`), outside any transaction |
| `InsertPreview`, `Authorize` | the transaction of each handler: one snapshot; the locked epochs and the facts read again |
| `Fail`, `PreviewExpires` | every conflict or error; database time |
| `RevokeExpiryRotation` | the handler |
| `RecordUsage`, `SetProtection` | `rotationledger/ledger.go`, with the triggers of migration 00028 |
| `DeliverAccount`, `ChangeMaterial`, `ChangeSelection` | the writers of everything else that is covered, with the trigger of its table |

What is abstracted:

* There is one epoch for each account; those of Owner, Workspace, mother, batch,
  destination and the singletons are advanced by the same kind of write and
  compared together, and are the one scope `Selection`.
* Places are the selected Workspace and any other one.
* Roster, expiry and seat types of the platform agree with the verification the
  draft names (`verified`), or do not; without agreement there is no evidence, no
  preview becomes ready and no confirmation succeeds. A change of the selection
  may keep the verification: `rotationFacts` compares only that (`Ready`), and the
  evidence of a read begun before such a change still counts.
* The query for the account of a seat and the one for the selected children are
  part of the step after them: nothing modelled changes what they return.
* The draft selects every account. The translation of previews stored by an older
  version and the GET handlers, which only read, are left out.
* `answers` is history: what each answered confirmation said.

### OwnerAuth

| Action | Code (`runtime/owner_auth.go`, `app/owner_cli.go`) |
|---|---|
| `LoginOwner`, `LockRateSubjects`, `VerifyPassword` | the transaction of a login: limit, then password |
| `AuthenticationFailed`, `OpenSession` | its two ends |
| `RefreshOwnerSession` | one statement |
| `ReadSession`, `RevokeOwn`, `RevokeTarget`, `RotateOwn`, `InsertRotated` | `LogoutOwner` and `RevokeOwnerSession`: `session()`, then the transaction with its rotation |
| `Abort`, `ResetAborts` | rollback of a request, of the reset (a deadlock) |
| `CreateOwner`, `LockOwner`, `ResetOwner` | the commands on the host |
| `Tick` | database time |

What is abstracted:

* The two buckets of a login are inserted and locked in one step; the code always
  locks the account before the address, so two logins never wait for each other in
  a circle.
* A row that is inserted is visible with its commit: both are one step.
* `now()` is the start of the transaction (`start` of a request). A revocation
  may begin its transaction at any time after `session()` read the session.
* The deadlines of a revoked row are forgotten: no query reads them.
* Password hashes, TOTP, tokens and cookies are computed from their input and are
  equality here. `auth/rate_limit.go` restates the limit and is not called.
* `refused`, `ended`, and `login`, `began` and `verified` of a session are history.

### WorkspaceAccess

Four attempts of one mother account, each reserved in one transaction, answered
by the platform and published in another, if nothing it rests on was replaced:

| Action | Code (`runtime/`) |
|---|---|
| `ReservePersonalRefresh`, `FinishPersonalRefresh` | `mother_personal_access.go` |
| `ReserveMotherDiscovery`, `FinishMotherDiscovery` | `mother_discovery.go` |
| `ReserveExchange`, `FinishExchange` | `selected_workspace_access.go` |
| `ReserveRead`, `FinishRead` | `selected_workspace.go` |
| `UpdateCredential`, `Disable`, `Enable` | `updateMotherAccount` (`workspace_http.go`), with everything it deletes |
| `SessionExpires`, `DiscoveryAges`, `TokenExpires`, `TokenDeleted` | database time; `DeleteExpiredWorkspaceTx` |
| `Abandon` | an error return or a crash |

An attempt is an element of `Handlers`. The specification is named `AccessSpec` and
its parts likewise, because one module of proofs extends it and `ExpiryRotation`.
What the platform adapter makes of the answers is part of the steps that publish:
`LoginAnswer` (`platform/personal_refresh.go`), `DiscoveryAnswer`
(`platform/accounts_check.go`), `ExchangeAnswers` (`platform/workspace_exchange.go`),
and `ReadStatus` over the `Sources` of one read, each of which `SourceAnswer`
judges from the `Responses` to its pages (`platform/selected_workspace_http.go`).

`Selectable` is the join a draft or a preview makes to choose evidence. What is
abstracted:

* The answer to a request is one of the classes the adapter distinguishes; of a
  body there is left whether it fits, bodies and cookies are left out.
* A verification's own age, and the deletion of the rows that reached it, are left
  out: its discovery ages first and takes it out of the join.
* `Joined`: the session a discovery joins is not among the rows it locks
  (`FOR UPDATE OF`), so a session committed meanwhile may be missed. The attempt is
  then one without credentials.
* Operation drafts, which name a verification, are not modelled.
* `touched` of a verification is history: something its read began with was
  replaced since. `issued` numbers what sequences of the database number.

### TargetProbes

| Action | Code |
|---|---|
| `UpdateTargetAccount`, `ImportTargetAccounts` | `target_http.go`, with the trigger `tsw_invalidate_target_personal` |
| `ReserveTargetRefresh`, `PublishRefresh`, `AbandonRefresh` | `target_personal_access.go` |
| `CreateTargetProbe`, `CreateTargetProbes` | one probe; one for each account of the filter |
| `ClaimTargetProbe`, `ClaimRejectedTargetProbe`, `TargetProbeTarget`, `CompleteTargetProbe`, `RejectTargetProbe`, `SettleExhausted` | the task and its worker (`task.go`, `worker.go`, `target/service.go`) |
| `PreviewPersonalProbes`, `ReplayPersonalBatch`, `OpenPersonalBatch`, `InsertPersonalBatch`, `CancelPersonalProbes` | `personal_probes.go` |
| `ClaimPersonalItem`, `ProbePersonal`, `PublishPersonalItem` | `task/personal_probe.go`, `target_personal_probe.go` |
| `SessionExpires`, `LeaseExpires`, `ItemAges`, `WorkerStops` | database time; a crash or a failed transaction |

What is abstracted:

* A scope is all accounts; filters and pages select some of them.
* An update changes one thing (secrets, subject, use, or what is only displayed);
  the trigger asks whether anything of its list changed.
* The result of a probe is the revision it was made with (`tested`).
* The tick tries its queries in order; each is enabled whenever it finds a row.
* Accounts are neither created nor deleted, and finished tasks stay.
* `by` of a task or item is history: the attempt that ended it.

## 3. What the runs check

| Run | Instance | Question |
|---|---|---|
| `slots` | 2 slots of one removal, 2 members one of which may leave and come back, 2 requests, 2 epochs, 2 claims | every interleaving of two requests with crash, takeover, lost gate, stop, revoke, drift and logout |
| `join_targets` | 2 targets, 2 workers, 2 attempts | every interleaving of two workers on two targets of one operation, with crashes and takeovers at every step |
| `join_settles` | 1 target, 2 workers, 1 Owner refresh, 2 attempts, fairness | does every operation come to an end? It does |
| `removal_targets` | 3 targets, 2 workers, 3 attempts, 2 markers, 1 next batch | every interleaving of two workers on the canary and two more targets, and of two markers of one target |
| `removal_settles` | 1 target, 2 workers, 1 Owner reconciliation and the task it may start, 2 attempts, 1 marker, fairness | do the tasks come to rest, and is what is recorded as removed gone? |
| `delivery` | 2 workers, 1 customer probe, 1 customer reclaim, 1 Owner reclaim, 1 attempt | every interleaving of two workers, the Owner and a customer on one asset |
| `delivery_settles` | 2 workers, 1 scheduled probe and the reclaim it queues, 2 attempts, fairness | do the tasks end, with retries and takeovers? They do, but for inconclusive last attempts |
| `rotation_join` | 2 requests, 2 claims of each lease, 2 Personal sessions | is each POST and each grant sent once at most, and only under authority? |
| `expiry_rotation` | 1 seat, 1 candidate, 2 previews, 2 keys, 2 requests, 1 change | what does an authorization rest on when its evidence was read outside the fence? |
| `owner_auth` | 1 Owner, 2 addresses, 2 passwords, 3 sessions, 2 requests, 4 instants, 1 reset | logins, rotations and resets that overlap, and guesses at the same time |
| `workspace_access` | 1 Workspace, 2 handlers, 2 of every attempt, 2 credentials | does evidence outlive what it was obtained with? It does not |
| `target_probes` | 1 account, 2 refreshes, 2 confirmations, 2 workers, 2 edits, 2 attempts | edits and new sessions while something is measured |

Two is the smallest number of requests or workers that interfere, and every
property relates at most two of them. Where the code has a larger limit (three or
six attempts, three markers, five failures in a window), two give the first one,
a repetition and the limit itself; the proofs hold for every value. The third
attempt of `removal_targets` is the one that marks again after the second
found the member present, while the worker of the first may still send. Requests,
workers, targets other than a canary, accounts, keys and sessions are
interchangeable and symmetric; no liveness property is checked under symmetry.
`CHECK_DEADLOCK FALSE`: the runs stop when all bounds are used up and the Owner
does nothing more, which the system may do. `workspace_access` never stops and
checks deadlock.

Six runs have a state constraint, to keep their products of independent
disturbances small. A state outside it is checked but not explored further:

| Constraint | What is not explored |
|---|---|
| `SecondSlotOnce` (`slots`) | a second claim of the first slot, or a drift, beside a claim of the second slot while the removal runs; after a stop, a drift beside an observation of the second slot. Requests a stop overtook, and both slots' observations after it, are explored |
| `RetriesAlone` (`join_targets`) | a retry of one target's task while another target has been claimed |
| `OneRetry` (`removal_targets`) | two retried tasks; a third attempt with the other targets claimed |
| `UnderWay` (`rotation_join`) | a second loss of the authorization, and requests that begin after the first one |
| `GuessesApart`, `LateAlone` (`owner_auth`) | failed logins next to sessions or a reset; two requests after the second instant |
| `OneKind`, `OneRace` (`target_probes`) | probe tasks next to a Personal batch; two confirmations and two refreshes together |

Every property of the runs but the three liveness properties is also proved,
without any constraint or bound on the instance (section 4); `SettledStays`,
`FactsFirst` and `RemovalStands` for an Owner who asks for no reconciliation, as in
their runs.

`MaxLease` 3 of `slots` is a claim that sends, one that takes over, and the
increment a stop makes. `MaxEpoch` 2 is one
drift; `MaxRejoins` 1 is one return of the member. Two targets are the smallest
number for which the aggregate status and the Workspace lease can be contended,
three where a canary comes first. The delivery runs divide the sources of tasks
between them: with all of them the state space is about six million states for
one attempt of each task. One attempt and two workers already give an exhausted
task whose worker comes back. The Owner's reclaim needs a failed one before it,
which the customer's request provides. `owner_auth` has two windows of two ticks
and a login that is rotated twice, or rotated once and followed by another login.
`expiry_rotation` has one change, which is enough to separate evidence from
facts, and facts from a preview. `MaxVersion` 3 of `target_probes` is an edit
while something is under way and one that takes it back.

Fairness (`FairSpec`): each worker's `RunOnce` is weakly fair, because
`control.go` ticks every worker once a second for as long as it lives and a tick
tries every query in turn; lease expiry is weakly fair, because database time
passes. A worker may crash at any time (`Abandon`), any number of times; nothing
is assumed of the Owner or the platform. `JoinSettles` needs the bound on attempts,
the takeover of expired leases and the failure of a task on its last
attempt: its mutant leaves a reconciliation in `retry_wait` without attempts.

Properties of the rotation removal:

* `DeletesOnce`: the DELETE of each slot implements `OnceOnlyEffect`: its marker
  and what it stands for survive crashes, failures, stops and takeovers.
* `StopFences`: after stop or revoke, late commits leave the slots stopped. The run
  goes on through the failure, the mark or the result that a request, overtaken
  by the stop, still tries to commit; its mutant is such a commit without the
  comparison of the lease epoch.
* `DispatchGuarded`: what the preflight established is still true when the
  DELETE leaves, as long as the session with the locks lives.
* `ReleasedIsVacant`: the view that hands a slot to its candidate never shows a
  member who is in the Workspace, unless the member came back by itself.
* `TriggerNeverRaises`: no step of the code runs into a guard of the schema.
* `OneDeletePerSlot`, which follows from `DeletesOnce`, and `ObligationKept`,
  `OneActiveLease`, `ClosedUnderFence`: proved only.

of the batch join:

* `PostsOnce`: each of the two POSTs for each target implements `OnceOnlyEffect`,
  whatever is taken over. Both share the marker `reached`: the code commits it again
  before the second POST. `NeverReplayed` is the same for a single state, and proved
  only.
* `FailedNeverJoins`: the Owner may plan a failed account again, so `failed` must
  mean that nothing sent for it can still make a member.
* `UncertainIsReconciled`: an effect nobody has an answer for is looked for.
* `OneMutator`: between marker and outcome nobody else changes the Workspace.
* `ServingIsJoined`: the batch, the targets and the memberships agree with the
  platform.
* `SettledStays`: a late commit takes no outcome back. It holds with one
  reconciliation per target. After an Owner refresh there may be two, and the
  one that ends later writes what it saw even if that is an incomplete list
  (`join.go:329`): a succeeded target becomes `unknown` again and a serving
  batch goes back to `joining`. The run is therefore made without refreshes; no
  document promises otherwise.
* `JoinSettles`: every task ends and leaves the operation settled.

of the batch removal:

* `CanaryFirst`: no marker of another target before the canary is gone, through
  retries, expired leases and blocked attempts of the canary.
* `DeletesBounded`: the DELETEs of each target implement `BoundedEffect`. A worker
  whose lease ran out after its marker may still send, while later attempts
  have marked and sent theirs; each DELETE has a marker of its own all the same,
  and no recovery, retry or reconciliation takes a marker out of the count. The
  bound itself (`SentWithinLimit`: at most as many DELETEs as markers, and at most
  `maximumRemovalSideEffects`) follows and is proved only.
* `FactsFirst`: no marker is committed over an uncertain one. It holds while a
  target has one task and fails with the second one an Owner reconciliation can
  start (`BatchRemoval_resumed.cfg`).
* `OneRemover`: between marker and outcome nobody else has the Workspace.
* `GoneWhenRemoved`: what is recorded as removed is gone, under late and lost
  DELETEs and two tasks of a target.
* `RemovalStands`: a late commit or recovery takes no confirmed removal back.
  As `SettledStays`, it holds without Owner reconciliations and not with them: a
  reconciliation that ends after another task confirmed the target sets it back
  to `unknown` or `blocked`.
* `RemovalSettles`: the tasks come to rest with the operation `succeeded` or
  `blocked`, both of which the Owner can act on. Its exceptions, `Stranded`, are
  two ends the code has: the last attempt ends for a retry and its task waits in
  `retry_wait` for an attempt no query will grant (`removal.go:266`), or a
  reconciliation finds the member present after the last marker and starts no
  task (`removal.go:299`). In both the target is `queued` and the operation
  `running`, which the Owner cannot reconcile.

of the delivery:

* `OrderFollowsAsset`: whoever replaces a version moves the customer's order with
  it; the compare-and-set in `FinishDeliveryReclaim` writes two rows.
* `RunningIsCurrent`: the running attempt is the one the fence names, so a result
  is only ever refused for a lost lease or the end of the service (proved only).
* `RevokedIsClosed`: a restore that read the card before it was revoked leaves
  no token behind.
* `DownloadIsCurrent`: a payload read before a reclaim published is not served
  after it. What protects it is the second look at the token.
* `EndedIsQuiet`: no worker or customer under way changes anything after the end
  (proved only).
* `DeliverySettles`: all tasks end once nobody adds any; the exception, `Settled`,
  is the inconclusive answer to a last attempt (`oauth.go:401` and 748), which
  leaves `retry_wait` without attempts.

of the rotation join:

* `EffectsOnce`: each POST and each grant implements `OnceOnlyEffect`, through
  takeovers of the execution, expired credential leases and repairs.
* `EffectsUnderAuthority`: nothing is sent after a stop or a changed source, nor
  with another Personal session than the first POST, while the session with the
  locks lives. Only clocks may have run out since the last look.
* `PublicationComplete`: what is published has both components, each from the
  only grant of its kind, and none that waits for review.

of the rotation preview:

* `EpochsCoverFacts`: while the frozen epochs are current, the facts hold. Removal
  and join check the epochs and nothing else, so every covered table needs its
  trigger and every reading its place inside or outside the fence.
* `AuthorizedAsConfirmed`: a preview is authorized for the facts shown, which
  still hold at that moment.
* `AnswersStand`: every answered confirmation belongs to a row with its key and
  assignments, and a key never answers for two previews.

of the Owner's authentication:

* `ResetEndsAccess`: nothing that an earlier password opened works after a reset,
  whichever login or rotation was under way.
* `LoginsEnd`: a login has one open session at most, none after it was ended, none
  beyond its lifetime, through rotations that race with each other and with
  their own revocation.
* `GuessesBounded`: requests that guess at the same time get no more than the
  limit of answers in a window.

of the access to Workspaces:

* `EvidenceIsCurrent`: evidence that may be chosen rests on the login, discovery
  and token its read began with, even when attempt numbers start again after a
  token was deleted.
* `NothingOutlives`: what replaced credentials or a disabled account had obtained
  is gone, and nothing in flight brings it back.
* `SlowNeverPublishes`: a read that was overtaken publishes nothing.

and of target accounts:

* `SessionIsCurrent`: a kept session belongs to the kept credentials and the
  latest refresh.
* `LastAttemptDecides`: late workers change neither a task nor an item.
* `VerdictIsCurrent`: a verdict reached with a session is published only while
  it is the account's.
* `AcceptedAsPreviewed`: whoever is told that a batch was accepted confirmed
  exactly its accounts and versions.

### Disagreements with the documentation and the comments

Five properties are stated in the modules, each after what a comment says, and do
not hold. The configuration named is kept beside the modules and produces the
trace; it is not one of the runs above.

* `OneObligationPerMember` (`RotationRemoval_again.cfg`): the comment at
  `rotation_removal.go:884-885` says that presence does not authorize a second
  DELETE, even under another key. The `outstanding` query of start does not count
  a slot that is `blocked` before its marker, and such a slot may be run again
  later: two previews naming one member can both obtain a marker.

* `FactsFirst` with Owner reconciliations (`BatchRemoval_resumed.cfg`): the comment
  at `removal_worker.go:42-43` says that while an earlier DELETE may have reached
  the platform an attempt is strictly read-only. `MarkRemovalSideEffectStarted`
  does not read the marker again. The `remove` task of a target waits in
  `retry_wait`; a reconciliation finds the member present and starts a
  `remove-resume` task. Both read the row unmarked; one marks, sends, gets no
  answer and ends as unknown, releasing the mutation lease; the other marks again
  and sends a second DELETE.

* `ExhaustedInterrupted` (`BatchRemoval_wedge.cfg`): the comment at `task.go:182`
  says that an expired task that cannot create another attempt is interrupted. If
  such a reconciliation belongs to an operation another task has completed, and
  the next batch is active, the update to `blocked` and `removing` violates the
  unique indexes. The transaction fails at every tick, before anything is
  claimed, for every Workspace.

* `LaterRoundsProbe` (`Delivery_wedge.cfg`): the comment at `oauth.go:275-276` says
  that the suffix allows a later round to run. An attempt whose worker stopped
  after `BeginDeliveryAttempt` stays `running`: `SettleExhausted` ends its task
  only, a second attempt of the same task violates `tsw_oauth_attempts_task_uq`,
  and `tsw_oauth_attempts_active_uq` refuses the attempt of every other task.
  `EnqueueDeliveryProbes` skips the asset, which stays `generating` or
  `reclaiming` until the service ends.

* `ProbeIsOfStored` of `TargetProbes` (put it in place of the invariants of
  `TargetProbes_fences.cfg`): an edit of the secrets clears what was measured with
  the old ones (`target_http.go:332` and 449). `PublishProbeTx`
  (`target/service.go:43-52`) compares no revision, so a probe that logged in
  with the old password writes its result over the cleared fields.

Three more were met while reading, in code that is not modelled or below the
steps of a model:

* `recomputeTx` (`workspace/service.go:411`) reads the observations before it
  locks the projection. Of two manual verifications that overlap, the one that
  commits last may not have seen the other's observation, while the comment at
  `service.go:65-66` says that an older timestamp cannot overwrite newer evidence.
* `RunRetentionTx` (`service.go:118-149`) cleans what belongs to no Workspace only
  in a cycle without a Workspace that is due; one whose memberships stay due,
  because an unfinished task still refers to them, postpones it every time.
* `RunOnce` (`worker.go:99-102`) returns with the first error of a Personal probe,
  before it looks for network tasks. A publication that keeps failing is retried
  every five minutes without a limit, and keeps one tick of all others.

## 4. What is proved

### RotationRemoval

For every number of previews, slots, members, requests and every bound, from the
two assumptions on the constants (`ConstantsAssumption`, `SlotKeyAssumption`, the
latter being the unique key of migration 00029):

| Theorem | States |
|---|---|
| `TypeCorrect` | `Spec => []TypeOK` |
| `RowsSound` | `Spec => []RowInv`, the inductive invariant |
| `ObligationsKept` | `Spec => []ObligationKept` |
| `StopsFence` | `Spec => []StopFences` |
| `OneLease` | `Spec => []OneActiveLease` |
| `DeleteSentOnce` | `Spec => []OneDeletePerSlot` |
| `DeletesAreOnce` | `Spec => DeletesOnce`: the DELETE of each slot implements `OnceOnlyEffect` |
| `ClosesUnderFence` | `Spec => ClosedUnderFence` |
| `TriggerIsQuiet` | `Spec => TriggerNeverRaises` |
| `ReleasesVacant` | `Spec => []ReleasedIsVacant` |
| `DispatchIsGuarded` | `Spec => []DispatchGuarded` |

The argument. `SlotChanges` says once and for all how a step may change a row;
every preservation lemma is a case split over it. `RowInv` adds to the types what
makes the properties inductive: rows exist only after start (`Unstarted`, so that
start cannot overwrite an obligation), a request past its marker is about a
marked slot and an observation never passes a marker (`RequestSound`), and a
verified row points at evidence of its last lease (`RowSound`). One DELETE
follows from `DispatchInv`: whoever stands between marker and DELETE is alone on
its slot, and nothing was sent yet. That every step is one of `OnceOnlyEffect` or
none needs three facts more: a removal is never unstarted (`RemovalChanges`), a
marker is only ever set, by `ReserveRemovalRequest` (`MarkedByRequest`,
`MarkerStays`), and only a request with its marker sends. The release view follows from `VacancyInv`:
a request about to commit an absence, and a slot verified by one, know the
rejoin count under which the member was seen to be gone. `DispatchGuarded` is
inductive with two facts beside it: a lease epoch names one request and no request
is ahead of its slot (`LeasesNamed`), and from the marker to the receipt the gate
belongs to the request while its session lives (`GateHeld`). The gate and the
action locks keep every writer of what was checked out until then (`FactsKept`);
the two timing assumptions of section 2 keep the lease and the authorization from
lapsing in between.

### BatchJoin

For every number of targets, workers, Owner refreshes and attempts, from
`AttemptsAssumption` (more than one attempt) and `KeyAssumption` (dedupe keys
differ):

| Theorem | States |
|---|---|
| `JoinSoundness` | `Spec => []IInv`, the inductive invariant |
| `JoinTypeCorrect` | `Spec => []TypeOK` |
| `JoinNeverReplayed` | `Spec => []NeverReplayed` |
| `PostsAreOnce` | `Spec => PostsOnce`: each POST for each target implements `OnceOnlyEffect` |
| `FailuresStand` | `Spec => []FailedNeverJoins` |
| `UncertainHandedOn` | `Spec => []UncertainIsReconciled` |
| `ServesJoined` | `Spec => []ServingIsJoined` |
| `OneMutatorAtATime` | `Spec => []OneMutator` |
| `SoleTaskSound` | with `OwnerKeys = {}`: `Spec => []SoleInv`, its inductive invariant |
| `AnswersStand` | with `OwnerKeys = {}`: `Spec => SettledStays` |

The argument. A join task never waits for a second attempt and an expired join
is recovered, never claimed; so it is claimed once and one worker at most ever
stands in `runJoin` for a target (`OneJoiner`, `TaskSound`). None of the
properties is inductive without that fact: two workers past the marker could
both send. What that worker may still send and report then follows from where it
stands (`JoinSound`): before `request_join` nothing is on its way, before
`accept_join` at most the first POST is, and `failed` is only decided when
neither is. `PlatformSound` says that effects come only from POSTs and POSTs only
after the marker. Each action has a lemma that shows every conjunct it can
disturb; the frame lemmas `WorkKept` and `TargetKept` show the rest.
`OneMutatorAtATime` adds `MutationSound`: the worker between marker and outcome
is the one the operation row names. `WritesFacts` lists what writes an operation
or a marker, and with `JoinSound` shows each step to be one of `OnceOnlyEffect` or
none.

`SettledStays` needs more: that a target has one unfinished task at most
(`OneOpen`), none once it has succeeded or failed (`AnsweredIsDone`), and that a
reconciliation is only asked for without such an answer (`AskedSound`). A
transaction that writes a target holds the lease of one of its tasks, which is then
unfinished, so the target is not answered yet. The hypothesis `OwnerKeys = {}`
cannot be dropped, as section 3 describes.

### BatchRemoval

For every number of targets, workers, Owner reconciliations, attempts and
markers, from `BoundsAssumption`, `CanaryAssumption` and `TaskAssumption` (the
canary is one of the targets; the values for "no task" and "no key" are neither):

| Theorem | States |
|---|---|
| `RemovalSoundness` | `Spec => []IInv`, the inductive invariant |
| `RemovalTypeCorrect` | `Spec => []TypeOK` |
| `CanaryGoesFirst` | `Spec => []CanaryFirst` |
| `DeletesAreBounded` | `Spec => DeletesBounded`: the DELETEs of each target implement `BoundedEffect` |
| `DeletesWithinLimit` | `Spec => []SentWithinLimit` |
| `RemovedIsGone` | `Spec => []GoneWhenRemoved` |
| `OneRemoverAtATime` | `Spec => []OneRemover` |
| `SoleTaskSound` | with `OwnerKeys = {}`: `Spec => []SoleInv`, its inductive invariant |
| `FactsComeFirst` | with `OwnerKeys = {}`: `Spec => FactsFirst` |
| `RemovalsStand` | with `OwnerKeys = {}`: `Spec => RemovalStands` |

The argument. A removal task is claimed again and again, so that several workers
may stand in `runRemoval` for one task. Their attempts are numbered apart
(`Numbered`, `Distinct`), so at most one of them holds the lease.
`MutationSound` says that the Workspace lease is held for that worker;
`WorkSound` that a worker about to report an absence saw it; `ServingSound` that
an operation is created only once for the batch and so never resets a marker.
Each step is first brought into one of a few forms (`Moves`, `Claims`,
`Finishes`, `Recovers`), and one lemma per form shows the invariant preserved.

The refinement needs little of it: each form says that the count of markers stays,
so what remains is where a worker stands. `MarkRemovalSideEffectStarted` licenses
one, `RemoveMember` uses the license, and every other step of a worker leaves that
position (`LapseStep`) or was not in it. `DeletesWithinLimit` is then an invariant
of `BoundedEffect` alone (`CoveredStep`): the requests that left and the licensed
senders together are no more than the markers. It needs no assumption that there
are finitely many workers, since finitely many are ever licensed.

`FactsFirst` and `RemovalStands` rest on what `IInv` does not say: that the
attempt in progress read the marker as it is (`ReadSound`), and that a confirmed
target has no unfinished task (`ConfirmedSound`). Both are true while a target
has one task. The hypothesis `OwnerKeys = {}` cannot be dropped: with one
Owner reconciliation `FactsFirst` is violated (`BatchRemoval_resumed.cfg`).

### Delivery

For every number of workers, rounds, checks, requests and authorizations, every
`MaxAttempts` and every bound on the generations, from `AttemptsAssumption`,
`GenerationAssumption` and `TaskAssumption`:

| Theorem | States |
|---|---|
| `DeliverySoundness` | `Spec => []IInv`, the inductive invariant |
| `DeliveryTypeCorrect` | `Spec => []TypeOK` |
| `OrderFollows` | `Spec => []OrderFollowsAsset` |
| `RunningCurrent` | `Spec => []RunningIsCurrent` |
| `RevokedClosed` | `Spec => []RevokedIsClosed` |
| `DownloadCurrent` | `Spec => DownloadIsCurrent` |
| `EndedQuiet` | `Spec => EndedIsQuiet` |

The argument. Nothing in the fence of `FinishDeliveryReclaim` compares the order
with the asset: with new credentials it moves the order if the order is still the
version the worker resolved, and the asset if the asset is. That they move
together is `OrderFollowsAsset` itself, once a reclaim past its target is known to
have resolved a real order (`ReclaimsHaveOrders`). The other writer of a version is
the generation task; its result comes under its lease, and `GenerateOver` says
that its lease is gone for good once there is a version, so it never replaces one.
`CustomerSound` is what remains of a customer's first read when its second
transaction writes: a download whose token is still there read the current
version, a restore still has its active card. `EndedSettled` says that the end of
the service left no task and no attempt under way, which disables every later
write. Most steps keep the version, the order and the access to it; each of them
is shown to be `Quiet`, and one lemma shows that a quiet step preserves the
invariant.

### RotationJoin

For every number of requests and every number of claims and Personal sessions,
from `BoundsAssumption` (there is at least one Personal session) and
`RequestAssumption` (the value for "nobody" is not a request):

| Theorem | States |
|---|---|
| `Invariance` | `Spec => []IInv`, the inductive invariant |
| `TypeCorrect` | `Spec => []TypeOK` |
| `PublishedIsComplete` | `Spec => []PublicationComplete` |
| `EffectsAreSentOnce` | `Spec => EffectsOnce`: both POSTs and both grants implement `OnceOnlyEffect` |
| `EffectsNeedAuthority` | `Spec => EffectsUnderAuthority` |

The argument. No state from which a stage is marked comes back after its marker
(`StagesMarked`), so a stage is counted once, and a POST is only sent by the
request that marked it, which is alone (`DispatchesOwnMark`, `PostsMarked`). The
grants have no lease of their own that lasts: a grant whose credential lease
expired is repaired by another request, so what makes it unique is that its marker
is in `started` before it, that nobody starts a kind again, and that the one who
did is alone between the marker and the saved component (`GrantsOwnMarker`,
`GrantsMarked`). `MembersWereAccepted` carries the accept POST through the platform
and the evidence to the publication. `SendersHoldGate` says what is still true of
the authority when a gated request sends: the gate is its own, so neither a stop
nor a changed source came between. The refinement is proved step by step: each
action is a step of each of the four instances of `OnceOnlyEffect` or leaves its
variables alone (`StepEffects`).

### ExpiryRotation

For every number of accounts, previews, keys and requests and every number of
changes, from `AccountsAssumption` (nobody is both a member and a candidate),
`NoneAssumption` and `ChangesAssumption`:

| Theorem (in `PreviewProofs`) | States |
|---|---|
| `Invariance` | `Spec => []IInv`, the inductive invariant |
| `TypeCorrect` | `Spec => []TypeOK` |
| `ConfirmationsStand` | `Spec => []AnswersStand` |
| `CurrentEpochsSuffice` | `Spec => []EpochsCoverFacts` |
| `ConfirmedFactsAuthorize` | `Spec => AuthorizedAsConfirmed` |

The argument. `EpochsCoverFacts` is inductive once the frozen epochs are known to
be of the past or of now (`EpochsBehind`): every writer of a covered row advances
the epoch of its scope and thereby leaves all frozen epochs of that scope behind
for good, and every step that advances nothing leaves the facts as they are. The
authorization itself reads the facts under the locked epochs, which is the other
half. A key is stored once (`KeysStoredOnce`), and an answered confirmation is the
one its row keeps (`AnswersKept`): from both follows that a key answers for one
preview.

### WorkspaceAccess

For every number of Workspaces and handlers and every bound, from
`WorkspacesAssumption` (the value for "none" is not a Workspace) and
`BoundsAssumption` (bounds are numbers):

| Theorem (in `PreviewProofs`) | States |
|---|---|
| `AccessInvariance` | `AccessSpec => []AccessInv`, the inductive invariant |
| `AccessTypeCorrect` | `AccessSpec => []AccessTypeOK` |
| `NothingOutlivesTheAccount` | `AccessSpec => []NothingOutlives` |
| `SelectableIsCurrent` | `AccessSpec => []EvidenceIsCurrent` |
| `SlowReadsStaySilent` | `AccessSpec => SlowNeverPublishes` |

The argument. Attempt numbers start again when a token row is deleted, so what
identifies a read is the sequence number of its token's exchange. Exchanges are
numbered for good: reads of one Workspace carry numbers that grow with them, none
is larger than its token's, and those that carry the token's own number are of its
scope and attempt and untouched (`RowsNumbered`). Replacing what a read rests on
either deletes the token or gives it a new number, so a touched row is never
selectable. `AttemptsCarried` says that an attempt in flight still names the row it
reserved, with which its fence decides.

### OwnerAuth

For every number of names, addresses, passwords, sessions and requests and every
limit, from `NamesAssumption` (the Owner has a name), `NoSessionAssumption`,
`LimitAssumption` and `TimesAssumption` (lengths are positive and a block lasts
at least a window):

| Theorem | States |
|---|---|
| `Inductive` | `Spec => []IInv`, the inductive invariant |
| `TypeCorrect` | `Spec => []TypeOK` |
| `ResetsEndAccess` | `Spec => []ResetEndsAccess` |
| `LoginsDoEnd` | `Spec => []LoginsEnd` |
| `GuessesAreBounded` | `Spec => []GuessesBounded` |

The argument. A revocation holds the rows it has updated until it commits: its
target, later its own session too (`RowsHeld`), and two of them hold different
rows (`RowsApart`). So what `session()` read before is still there when the
rotation inserts: the version and the deadline it copies are the login's
(`HasSession`, `RowsSound`), and no other row of the login is open (`OneOpen`).
`LoginsEnd` follows from `OneOpen` and the deadline; `ResetEndsAccess` because a
session works under the version its login was verified with. For the rate limit,
whoever has passed it owns its two buckets (`BucketsHeld`), and a bucket that is
full stays blocked to the end of its window (`FullIsBlocked`): here, and only
here, `Block >= Window` is needed. `RefusedCounted` turns the bound on counts
into one on answers.

### TargetProbes

For every number of accounts, keys, confirmations, refreshes and workers and
every bound, from `NamesAssumption` (the values for "none" are none of them) and
`BoundsAssumption`:

| Theorem | States |
|---|---|
| `Inductive` | `Spec => []IInv`, the inductive invariant |
| `TypeCorrect` | `Spec => []TypeOK` |
| `SessionsAreCurrent` | `Spec => []SessionIsCurrent` |
| `LastAttemptsDecide` | `Spec => []LastAttemptDecides` |
| `AcceptedWasPreviewed` | `Spec => []AcceptedAsPreviewed` |
| `VerdictsAreCurrent` | `Spec => VerdictIsCurrent` |

The argument. Types alone are not inductive: that a worker that is not idle names
an account, and its task if it has one, is `WorkersNamed`. `SessionIsCurrent` needs
what a refresh under way may still find when it publishes: no two hold the same
attempt of an account, and the one with the current attempt finds the row as it
reserved it, with the revision it read (`RefreshesSound`). A task or an item that
can still be claimed has no verdict and none is written without the current
attempt, which is `LastAttemptDecides`; items exist only with their batch
(`ItemsOfBatch`). `AcceptedAsPreviewed` rests on `InsertsAsShown`: the rows about
to be inserted are those of the token, however long the insertion waits for
another one. `VerdictIsCurrent` is an action property that combines
`MeasuredWithSession` with `SessionIsCurrent`.

### What is only model-checked

The liveness properties `JoinSettles`, `RemovalSettles` and `DeliverySettles`, since
liveness under fairness is out of the prover's reach, as are `ENABLED` and anything
computed by recursion. `SettledStays`, `FactsFirst` and `RemovalStands` are proved
for an Owner who asks for no reconciliation and are false otherwise. The
disagreements of section 3 are counterexamples.

## 5. Plan

Done: `RotationRemoval`, `BatchJoin`, `BatchRemoval`, `Delivery`, `RotationJoin`,
`ExpiryRotation`, `WorkspaceAccess`, `OwnerAuth` and `TargetProbes`, each with the
proofs of its safety and action properties; `OnceOnlyEffect` with the three models
that implement it, and `BoundedEffect` with `BatchRemoval`.

Left, in this order:

1. An abstract specification of a leased task (claimed under a token, ended by its
   holder, ended once) that the tasks of `BatchJoin`, `BatchRemoval`, `Delivery` and
   `TargetProbes` implement.
2. `EgressLeases`, and a model of the gate over a bounded connection pool, for the
   hazard at `rotation_removal.go:90`.

## 6. Not modelled

* Recovery gate and public gateway: a switch read before every tick, taken as
  open, and a proxy.
* Egress: the pool of exits and its drift are a refusal or a failure of the step
  that needs one; planned.
* Batch planning, standby child batches, operation drafts, destinations: rows
  written in single transactions under the epochs, before any of the modelled
  operations exists.
* Workspace facts: observations and a projection recomputed from them; the worker
  that would read them is not started by this version.
* Audit and retention: written or deleted in the transactions of other parts;
  nothing modelled reads them back. The deletion of expired Workspace tokens,
  which does interfere, is part of `WorkspaceAccess`.
* Control service, command line and web interface: wiring and presentation.
* Of modelled components: pages that only read, classification of answers,
  CSRF, cookies, hashing and sealing, the order in which one transaction takes
  its row locks (except where `OwnerAuth` makes it visible).
