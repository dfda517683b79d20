------------------------------ MODULE Delivery ------------------------------
(***************************************************************************)
(* The OAuth delivery of one membership: the generate, probe and reclaim   *)
(* tasks of internal/task/oauth*.go on its asset, the card, the order and  *)
(* the access tokens of public_redeem_http.go and delivery_http.go.        *)
(*                                                                         *)
(* A worker resolves its leased task, begins an attempt, calls the         *)
(* platform and commits the result under a fence: its lease, the           *)
(* generation and the attempt of the asset.  Customers claim the delivered *)
(* version, restore access to it, download it or ask for a new one while   *)
(* workers replace it.  Each transaction is one step, except those of a    *)
(* customer that read before they write.  Redemption deadlines, rate       *)
(* limits and incomplete target materials only forbid more.                *)
(***************************************************************************)
EXTENDS Naturals

CONSTANTS
  Workers,        \* worker processes
  Rounds,         \* scheduler periods and Owner keys of EnqueueDeliveryProbes
  Checks,         \* status checks of a customer
  Requests,       \* reclaims requested by a customer
  Grants,         \* reclaims authorized by the Owner
  MaxAttempts,    \* max_attempts of the tasks
  MaxGeneration,  \* bound on the generations of the asset
  NoTask          \* task of an idle worker, attempt of a new asset

ASSUME AttemptsAssumption == MaxAttempts \in Nat \ {0}
ASSUME GenerationAssumption == MaxGeneration \in Nat \ {0}

Generations == 1..MaxGeneration

\* Dedupe keys: "oauth-generate:A", "oauth-probe:A:R", "oauth-probe:A:customer:C",
\* "oauth-reclaim:A:K" (customer and Owner) and "oauth-reclaim:A:auto:G".
Generate == {<<"generate", 1>>}
CustomerProbes == {"check"} \X Checks
Probes == ({"probe"} \X Rounds) \cup CustomerProbes
OwnerReclaims == {"owner"} \X Grants
Reclaims ==
  ({"customer"} \X Requests) \cup OwnerReclaims \cup ({"auto"} \X Generations)
Tasks == Generate \cup Probes \cup Reclaims

ASSUME TaskAssumption == NoTask \notin Tasks

VARIABLES
  service,   \* batch and membership
  asset,     \* tsw_oauth_assets row
  attempt,   \* tsw_oauth_attempts row of each task
  task,      \* tsw_tasks rows
  latest,    \* the reclaim task created last
  worker,    \* workers in progress
  card,      \* tsw_cards row
  order,     \* version of the tsw_orders row, 0 without one
  tokens,    \* versions with an unrevoked customer_access token
  customer   \* transaction of the customer, which holds the card row

vars == <<service, asset, attempt, task, latest, worker, card, order, tokens, customer>>

-----------------------------------------------------------------------------
(* Rows *)

Unfinished == {"queued", "running", "retry_wait"}

\* A delivery version is named by its generation.
Versions == 0..MaxGeneration
AssetRow == [status : {"pending", "generating", "reclaiming", "ready", "unavailable"},
             generation : Versions, attempt : Tasks \cup {NoTask}, version : Versions]

AttemptRow == [state : {"none", "running", "published", "failed", "superseded"},
               generation : Versions]

\* attempts names the lease token too; unrecoverable is reclaim_result.
TaskRow == [status : {"none", "succeeded", "failed", "interrupted"} \cup Unfinished,
            lease : {"none", "live", "expired"}, attempts : 0..MaxAttempts,
            unrecoverable : BOOLEAN]
Absent == [status |-> "none", lease |-> "none", attempts |-> 0,
           unrecoverable |-> FALSE]
NewTask == [Absent EXCEPT !.status = "queued"]

\* What the calls to the platform established: a working credential set, a
\* working old one, a 401, a transient or missing answer, anything else.
Outcomes == {"ok", "healthy", "unauthorized", "unknown", "refused"}

\* What the usage endpoint answers with a token: 2xx, 401, 402 for a deactivated
\* Workspace, or anything else; the answer or the token may be of another Workspace.
UsageAnswers == [status : {"ok", "unauthorized", "refused", "unknown"}, elsewhere : BOOLEAN]

\* CheckDeliveryLiveness of platform/oauth.go.
ProbeOutcome(answer) == IF answer.elsewhere THEN "unknown" ELSE answer.status

\* version is the CurrentVersionID of a reclaim.
Work == [pc : {"idle", "rejected", "resolve", "begin", "create", "probe", "refresh",
               "relogin", "confirm", "finish"},
         task : Tasks \cup {NoTask}, token : 0..MaxAttempts, version : Versions,
         outcome : Outcomes \cup {"none"}, unrecoverable : BOOLEAN]
Idle == [pc |-> "idle", task |-> NoTask, token |-> 0, version |-> 0,
         outcome |-> "none", unrecoverable |-> FALSE]

Away == [pc |-> "away", version |-> 0]

\* Every row holds a value its CHECK constraints allow.
TypeOK ==
  /\ service \in {"joining", "serving", "removing", "removed", "ended"}
  /\ asset \in AssetRow
  /\ attempt \in [Tasks -> AttemptRow]
  /\ task \in [Tasks -> TaskRow]
  /\ latest \in Reclaims \cup {NoTask}
  /\ worker \in [Workers -> Work]
  /\ card \in {"none", "active", "revoked"}
  /\ order \in Versions
  /\ tokens \subseteq Generations
  /\ customer \in [pc : {"away", "restore", "reclaim", "download", "served"},
                   version : Versions]

\* QueueDeliveryGenerationTx: the membership is confirmed with its asset and its
\* generation task.
Init ==
  /\ service = "joining"
  /\ asset = [status |-> "pending", generation |-> 0, attempt |-> NoTask, version |-> 0]
  /\ attempt = [x \in Tasks |-> [state |-> "none", generation |-> 0]]
  /\ task = [x \in Tasks |-> IF x \in Generate THEN NewTask ELSE Absent]
  /\ latest = NoTask
  /\ worker = [w \in Workers |-> Idle]
  /\ card = "none"
  /\ order = 0
  /\ tokens = {}
  /\ customer = Away

-----------------------------------------------------------------------------
(* Conditions and updates shared by the transactions *)

Job(w) == worker[w].task
At(w, pc) == worker[w].pc = pc

\* Membership active and batch not ended; and the batch open to customers.
Active == service \in {"joining", "serving", "removing"}
Open == service \in {"serving", "removing"}

HoldsLease(w) ==
  /\ task[Job(w)].status = "running"
  /\ task[Job(w)].lease = "live"
  /\ task[Job(w)].attempts = worker[w].token

\* The row the transactions of an attempt lock first.
Fence(w) == HoldsLease(w) /\ Active

\* current_attempt_id and current_generation are still those of the attempt.
Current(w) ==
  /\ asset.attempt = Job(w)
  /\ asset.generation = attempt[Job(w)].generation

Ended(row, status) == [row EXCEPT !.status = status, !.lease = "none"]

\* Mutant: the card row is read without its lock.
CardUnlocked == TRUE

\* FOR UPDATE of the card waits for the transaction of the customer.
CardFree == customer.pc \in {"away", "served"}

\* tsw_tasks_active_reclaim_uq and the dedupe key.
ReclaimInsertable(x) ==
  /\ task[x].status = "none"
  /\ \A y \in Reclaims : task[y].status \notin Unfinished

\* enqueueDeliveryReclaimTx after its guards.
ReclaimInserted(x) ==
  /\ task' = [task EXCEPT ![x] = NewTask]
  /\ latest' = x
  /\ asset' = [asset EXCEPT !.status =
                 IF @ \in {"ready", "unavailable"} THEN "reclaiming" ELSE @]

CanAccess ==
  /\ card = "active" /\ Open
  /\ asset.status = "ready" /\ asset.version # 0
  /\ order = asset.version

-----------------------------------------------------------------------------
(* One tick of a worker *)

\* SettleExhausted.
SettleExhausted(w, x) ==
  /\ At(w, "idle")
  /\ task[x].status = "running" /\ task[x].lease = "expired"
  /\ task[x].attempts >= MaxAttempts
  /\ task' = [task EXCEPT ![x] =
                [Ended(@, "interrupted") EXCEPT !.unrecoverable = FALSE]]
  /\ asset' = IF x \in Reclaims THEN [asset EXCEPT !.status = "unavailable"] ELSE asset
  /\ UNCHANGED <<service, attempt, latest, worker, card, order, tokens, customer>>

\* Mutant: an expired lease is not taken over.
ClaimableOnce(x) ==
  task[x].attempts < MaxAttempts /\ task[x].status \in {"queued", "retry_wait"}

\* The candidate of claim and claimRejected.
Claimable(x) ==
  /\ task[x].attempts < MaxAttempts
  /\ \/ task[x].status \in {"queued", "retry_wait"}
     \/ task[x].status = "running" /\ task[x].lease = "expired"

Claimed(row) == [row EXCEPT !.status = "running", !.lease = "live", !.attempts = @ + 1]

\* ClaimDelivery, or ClaimRejectedNetwork when no exit could be leased.
ClaimTask(w, x) ==
  /\ At(w, "idle")
  /\ Claimable(x)
  /\ task' = [task EXCEPT ![x] = Claimed(@)]
  /\ \E pc \in {"resolve", "rejected"} :
       worker' = [worker EXCEPT ![w] =
                    [Idle EXCEPT !.pc = pc, !.task = x, !.token = task[x].attempts + 1]]
  /\ UNCHANGED <<service, asset, attempt, latest, card, order, tokens, customer>>

\* fail: the task is closed, its asset is left as it is.
Reject(w) ==
  /\ At(w, "rejected")
  /\ HoldsLease(w)
  /\ task' = [task EXCEPT ![Job(w)] = Ended(@, "failed")]
  /\ worker' = [worker EXCEPT ![w] = Idle]
  /\ UNCHANGED <<service, asset, attempt, latest, card, order, tokens, customer>>

LocalStep == UNCHANGED <<service, asset, attempt, task, latest, card, order, tokens, customer>>

Goto(w, pc) == worker' = [worker EXCEPT ![w].pc = pc]

Conclude(w, outcome, unrecoverable) ==
  worker' = [worker EXCEPT ![w] = [@ EXCEPT !.pc = "finish", !.outcome = outcome,
                                            !.unrecoverable = unrecoverable]]

\* A lost fence, any other error return, or a crash.
Abandon(w) ==
  /\ ~At(w, "idle")
  /\ worker' = [worker EXCEPT ![w] = Idle]
  /\ LocalStep

\* DeliveryTarget, DeliveryProbeTarget, DeliveryReclaimTarget.
Resolvable(x) ==
  /\ Active
  /\ x \in Probes => /\ asset.status \in {"ready", "unavailable", "reclaiming"}
                     /\ asset.version # 0
  /\ x \in Reclaims => order # 0 /\ card # "none"

Resolve(w) ==
  /\ At(w, "resolve")
  /\ IF Resolvable(Job(w))
     THEN worker' = [worker EXCEPT ![w] = [@ EXCEPT !.pc = "begin", !.version = order]]
     ELSE IF Job(w) \in Probes THEN Goto(w, "rejected")
     ELSE worker' = [worker EXCEPT ![w] = Idle]
  /\ LocalStep

\* tsw_oauth_attempts_task_uq and tsw_oauth_attempts_active_uq.
AttemptInsertable(x) ==
  /\ attempt[x].state = "none"
  /\ \A y \in Tasks : attempt[y].state # "running"

NextGeneration(x) == IF x \in Probes THEN asset.generation ELSE asset.generation + 1

\* BeginDeliveryAttempt.  MaxGeneration bounds the model.
BeginDeliveryAttempt(w) ==
  LET x == Job(w) IN
  /\ At(w, "begin")
  /\ Fence(w)
  /\ AttemptInsertable(x)
  /\ NextGeneration(x) <= MaxGeneration
  /\ attempt' = [attempt EXCEPT ![x] = [state |-> "running",
                                        generation |-> NextGeneration(x)]]
  /\ asset' = [asset EXCEPT !.generation = NextGeneration(x), !.attempt = x,
                 !.status = IF x \in Reclaims THEN "reclaiming" ELSE "generating"]
  /\ Goto(w, IF x \in Generate THEN "create" ELSE "probe")
  /\ UNCHANGED <<service, task, latest, card, order, tokens, customer>>

\* RecordDeliveryReclaimStage, before each call of a reclaim: the attempt still
\* is the one of the asset.  The stage it writes is for the page only.
StageRecorded(w) == Fence(w) /\ Current(w)

\* Renew found the lease gone, or a transaction its fence or its indexes.
LeaseLost(w) ==
  /\ \/ At(w, "rejected") /\ ~HoldsLease(w)
     \/ At(w, "begin") /\ ~(Fence(w) /\ AttemptInsertable(Job(w)))
     \/ At(w, "create") /\ ~HoldsLease(w)
     \/ /\ worker[w].pc \in {"probe", "refresh", "relogin", "confirm"}
        /\ Job(w) \in Reclaims
        /\ ~StageRecorded(w)
  /\ Abandon(w)

-----------------------------------------------------------------------------
(* Calls to the platform *)

\* CreateDeliveryCredentials of platform/oauth.go: the identifier, the password, a
\* code if one is asked for, the Workspace and a grant bound to it.  It stops at the
\* first of them that fails; only all of them together are credentials.
FullLogin(w, lost, Created) == Conclude(w, "unknown", lost) \/ Created

\* runDeliveryGeneration: the login, Renew and the final probe.
CreateDeliveryCredentials(w) ==
  /\ At(w, "create")
  /\ FullLogin(w, FALSE, HoldsLease(w) /\ Goto(w, "probe"))
  /\ LocalStep

\* The answer of a probe of new credentials, or of a scheduled or customer probe.
CheckDeliveryLiveness(w) ==
  /\ At(w, "probe") /\ Job(w) \notin Reclaims
  /\ \E answer \in UsageAnswers : Conclude(w, ProbeOutcome(answer), FALSE)
  /\ LocalStep

\* runDeliveryReclaim after RecordDeliveryReclaimStage("probe").
ProbeForReclaim(w) ==
  /\ At(w, "probe") /\ Job(w) \in Reclaims
  /\ StageRecorded(w)
  /\ \/ Conclude(w, "healthy", FALSE)
     \/ \E lost \in BOOLEAN : Conclude(w, "unknown", lost)
     \/ Conclude(w, "refused", TRUE)
     \/ Goto(w, "refresh")
  /\ LocalStep

\* RefreshDeliveryCredentials only after an authoritative 401.
RefreshDeliveryCredentials(w) ==
  /\ At(w, "refresh")
  /\ StageRecorded(w)
  /\ \/ \E answer \in UsageAnswers :
          /\ ProbeOutcome(answer) # "unauthorized"
          /\ Conclude(w, ProbeOutcome(answer), FALSE)
     \/ Goto(w, "relogin")
  /\ LocalStep

\* The full login, after Renew.
Relogin(w) ==
  /\ At(w, "relogin")
  /\ StageRecorded(w)
  /\ FullLogin(w, TRUE, Goto(w, "confirm"))
  /\ LocalStep

\* The probe of the credentials of a full login.
ConfirmRelogin(w) ==
  /\ At(w, "confirm")
  /\ StageRecorded(w)
  /\ \E answer \in UsageAnswers :
       Conclude(w, ProbeOutcome(answer), ProbeOutcome(answer) # "ok")
  /\ LocalStep

-----------------------------------------------------------------------------
(* Results *)

\* recordDeliveryLeaseLost: the attempt is superseded although the fence is gone.
RecordDeliveryLeaseLost(w) ==
  /\ At(w, "finish") /\ Job(w) \notin Reclaims
  /\ ~Fence(w)
  /\ attempt' = IF attempt[Job(w)].state = "running"
                THEN [attempt EXCEPT ![Job(w)].state = "superseded"] ELSE attempt
  /\ worker' = [worker EXCEPT ![w] = Idle]
  /\ UNCHANGED <<service, asset, task, latest, card, order, tokens, customer>>

\* The fence of FinishDeliveryReclaim, with its update of the order when there
\* are new credentials.
ReclaimFence(w) ==
  /\ Fence(w) /\ Current(w)
  /\ worker[w].outcome = "ok" => order = worker[w].version

\* ErrDeliveryAttemptSuperseded, and the lost lease of a reclaim: rolled back.
FinishRefused(w) ==
  /\ At(w, "finish")
  /\ IF Job(w) \in Reclaims THEN ~ReclaimFence(w) ELSE Fence(w) /\ ~Current(w)
  /\ Abandon(w)

WithState(x, state) ==
  IF attempt[x].state = "running" THEN [attempt EXCEPT ![x].state = state] ELSE attempt

\* FinishDeliveryAttempt: a published generation task counts as failed.
FinishDeliveryAttempt(w) ==
  LET x == Job(w) outcome == worker[w].outcome IN
  /\ At(w, "finish") /\ x \in Generate
  /\ Fence(w) /\ Current(w)
  /\ attempt' = WithState(x, IF outcome = "ok" THEN "published" ELSE "failed")
  /\ asset' = IF outcome = "ok"
              THEN [asset EXCEPT !.status = "ready", !.version = attempt[x].generation]
              ELSE [asset EXCEPT !.status = "unavailable"]
  /\ task' = [task EXCEPT ![x] =
                Ended(@, IF outcome = "unknown" THEN "retry_wait" ELSE "failed")]
  /\ worker' = [worker EXCEPT ![w] = Idle]
  /\ UNCHANGED <<service, latest, card, order, tokens, customer>>

ProbedStatus(outcome) ==
  IF outcome \in {"unauthorized", "refused"} THEN "unavailable" ELSE "ready"

\* A 401 of a scheduled probe looks for the active card and the current order.
Answers401(w) ==
  /\ Job(w) \notin CustomerProbes
  /\ worker[w].outcome = "unauthorized"

\* ... and queues a reclaim for the generation.
ReclaimsAutomatically(w) ==
  /\ Answers401(w)
  /\ card = "active" /\ order # 0 /\ order = asset.version
  /\ Open
  /\ asset.generation # 0
  /\ ReclaimInsertable(<<"auto", asset.generation>>)

\* FinishDeliveryProbe.
FinishDeliveryProbe(w) ==
  LET x == Job(w)
      outcome == worker[w].outcome
      auto == <<"auto", asset.generation>>
      ended == [task EXCEPT ![x] =
                  Ended(@, IF outcome = "unknown" THEN "retry_wait" ELSE "succeeded")]
  IN
  /\ At(w, "finish") /\ x \in Probes
  /\ Fence(w) /\ Current(w)
  /\ Answers401(w) => CardFree
  /\ attempt' = WithState(x, IF outcome = "unknown" THEN "failed" ELSE "published")
  /\ IF ReclaimsAutomatically(w)
     THEN /\ task' = [ended EXCEPT ![auto] = NewTask]
          /\ latest' = auto
          /\ asset' = [asset EXCEPT !.status = "reclaiming"]
     ELSE /\ task' = ended
          /\ asset' = [asset EXCEPT !.status = ProbedStatus(outcome)]
          /\ UNCHANGED latest
  /\ worker' = [worker EXCEPT ![w] = Idle]
  /\ UNCHANGED <<service, card, order, tokens, customer>>

\* Mutant: the order keeps its version.
UnpublishedOrder(w) == order

PublishedOrder(w) == attempt[Job(w)].generation

\* FinishDeliveryReclaim with new credentials: the order moves to the new version
\* and every token of the old one is revoked.
PublishReclaim(w) ==
  LET x == Job(w) IN
  /\ At(w, "finish") /\ x \in Reclaims
  /\ worker[w].outcome = "ok"
  /\ ReclaimFence(w)
  /\ asset' = IF asset.version # worker[w].version THEN asset
              ELSE [asset EXCEPT !.status = "ready", !.version = attempt[x].generation]
  /\ order' = PublishedOrder(w)
  /\ tokens' = {}
  /\ attempt' = WithState(x, "published")
  /\ task' = [task EXCEPT ![x] = Ended(@, "succeeded")]
  /\ worker' = [worker EXCEPT ![w] = Idle]
  /\ UNCHANGED <<service, latest, card, customer>>

\* FinishDeliveryReclaim without new credentials.
FinishReclaim(w) ==
  LET x == Job(w)
      outcome == worker[w].outcome
      status == IF outcome = "healthy" THEN "succeeded"
                ELSE IF outcome = "unknown" /\ worker[w].token < MaxAttempts
                     THEN "retry_wait" ELSE "failed"
  IN
  /\ At(w, "finish") /\ x \in Reclaims
  /\ outcome # "ok"
  /\ ReclaimFence(w)
  /\ asset' = [asset EXCEPT !.status = CASE status = "succeeded" -> "ready"
                                         [] status = "retry_wait" -> "reclaiming"
                                         [] status = "failed" -> "unavailable"]
  /\ attempt' = WithState(x, IF status = "succeeded" THEN "published" ELSE "failed")
  /\ task' = [task EXCEPT ![x] = [Ended(@, status) EXCEPT
                                    !.unrecoverable = worker[w].unrecoverable]]
  /\ worker' = [worker EXCEPT ![w] = Idle]
  /\ UNCHANGED <<service, latest, card, order, tokens, customer>>

-----------------------------------------------------------------------------
(* The scheduler and the Owner *)

\* EnqueueDeliveryProbes, by the minute ticker and by the Owner.
EnqueueDeliveryProbes(r) ==
  LET x == <<"probe", r>> IN
  /\ Active
  /\ asset.status \in {"ready", "unavailable"} /\ asset.version # 0
  /\ \A y \in Tasks : attempt[y].state # "running"
  /\ task[x].status = "none"
  /\ task' = [task EXCEPT ![x] = NewTask]
  /\ UNCHANGED <<service, asset, attempt, latest, worker, card, order, tokens, customer>>

\* authorizeDeliveryReclaim: only after an unrecoverable terminal result.
AuthorizeDeliveryReclaim(g) ==
  LET x == <<"owner", g>> IN
  /\ CardFree
  /\ card = "active" /\ Open
  /\ order # 0 /\ order = asset.version
  /\ asset.status = "unavailable"
  /\ latest # NoTask
  /\ task[latest].status = "failed" /\ task[latest].unrecoverable
  /\ ReclaimInsertable(x)
  /\ ReclaimInserted(x)
  /\ UNCHANGED <<service, attempt, worker, card, order, tokens, customer>>

\* activateMembershipCard.
ActivateMembershipCard ==
  /\ service = "serving"
  /\ asset.status = "ready"
  /\ card = "none"
  /\ card' = "active"
  /\ UNCHANGED <<service, asset, attempt, task, latest, worker, order, tokens, customer>>

\* revokeDeliveryCard.
RevokeDeliveryCard ==
  /\ CardFree
  /\ card = "active"
  /\ card' = "revoked"
  /\ tokens' = {}
  /\ UNCHANGED <<service, asset, attempt, task, latest, worker, order, customer>>

\* The aggregates of join and removal, and the membership of this account.
ServiceMoves ==
  /\ \/ service = "joining" /\ service' = "serving"
     \/ service = "serving" /\ service' \in {"joining", "removing"}
     \/ service = "removing" /\ service' = "removed"
  /\ UNCHANGED <<asset, attempt, task, latest, worker, card, order, tokens, customer>>

UnfinishedInterrupted(row) ==
  IF row.status \in Unfinished THEN Ended(row, "interrupted") ELSE row

\* settleRemovalAggregate when the last member is gone: attempts are superseded
\* and tasks interrupted.
ServiceEnds ==
  /\ service \in {"removing", "removed"}
  /\ service' = "ended"
  /\ attempt' = [x \in Tasks |-> IF attempt[x].state = "running"
                                 THEN [attempt[x] EXCEPT !.state = "superseded"]
                                 ELSE attempt[x]]
  /\ task' = [x \in Tasks |-> UnfinishedInterrupted(task[x])]
  /\ UNCHANGED <<asset, latest, worker, card, order, tokens, customer>>

-----------------------------------------------------------------------------
(* Customers: the transactions that read before they write hold the card *)

\* CheckPublicRedeemCredentialStatus.
CheckCredentialStatus(c) ==
  LET x == <<"check", c>> IN
  /\ CardFree
  /\ card = "active" /\ Open
  /\ asset.version # 0
  /\ task[x].status = "none"
  /\ task' = [task EXCEPT ![x] = NewTask]
  /\ UNCHANGED <<service, asset, attempt, latest, worker, card, order, tokens, customer>>

\* ConfirmPublicRedeem, first claim: membership, batch and asset are locked too.
ClaimOrder ==
  /\ CardFree
  /\ card = "active" /\ service = "serving"
  /\ order = 0
  /\ asset.status = "ready" /\ asset.version # 0
  /\ order' = asset.version
  /\ tokens' = tokens \cup {asset.version}
  /\ UNCHANGED <<service, asset, attempt, task, latest, worker, card, customer>>

CustomerReads(pc) ==
  /\ CardFree
  /\ customer' = [pc |-> pc, version |-> asset.version]
  /\ UNCHANGED <<service, asset, attempt, task, latest, worker, card, order, tokens>>

\* ConfirmPublicRedeem of an order: the facts are read, then a token inserted.
BeginRestore == order # 0 /\ CanAccess /\ CustomerReads("restore")

RestoreOrder ==
  /\ customer.pc = "restore"
  /\ tokens' = tokens \cup {customer.version}
  /\ customer' = Away
  /\ UNCHANGED <<service, asset, attempt, task, latest, worker, card, order>>

\* RequestPublicRedeemReclaim: canReclaimRequest, then the task.
BeginReclaimRequest ==
  /\ card = "active" /\ Open
  /\ order # 0 /\ order = asset.version
  /\ asset.status \in {"ready", "unavailable", "reclaiming"}
  /\ CustomerReads("reclaim")

RequestReclaim(k) ==
  /\ customer.pc = "reclaim"
  /\ Open /\ order = asset.version
  /\ ReclaimInsertable(<<"customer", k>>)
  /\ ReclaimInserted(<<"customer", k>>)
  /\ customer' = Away
  /\ UNCHANGED <<service, attempt, worker, card, order, tokens>>

\* DownloadPublicRedeemDelivery: a token of the current version gives access.
BeginDownload ==
  /\ asset.version \in tokens
  /\ CanAccess
  /\ CustomerReads("download")

\* Mutant: the token is not looked at again.
TokenTrusted == TRUE

\* updateTokenUseTx: the token is still unrevoked.
TokenUsable == customer.version \in tokens

ServeDownload ==
  /\ customer.pc = "download"
  /\ TokenUsable
  /\ customer' = [customer EXCEPT !.pc = "served"]
  /\ UNCHANGED <<service, asset, attempt, task, latest, worker, card, order, tokens>>

\* A request that ends without a write, an aborted transaction, a download over.
CustomerLeaves ==
  /\ customer # Away
  /\ customer' = Away
  /\ UNCHANGED <<service, asset, attempt, task, latest, worker, card, order, tokens>>

-----------------------------------------------------------------------------
(* Clocks *)

LeaseExpires(x) ==
  /\ task[x].status = "running" /\ task[x].lease = "live"
  /\ task' = [task EXCEPT ![x].lease = "expired"]
  /\ UNCHANGED <<service, asset, attempt, latest, worker, card, order, tokens, customer>>

TokenExpires(v) ==
  /\ v \in tokens
  /\ tokens' = tokens \ {v}
  /\ UNCHANGED <<service, asset, attempt, task, latest, worker, card, order, customer>>

-----------------------------------------------------------------------------
(* Specification *)

TickStep(w) == \E x \in Tasks : SettleExhausted(w, x) \/ ClaimTask(w, x)

CallStep(w) ==
  \/ Reject(w) \/ Resolve(w) \/ BeginDeliveryAttempt(w)
  \/ CreateDeliveryCredentials(w) \/ CheckDeliveryLiveness(w)
  \/ ProbeForReclaim(w) \/ RefreshDeliveryCredentials(w)
  \/ Relogin(w) \/ ConfirmRelogin(w)

FinishStep(w) ==
  \/ RecordDeliveryLeaseLost(w) \/ FinishRefused(w)
  \/ FinishDeliveryAttempt(w) \/ FinishDeliveryProbe(w)
  \/ PublishReclaim(w) \/ FinishReclaim(w)

\* Everything RunOnce does by itself.
RunOnce(w) == TickStep(w) \/ CallStep(w) \/ FinishStep(w) \/ LeaseLost(w)

OwnerStep ==
  \/ \E r \in Rounds : EnqueueDeliveryProbes(r)
  \/ \E g \in Grants : AuthorizeDeliveryReclaim(g)
  \/ ActivateMembershipCard \/ RevokeDeliveryCard
  \/ ServiceMoves \/ ServiceEnds

CustomerStep ==
  \/ \E c \in Checks : CheckCredentialStatus(c)
  \/ \E k \in Requests : RequestReclaim(k)
  \/ ClaimOrder \/ BeginRestore \/ RestoreOrder \/ BeginReclaimRequest
  \/ BeginDownload \/ ServeDownload \/ CustomerLeaves

Next ==
  \/ \E w \in Workers : RunOnce(w) \/ Abandon(w)
  \/ OwnerStep
  \/ CustomerStep
  \/ \E x \in Tasks : LeaseExpires(x)
  \/ \E v \in Generations : TokenExpires(v)

Spec == Init /\ [][Next]_vars

\* Workers are ticked every second, database time passes and requests end.  The
\* Owner, the customer's wishes, crashes and the platform owe nothing.
Fairness ==
  /\ \A w \in Workers : WF_vars(RunOnce(w))
  /\ \A x \in Tasks : WF_vars(LeaseExpires(x))
  /\ WF_vars(CustomerLeaves)

FairSpec == Spec /\ Fairness

-----------------------------------------------------------------------------
(* Properties *)

\* oauth.go:596-612: whoever replaces the delivered version moves the order of
\* the customer with it, whatever leases are lost meanwhile: an order never names
\* a version that is not the asset's.
OrderFollowsAsset == order # 0 => order = asset.version

\* oauth.go:333, 582, 723: an attempt that is still running is the one the fence
\* of the asset names, so that no result is refused because of a newer execution.
RunningIsCurrent ==
  \A x \in Tasks : attempt[x].state = "running" =>
    asset.attempt = x /\ asset.generation = attempt[x].generation

\* delivery_http.go:399-408: no access token survives the revocation of its card,
\* and none is issued afterwards by a restore that had read the card before.
RevokedIsClosed == card = "revoked" => tokens = {}

\* public_redeem_http.go:373-400: a payload read while a reclaim replaces it is
\* not handed out: what is served is the version of the asset and of the order at
\* that moment, under an active card.
DownloadIsCurrent ==
  [][customer.pc = "download" /\ customer'.pc = "served" =>
       /\ card = "active"
       /\ customer.version = asset.version
       /\ customer.version = order]_vars

\* removal.go:407-415: once the service has ended no worker that is still on its
\* way, no late commit and no request changes the delivery any more.
EndedIsQuiet ==
  [][service = "ended" => /\ service' = "ended"
                          /\ UNCHANGED <<asset, attempt, task, order>>]_vars

\* task.go:186-200, 455-462: whatever crashes, every task ends once nobody asks for
\* more, except one that an inconclusive answer to its last attempt left waiting
\* for a retry it does not have.
Settled(x) ==
  \/ task[x].status \notin Unfinished
  \/ task[x].status = "retry_wait" /\ task[x].attempts = MaxAttempts

DeliverySettles == <>[](\A x \in Tasks : Settled(x))

\* oauth.go:275-276: each round schedules a probe of the current asset, so an
\* asset whose tasks are over can be probed by a later round.  Refuted: an attempt
\* whose worker stopped stays running for good.
LaterRoundsProbe ==
  /\ Active
  /\ asset.version # 0
  /\ \A x \in Tasks : task[x].status \notin Unfinished
  => /\ asset.status \in {"ready", "unavailable"}
     /\ \A x \in Tasks : attempt[x].state # "running"
=============================================================================
