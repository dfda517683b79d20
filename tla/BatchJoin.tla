------------------------------ MODULE BatchJoin ------------------------------
(***************************************************************************)
(* One confirmed join operation of a batch: the leased tasks of            *)
(* internal/task/task.go, the join worker of join_worker.go and the        *)
(* transactions of join.go.                                                *)
(*                                                                         *)
(* Workers (processes ticking RunOnce) claim a task under a lease, probe   *)
(* the account, commit a marker before each of the two POSTs, read the     *)
(* members and commit the outcome.  What may have reached the platform is  *)
(* never replayed; a read-only reconciliation task looks for the member.   *)
(* Each transaction is one step.  A worker may stop after any of them, its *)
(* lease then expires and another worker takes over what it left.          *)
(***************************************************************************)
EXTENDS Naturals

CONSTANTS
  Targets,      \* tsw_operation_targets of the operation
  Workers,      \* worker processes
  OwnerKeys,    \* idempotency keys of Owner refreshes
  MaxAttempts,  \* max_attempts of join and join_reconcile tasks
  NoTask        \* task of an idle worker

ASSUME AttemptsAssumption == MaxAttempts \in Nat \ {0, 1}

\* Dedupe keys: "join:T", "join-reconcile:T", "join-reconcile-recovery:" and
\* "join-reconcile:T:key".
Kinds == {"join", "auto", "recovery"} \cup OwnerKeys
Tasks == Kinds \X Targets

ASSUME KeyAssumption ==
  NoTask \notin Tasks /\ OwnerKeys \cap {"join", "auto", "recovery"} = {}

VARIABLES
  op,         \* tsw_operations row: status and Workspace mutation lease
  batch,      \* status of the batch
  target,     \* tsw_operation_targets rows
  confirmed,  \* targets with a membership, its asset and its generation task
  task,       \* tsw_tasks rows
  worker,     \* workers in progress
  member,     \* targets really in the Workspace
  inflight,   \* POSTs the platform has not handled yet
  posts       \* history: POSTs sent for a target, by stage

vars == <<op, batch, target, confirmed, task, worker, member, inflight, posts>>

-----------------------------------------------------------------------------
(* Rows *)

Stages == {"request_join", "accept_join"}
Settled == {"succeeded", "failed", "blocked", "unknown"}

TargetRow == [status : {"queued", "running"} \cup Settled, reached : BOOLEAN]

\* attempts names the lease token too: both are renewed by each claim.
TaskRow == [status : {"none", "queued", "running", "retry_wait",
                      "succeeded", "failed", "interrupted"},
            lease : {"none", "live", "expired"}, attempts : 0..MaxAttempts]
NewTask == [status |-> "queued", lease |-> "none", attempts |-> 0]
Absent == [NewTask EXCEPT !.status = "none"]

OpRow == [status : {"none", "queued", "running", "succeeded", "failed", "blocked"},
          holder : Tasks \cup {NoTask}, token : 0..MaxAttempts, live : BOOLEAN]

\* Position in runJoin or runJoinReconcile, with the outcome about to be
\* committed and whether it asks for a reconciliation.
Work == [pc : {"idle", "begin", "admit", "mark_request", "request_join",
               "await_request", "admit_accept", "mark_accept", "accept_join",
               "await_accept", "verify", "finish", "reconciled"},
         task : Tasks \cup {NoTask}, token : 0..MaxAttempts,
         outcome : {"none", "incomplete", "present", "absent"} \cup Settled,
         reconcile : BOOLEAN]
Idle == [pc |-> "idle", task |-> NoTask, token |-> 0, outcome |-> "none",
         reconcile |-> FALSE]

\* Every row holds a value its CHECK constraints allow.
TypeOK ==
  /\ op \in OpRow
  /\ batch \in {"planned", "joining", "serving"}
  /\ target \in [Targets -> TargetRow]
  /\ confirmed \subseteq Targets
  /\ task \in [Tasks -> TaskRow]
  /\ worker \in [Workers -> Work]
  /\ member \subseteq Targets
  /\ inflight \subseteq Stages \X Targets
  /\ posts \in [Stages \X Targets -> Nat]

Init ==
  /\ op = [status |-> "none", holder |-> NoTask, token |-> 0, live |-> FALSE]
  /\ batch = "planned"
  /\ target = [t \in Targets |-> [status |-> "queued", reached |-> FALSE]]
  /\ confirmed = {}
  /\ task = [x \in Tasks |-> Absent]
  /\ worker = [w \in Workers |-> Idle]
  /\ member = {}
  /\ inflight = {}
  /\ posts = [p \in Stages \X Targets |-> 0]

-----------------------------------------------------------------------------
(* Conditions and updates shared by the transactions *)

IsJoin(x) == x[1] = "join"
Job(w) == worker[w].task
TargetOf(w) == Job(w)[2]

\* Mutant: the token is not compared with the running row.
AnyLease(w) == task[Job(w)].status # "none"

\* lockJoinTask: the task still runs under the token of this worker.
HoldsLease(w) ==
  /\ task[Job(w)].status = "running"
  /\ task[Job(w)].lease = "live"
  /\ task[Job(w)].attempts = worker[w].token

\* Mutant: unknown targets count as done.
OptimisticStatus(rows) ==
  LET statuses == {rows[t].status : t \in Targets} IN
  IF ~(statuses \subseteq Settled) THEN "running"
  ELSE IF "failed" \in statuses THEN "failed"
  ELSE IF "blocked" \in statuses THEN "blocked"
  ELSE "succeeded"

\* The status computed over all targets of the operation.
OperationStatus(rows) ==
  LET statuses == {rows[t].status : t \in Targets} IN
  IF ~(statuses \subseteq Settled) THEN "running"
  ELSE IF statuses \cap {"blocked", "unknown"} # {} THEN "blocked"
  ELSE IF "failed" \in statuses THEN "failed"
  ELSE "succeeded"

\* settleJoinAggregate.
SettleJoinAggregate(rows) ==
  batch' = IF OperationStatus(rows) = "succeeded" THEN "serving" ELSE "joining"

WithStatus(t, status) == [target EXCEPT ![t].status = status]

Ended(row, status) == [row EXCEPT !.status = status, !.lease = "none"]

\* INSERT INTO tsw_tasks ... ON CONFLICT keeps the row that is there.
Inserted(rows, x) ==
  IF rows[x].status = "none" THEN [rows EXCEPT ![x] = NewTask] ELSE rows

Cleared(row) == [row EXCEPT !.holder = NoTask, !.token = 0, !.live = FALSE]

At(w, pc) == worker[w].pc = pc
Goto(w, pc) == worker' = [worker EXCEPT ![w].pc = pc]

\* Mutant: an exit lost between the POSTs counts as lost before the request.
HastyStages == {"egress_admission", "before_join_request", "before_accept"}

\* FinishJoin queues no reconciliation for these stages.
QuietStages == {"egress_admission", "before_join_request"}

NeedsReconciliation(status, stage) ==
  status \in {"blocked", "unknown"} /\ stage \notin QuietStages

\* The worker has decided; FinishJoin commits it.
Conclude(w, status, stage) ==
  worker' = [worker EXCEPT ![w] =
               [@ EXCEPT !.pc = "finish", !.outcome = status,
                         !.reconcile = NeedsReconciliation(status, stage)]]

-----------------------------------------------------------------------------
(* The Owner *)

\* joinPreview: a planned batch.  What else blocks it is of the moment and may hold
\* or not: an operational Workspace, current evidence, a complete snapshot, enough
\* seats, and targets in use with complete materials.
CanProceed == batch = "planned"

\* createJoinOperation: one queued target and one join task per planned target;
\* one operation at a time is active in a Workspace.
CreateJoinOperation ==
  /\ CanProceed
  /\ op.status = "none"
  /\ op' = [op EXCEPT !.status = "queued"]
  /\ batch' = "joining"
  /\ task' = [x \in Tasks |-> IF IsJoin(x) THEN NewTask ELSE task[x]]
  /\ UNCHANGED <<target, confirmed, worker, member, inflight, posts>>

\* EnqueueJoinReconciliation: one unresolved target of a blocked operation.
EnqueueJoinReconciliation(k, t) ==
  /\ op.status = "blocked"
  /\ target[t].status \in {"blocked", "unknown"}
  /\ task[<<k, t>>].status = "none"
  /\ task' = Inserted(task, <<k, t>>)
  /\ UNCHANGED <<op, batch, target, confirmed, worker, member, inflight, posts>>

-----------------------------------------------------------------------------
(* One tick of a worker *)

RecoveredTasks(rows, t) ==
  Inserted([rows EXCEPT ![<<"join", t>>] = Ended(@, "interrupted")],
           <<"recovery", t>>)

\* RecoverExpiredJoin: an expired join becomes a read-only reconciliation.
RecoverExpiredJoin(w, t) ==
  LET x == <<"join", t>> rows == WithStatus(t, "unknown") IN
  /\ At(w, "idle")
  /\ task[x].status = "running" /\ task[x].lease = "expired"
  /\ task' = RecoveredTasks(task, t)
  /\ target' = rows
  /\ op' = [(IF op.holder = x THEN Cleared(op) ELSE op)
              EXCEPT !.status = OperationStatus(rows)]
  /\ SettleJoinAggregate(rows)
  /\ UNCHANGED <<confirmed, worker, member, inflight, posts>>

\* SettleExhausted: a task whose last attempt expired is interrupted and its
\* target is unknown.
SettleExhausted(w, x) ==
  LET rows == WithStatus(x[2], "unknown") IN
  /\ At(w, "idle")
  /\ task[x].status = "running" /\ task[x].lease = "expired"
  /\ task[x].attempts >= MaxAttempts
  /\ task' = [task EXCEPT ![x] = Ended(@, "interrupted")]
  /\ target' = rows
  /\ op' = [op EXCEPT !.status = OperationStatus(rows)]
  /\ SettleJoinAggregate(rows)
  /\ UNCHANGED <<confirmed, worker, member, inflight, posts>>

\* The candidate of claim and claimRejected: an expired join is never claimed.
Claimable(x) ==
  /\ task[x].attempts < MaxAttempts
  /\ \/ task[x].status \in {"queued", "retry_wait"}
     \/ task[x].status = "running" /\ task[x].lease = "expired" /\ ~IsJoin(x)

Claimed(x) == [task EXCEPT ![x] = [status |-> "running", lease |-> "live",
                                   attempts |-> @.attempts + 1]]

ClaimedWork(x, pc, outcome, reconcile) ==
  [pc |-> pc, task |-> x, token |-> task[x].attempts + 1,
   outcome |-> outcome, reconcile |-> reconcile]

\* ClaimJoin and ClaimJoinReconcile.
ClaimTask(w, x) ==
  /\ At(w, "idle")
  /\ Claimable(x)
  /\ task' = Claimed(x)
  /\ worker' = [worker EXCEPT ![w] = ClaimedWork(x, "begin", "none", FALSE)]
  /\ UNCHANGED <<op, batch, target, confirmed, member, inflight, posts>>

\* rejectForEgress: no exit could be leased, the task is claimed to be closed
\* or retried without any remote request.
ClaimRejected(w, x) ==
  /\ At(w, "idle")
  /\ Claimable(x)
  /\ task' = Claimed(x)
  /\ LET reached == target[x[2]].reached
         work == IF ~IsJoin(x)
                 THEN ClaimedWork(x, "reconciled", "incomplete", FALSE)
                 ELSE ClaimedWork(x, "finish",
                                  IF reached THEN "unknown" ELSE "blocked", reached)
     IN worker' = [worker EXCEPT ![w] = work]
  /\ UNCHANGED <<op, batch, target, confirmed, member, inflight, posts>>

-----------------------------------------------------------------------------
(* runJoin *)

\* The join of this worker starts from the beginning: no marker was committed.
Fresh(w) == IsJoin(Job(w)) /\ ~target[TargetOf(w)].reached

LocalStep == UNCHANGED <<op, batch, target, confirmed, task, member, inflight, posts>>

\* The account or the adapter is not usable.
PrepareFails(w) ==
  /\ At(w, "begin") /\ Fresh(w)
  /\ Conclude(w, "failed", "credential_resolution")
  /\ LocalStep

\* RecordJoinPreflight after ProbeTarget, and the decision on its result.
RecordJoinPreflight(w) ==
  /\ At(w, "begin") /\ Fresh(w)
  /\ HoldsLease(w)
  /\ target' = WithStatus(TargetOf(w), "running")
  /\ \/ Goto(w, "admit")
     \/ \E status \in {"failed", "blocked"} : Conclude(w, status, "preflight")
  /\ UNCHANGED <<op, batch, confirmed, task, member, inflight, posts>>

\* Remeasure, Renew and the adapter before the request.
AdmitJoin(w) ==
  /\ At(w, "admit")
  /\ \/ Conclude(w, "blocked", "before_join_request")
     \/ HoldsLease(w) /\ Conclude(w, "failed", "join_prepare")
     \/ HoldsLease(w) /\ Goto(w, "mark_request")
  /\ LocalStep

\* Mutant: the Workspace lease of another task is ignored.
MutationUnfenced(w) == HoldsLease(w)

\* The operation has no other live holder of the Workspace mutation lease.
MutationFree(w) ==
  \/ op.holder = NoTask
  \/ ~op.live
  \/ op.holder = Job(w) /\ op.token = worker[w].token

\* MarkJoinSideEffectStarted, before either POST.
MarkJoinSideEffectStarted(w) ==
  /\ worker[w].pc \in {"mark_request", "mark_accept"}
  /\ HoldsLease(w)
  /\ MutationFree(w)
  /\ op' = [op EXCEPT !.holder = Job(w), !.token = worker[w].token, !.live = TRUE]
  /\ target' = [target EXCEPT ![TargetOf(w)] =
                  [status |-> "running", reached |-> TRUE]]
  /\ Goto(w, IF At(w, "mark_request") THEN "request_join" ELSE "accept_join")
  /\ UNCHANGED <<batch, confirmed, task, member, inflight, posts>>

\* RequestJoin or AcceptJoin puts its POST on the wire.
SendPost(w) ==
  LET p == <<worker[w].pc, TargetOf(w)>> IN
  /\ worker[w].pc \in Stages
  /\ inflight' = inflight \cup {p}
  /\ posts' = [posts EXCEPT ![p] = @ + 1]
  /\ Goto(w, IF At(w, "request_join") THEN "await_request" ELSE "await_accept")
  /\ UNCHANGED <<op, batch, target, confirmed, task, member>>

\* Mutant: a request without an answer is repeated.
RequestRepeated(w) ==
  At(w, "await_request") /\ Goto(w, "request_join") /\ LocalStep

\* Mutant: a request without an answer counts as refused.
RequestGivenUp(w) ==
  /\ At(w, "await_request")
  /\ Conclude(w, "failed", "join_request")
  /\ LocalStep

\* No answer, or one that leaves the effect open: the POST may be applied later.
RequestUncertain(w) ==
  /\ At(w, "await_request")
  /\ Conclude(w, "unknown", "join_request")
  /\ LocalStep

\* The platform refused (requestMayHaveSideEffect is false).
RequestRefused(w) ==
  LET p == <<"request_join", TargetOf(w)>> IN
  /\ At(w, "await_request") /\ p \in inflight
  /\ inflight' = inflight \ {p}
  /\ Conclude(w, "failed", "join_request")
  /\ UNCHANGED <<op, batch, target, confirmed, task, member, posts>>

\* 2xx; the effect may still be under way.
RequestAccepted(w) == At(w, "await_request") /\ Goto(w, "admit_accept") /\ LocalStep

\* Remeasure and Renew between the POSTs.
AdmitAccept(w) ==
  /\ At(w, "admit_accept")
  /\ \/ Conclude(w, "unknown", "before_accept")
     \/ HoldsLease(w) /\ Goto(w, "mark_accept")
  /\ LocalStep

\* Every answer to the second POST that is not a success stays unknown.
AcceptUncertain(w) ==
  /\ At(w, "await_accept")
  /\ Conclude(w, "unknown", "join_accept")
  /\ LocalStep

AcceptSucceeds(w) == At(w, "await_accept") /\ Goto(w, "verify") /\ LocalStep

\* Remeasure, Renew, VerifyMembership and Remeasure: only a complete list that
\* shows the member is a success.
VerifyMembership(w) ==
  /\ At(w, "verify")
  /\ \/ Conclude(w, "unknown", "membership_verify")
     \/ /\ HoldsLease(w)
        /\ TargetOf(w) \in member
        /\ Conclude(w, "succeeded", "membership_verify")
  /\ LocalStep

\* FinishJoin.
FinishJoin(w) ==
  LET t == TargetOf(w)
      rows == WithStatus(t, worker[w].outcome)
      ended == [task EXCEPT ![Job(w)] = Ended(@, "succeeded")]
  IN
  /\ At(w, "finish")
  /\ HoldsLease(w)
  /\ target' = rows
  /\ IF worker[w].outcome # "succeeded"
     THEN batch' = "joining" /\ UNCHANGED confirmed
     ELSE /\ confirmed' = confirmed \cup {t}
          /\ batch' = IF OperationStatus(rows) = "succeeded" THEN "serving"
                                                             ELSE batch
  /\ op' = [(IF op.holder = Job(w) /\ op.token = worker[w].token
             THEN Cleared(op) ELSE op) EXCEPT !.status = OperationStatus(rows)]
  /\ task' = IF worker[w].reconcile THEN Inserted(ended, <<"auto", t>>) ELSE ended
  /\ worker' = [worker EXCEPT ![w] = Idle]
  /\ UNCHANGED <<member, inflight, posts>>

-----------------------------------------------------------------------------
(* runJoinReconcile *)

\* VerifyMembership of the adapter: an error or an incomplete list, or one that
\* shows who is there now.
MembershipResults(w) ==
  {"incomplete", IF TargetOf(w) \in member THEN "present" ELSE "absent"}

\* VerifyMembership between two Remeasures.
ObserveMembership(w) ==
  /\ At(w, "begin") /\ ~Fresh(w)
  /\ \E seen \in MembershipResults(w) :
       worker' = [worker EXCEPT ![w] = [@ EXCEPT !.pc = "reconciled", !.outcome = seen]]
  /\ LocalStep

\* Mutant: an incomplete list always waits for another attempt.
AlwaysRetry(w) ==
  IF worker[w].outcome = "incomplete" THEN "retry_wait" ELSE "succeeded"

\* The state of the reconciliation task after this attempt.
ReconcileStatus(w) ==
  IF worker[w].outcome # "incomplete" THEN "succeeded"
  ELSE IF worker[w].token >= MaxAttempts THEN "failed"
  ELSE "retry_wait"

\* FinishJoinReconciliation: absence is not permission to replay the join.
FinishJoinReconciliation(w) ==
  LET t == TargetOf(w)
      present == worker[w].outcome = "present"
      rows == WithStatus(t, IF present THEN "succeeded" ELSE "unknown")
  IN
  /\ At(w, "reconciled")
  /\ HoldsLease(w)
  /\ target' = rows
  /\ confirmed' = IF present THEN confirmed \cup {t} ELSE confirmed
  /\ op' = [op EXCEPT !.status = OperationStatus(rows)]
  /\ SettleJoinAggregate(rows)
  /\ task' = [task EXCEPT ![Job(w)] = Ended(@, ReconcileStatus(w))]
  /\ worker' = [worker EXCEPT ![w] = Idle]
  /\ UNCHANGED <<member, inflight, posts>>

\* A transaction found its lease gone, any other error return, or a crash.
Abandon(w) ==
  /\ ~At(w, "idle")
  /\ worker' = [worker EXCEPT ![w] = Idle]
  /\ LocalStep

\* The lease of a transaction the worker wants is gone, or the Workspace is
\* held by another task: the worker returns the error.
LeaseLost(w) ==
  /\ ~At(w, "idle")
  /\ \/ ~HoldsLease(w)
     \/ worker[w].pc \in {"mark_request", "mark_accept"} /\ ~MutationFree(w)
  /\ Abandon(w)

-----------------------------------------------------------------------------
(* Clocks and the platform *)

LeaseExpires(x) ==
  /\ task[x].status = "running" /\ task[x].lease = "live"
  /\ task' = [task EXCEPT ![x].lease = "expired"]
  /\ UNCHANGED <<op, batch, target, confirmed, worker, member, inflight, posts>>

\* Ten minutes against task leases of thirty seconds, renewed twice after the
\* marker: the mutation lease outlives the task lease of its holder.
MutationLeaseExpires ==
  /\ op.live
  /\ ~(/\ task[op.holder].status = "running"
       /\ task[op.holder].lease = "live"
       /\ task[op.holder].attempts = op.token)
  /\ op' = [op EXCEPT !.live = FALSE]
  /\ UNCHANGED <<batch, target, confirmed, task, worker, member, inflight, posts>>

\* The platform handles a POST, at once or long after its answer was lost.
\* Accepting makes a member; the request alone may do so too.
PlatformApplies(p) ==
  /\ p \in inflight
  /\ inflight' = inflight \ {p}
  /\ \/ member' = member \cup {p[2]}
     \/ p[1] = "request_join" /\ UNCHANGED member
  /\ UNCHANGED <<op, batch, target, confirmed, task, worker, posts>>

PlatformDrops(p) ==
  /\ p \in inflight
  /\ inflight' = inflight \ {p}
  /\ UNCHANGED <<op, batch, target, confirmed, task, worker, member, posts>>

-----------------------------------------------------------------------------
(* Specification *)

TickStep(w) ==
  \/ \E t \in Targets : RecoverExpiredJoin(w, t)
  \/ \E x \in Tasks : SettleExhausted(w, x) \/ ClaimTask(w, x) \/ ClaimRejected(w, x)

JoinStep(w) ==
  \/ PrepareFails(w) \/ RecordJoinPreflight(w) \/ AdmitJoin(w)
  \/ MarkJoinSideEffectStarted(w) \/ SendPost(w)
  \/ RequestUncertain(w) \/ RequestRefused(w) \/ RequestAccepted(w)
  \/ AdmitAccept(w) \/ AcceptUncertain(w) \/ AcceptSucceeds(w)
  \/ VerifyMembership(w) \/ FinishJoin(w)

ReconcileStep(w) == ObserveMembership(w) \/ FinishJoinReconciliation(w)

\* Everything RunOnce does by itself.
RunOnce(w) == TickStep(w) \/ JoinStep(w) \/ ReconcileStep(w) \/ LeaseLost(w)

Next ==
  \/ CreateJoinOperation
  \/ \E k \in OwnerKeys, t \in Targets : EnqueueJoinReconciliation(k, t)
  \/ \E w \in Workers : RunOnce(w) \/ Abandon(w)
  \/ \E x \in Tasks : LeaseExpires(x)
  \/ MutationLeaseExpires
  \/ \E p \in Stages \X Targets : PlatformApplies(p) \/ PlatformDrops(p)

Spec == Init /\ [][Next]_vars

\* control.go ticks every worker once a second for as long as it lives, and
\* database time passes.  The Owner, crashes and the platform owe nothing.
Fairness ==
  /\ \A w \in Workers : WF_vars(RunOnce(w))
  /\ \A x \in Tasks : WF_vars(LeaseExpires(x))

FairSpec == Spec /\ Fairness

-----------------------------------------------------------------------------
(* Properties *)

\* join_worker.go:55: a crash after the marker must reconcile rather than
\* replay.  Whatever crashes, takeovers and reconciliations follow, each POST
\* is sent at most once for a target and never before its marker.
NeverReplayed ==
  \A p \in Stages \X Targets :
    /\ posts[p] <= 1
    /\ posts[p] > 0 => target[p[2]].reached

\* The same of the whole life of a POST, as OnceOnlyEffect states it: confirming
\* the operation reserves it, its marker is never taken back, and it is sent once at
\* most behind it.
PostEffect(p) == INSTANCE OnceOnlyEffect WITH
  reserved <- op.status # "none",
  marks <- IF target[p[2]].reached THEN 1 ELSE 0,
  sent <- posts[p]
PostsOnce ==
  /\ \A p \in Stages \X Targets : PostEffect(p)!Init
  /\ [][\A p \in Stages \X Targets : [PostEffect(p)!Next]_(PostEffect(p)!vars)]_vars

\* A target reported as failed may be planned again by the Owner: nothing that
\* was sent for it can have made, or can still make, a member.
FailedNeverJoins ==
  \A t \in Targets : target[t].status = "failed" =>
    /\ t \notin member
    /\ \A s \in Stages : <<s, t>> \notin inflight

\* A target whose POST may have reached the platform and whose join is over is
\* either answered or has been handed to a reconciliation.
UncertainIsReconciled ==
  \A t \in Targets :
    /\ \E s \in Stages : posts[<<s, t>>] > 0
    /\ task[<<"join", t>>].status \in {"succeeded", "failed", "interrupted"}
    /\ target[t].status \notin {"succeeded", "failed"}
    => \E k \in Kinds \ {"join"} : task[<<k, t>>].status # "none"

\* Between its marker and its outcome a join whose lease is valid has the
\* Workspace for itself (the mutation lease of migration 00006).
Mutating(w) ==
  /\ worker[w].pc \in {"request_join", "await_request", "admit_accept",
                       "mark_accept", "accept_join", "await_accept", "verify"}
  /\ HoldsLease(w)

OneMutator == \A w, v \in Workers : Mutating(w) /\ Mutating(v) => w = v

\* A batch serves only when every planned account was seen in the Workspace,
\* and a membership is recorded only for an account that was.
ServingIsJoined ==
  /\ batch = "serving" => \A t \in Targets : target[t].status = "succeeded"
  /\ \A t \in Targets : target[t].status = "succeeded" => t \in confirmed
  /\ confirmed \subseteq member

\* Late commits, recoveries and reconciliations never take back a success or a
\* failure.  One reconciliation per target keeps this: it is checked without
\* Owner refreshes, which create a second one beside the automatic task.
SettledStays ==
  [][\A t \in Targets : target[t].status \in {"succeeded", "failed"} =>
        target'[t].status = target[t].status]_vars

\* Whatever crashes, every task of the operation ends and the operation is then
\* settled: attempts are bounded, expired leases are taken over, and no task is
\* left waiting for an attempt it does not have.
Unfinished == \E x \in Tasks : task[x].status \in {"queued", "running", "retry_wait"}
JoinSettles ==
  Unfinished ~> ~Unfinished /\ op.status \in {"succeeded", "failed", "blocked"}
=============================================================================
