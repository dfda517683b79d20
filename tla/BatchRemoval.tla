----------------------------- MODULE BatchRemoval -----------------------------
(***************************************************************************)
(* The confirmed removal of a batch: the leased tasks of                   *)
(* internal/task/task.go, the removal worker of removal_worker.go and the  *)
(* transactions of removal.go.                                             *)
(*                                                                         *)
(* Unlike a join, a removal is retried: one durable task per target reads  *)
(* the members, commits a marker, sends the DELETE and reads the members   *)
(* again, up to a bound.  While a marker is uncertain an attempt may only  *)
(* read.  The target with ordinal 1, the canary, goes first.  The Owner may *)
(* ask for read-only reconciliations of a blocked operation; one that still *)
(* sees the member starts a second task for its target.                    *)
(***************************************************************************)
EXTENDS Naturals

CONSTANTS
  Targets,        \* tsw_operation_targets of the operation
  Canary,         \* the target with ordinal 1
  Workers,        \* worker processes
  OwnerKeys,      \* idempotency keys of Owner reconciliations
  NoKey,          \* key of the task the operation starts with
  MaxAttempts,    \* max_attempts of a remove task
  MaxReads,       \* max_attempts of a remove_reconcile task
  MaxRemovals,    \* maximumRemovalSideEffects
  NextBatches,    \* batches the Owner may start in the Workspace afterwards
  NoTask          \* task of an idle worker

ASSUME BoundsAssumption ==
  /\ MaxAttempts \in Nat \ {0}
  /\ MaxReads \in Nat \ {0}
  /\ MaxRemovals \in Nat \ {0}

ASSUME CanaryAssumption == Canary \in Targets

\* Dedupe keys: "remove:T", "remove-reconcile:T:key" and, for the task a
\* reconciliation starts, "remove-resume:T:" with the task it comes from.
Tasks == ({"remove"} \X {NoKey} \X Targets)
           \cup ({"reconcile", "resume"} \X OwnerKeys \X Targets)

ASSUME TaskAssumption == NoTask \notin Tasks /\ NoKey \notin OwnerKeys

VARIABLES
  op,       \* tsw_operations row: status and Workspace mutation lease
  batch,    \* status of the batch
  next,     \* batches started in the Workspace after this one, by state
  target,   \* tsw_operation_targets rows
  removed,  \* targets whose membership is removed
  task,     \* tsw_tasks rows
  worker,   \* workers in progress
  member,   \* targets really in the Workspace
  deletes   \* by target: DELETEs sent, and those not handled yet

vars == <<op, batch, next, target, removed, task, worker, member, deletes>>

-----------------------------------------------------------------------------
(* Rows *)

\* count is remove_attempt_count, reached platform_request_may_have_reached.
TargetRow == [status : {"queued", "running", "succeeded", "blocked", "unknown"},
              reached : BOOLEAN, count : 0..MaxRemovals]

AttemptBound == IF MaxAttempts > MaxReads THEN MaxAttempts ELSE MaxReads

\* attempts names the lease token too: both are renewed by each claim.
TaskRow == [status : {"none", "queued", "running", "retry_wait",
                      "succeeded", "failed", "interrupted"},
            lease : {"none", "live", "expired"}, attempts : 0..AttemptBound]
NewTask == [status |-> "queued", lease |-> "none", attempts |-> 0]
Absent == [NewTask EXCEPT !.status = "none"]

\* A lease that expired is the same as none.
OpRow == [status : {"none", "queued", "running", "succeeded", "blocked"},
          holder : Tasks \cup {NoTask}, token : 0..AttemptBound]

\* Position in runRemoval, what RemovalTarget read of the row, and the outcome
\* about to be committed.
Work == [pc : {"idle", "read", "snapshot", "mark", "delete", "await", "verify",
               "finish"},
         task : Tasks \cup {NoTask}, token : 0..AttemptBound,
         readOnly : BOOLEAN, spent : BOOLEAN,
         outcome : {"none", "uncertain", "rejected", "confirmed", "present",
                    "queued", "unknown", "blocked"}]
Idle == [pc |-> "idle", task |-> NoTask, token |-> 0, readOnly |-> FALSE,
         spent |-> FALSE, outcome |-> "none"]

Deletes == [sent : Nat, waiting : Nat]

\* Every row holds a value its CHECK constraints allow.
TypeOK ==
  /\ op \in OpRow
  /\ batch \in {"serving", "removing", "ended"}
  /\ next \in [NextBatches -> {"planned", "working", "serving", "over"}]
  /\ target \in [Targets -> TargetRow]
  /\ removed \subseteq Targets
  /\ task \in [Tasks -> TaskRow]
  /\ worker \in [Workers -> Work]
  /\ member \subseteq Targets
  /\ deletes \in [Targets -> Deletes]

Init ==
  /\ op = [status |-> "none", holder |-> NoTask, token |-> 0]
  /\ batch = "serving"
  /\ next = [b \in NextBatches |-> "planned"]
  /\ target = [t \in Targets |-> [status |-> "queued", reached |-> FALSE, count |-> 0]]
  /\ removed = {}
  /\ task = [x \in Tasks |-> Absent]
  /\ worker = [w \in Workers |-> Idle]
  /\ member \in SUBSET Targets
  /\ deletes = [t \in Targets |-> [sent |-> 0, waiting |-> 0]]

-----------------------------------------------------------------------------
(* Conditions and updates shared by the transactions *)

IsRemove(x) == x[1] # "reconcile"
TargetOf(x) == x[3]
Job(w) == worker[w].task
Subject(w) == TargetOf(Job(w))
Limit(x) == IF IsRemove(x) THEN MaxAttempts ELSE MaxReads

\* Mutant: the token is not compared with the running row.
AnyLease(w) == task[Job(w)].status # "none"

\* lockRemovalTask: the task still runs under the token of this worker.
HoldsLease(w) ==
  /\ task[Job(w)].status = "running"
  /\ task[Job(w)].lease = "live"
  /\ task[Job(w)].attempts = worker[w].token

\* Mutant: a canary that failed lets the other targets go too.
CanaryTried(t) == t = Canary \/ target[Canary].status \notin {"queued", "running"}

\* The canary is confirmed before a marker of any other target.
CanaryPassed(t) == t = Canary \/ target[Canary].status = "succeeded"

\* Mutant: an unknown target still counts as running.
HopefulStatus(rows) ==
  LET statuses == {rows[t].status : t \in Targets} IN
  IF statuses = {"succeeded"} THEN "succeeded"
  ELSE IF "blocked" \in statuses THEN "blocked"
  ELSE "running"

\* The status computed over all targets of the operation.
OperationStatus(rows) ==
  LET statuses == {rows[t].status : t \in Targets} IN
  IF statuses = {"succeeded"} THEN "succeeded"
  ELSE IF statuses \cap {"blocked", "unknown"} # {} THEN "blocked"
  ELSE "running"

\* Another batch is active in the Workspace; its operation is active too.
NextIsActive == \E b \in NextBatches : next[b] \in {"working", "serving"}
NextIsWorking == \E b \in NextBatches : next[b] = "working"

\* settleRemovalAggregate over the new rows and memberships.  A batch that is
\* removing again violates tsw_batches_active_binding_uq while another batch is
\* active in the Workspace, and the transaction fails.
SettleRemovalAggregate(rows, gone) ==
  LET over == OperationStatus(rows) = "succeeded" /\ gone = Targets IN
  /\ ~over => ~NextIsActive
  /\ target' = rows
  /\ removed' = gone
  /\ batch' = IF over THEN "ended" ELSE "removing"

WithStatus(t, status) == [target EXCEPT ![t].status = status]

\* Mutant: clearing the marker clears its count too.
UnmarkedAfresh(t, status) ==
  [target EXCEPT ![t] = [status |-> status, reached |-> FALSE, count |-> 0]]

\* The marker of the target is cleared with its new status.
Unmarked(t, status) ==
  [target EXCEPT ![t] = [@ EXCEPT !.status = status, !.reached = FALSE]]

Ended(row, status) == [row EXCEPT !.status = status, !.lease = "none"]

Cleared(row) == [row EXCEPT !.holder = NoTask, !.token = 0]

\* The mutation lease is this worker's own.
OwnMutation(w) == op.holder = Job(w) /\ op.token = worker[w].token

\* releaseRemovalOperationLease with the status of the new rows.
ReleasedOp(w, rows) ==
  [(IF OwnMutation(w) THEN Cleared(op) ELSE op) EXCEPT !.status = OperationStatus(rows)]

At(w, pc) == worker[w].pc = pc
Goto(w, pc) == worker' = [worker EXCEPT ![w].pc = pc]

\* The worker has decided; a Finish transaction commits it.
Conclude(w, outcome) ==
  worker' = [worker EXCEPT ![w] = [@ EXCEPT !.pc = "finish", !.outcome = outcome]]

-----------------------------------------------------------------------------
(* The Owner *)

\* removalPreview: a serving batch.  What else blocks it is of the moment and may
\* hold or not: the planned time, an operational Workspace, an exact and current
\* snapshot with its Owner, every target in it at most once and no Owner itself.
CanProceed == batch = "serving"

\* createRemovalOperation: one queued target and one remove task for each
\* membership.  Asked again with its key it answers with the operation there is.
CreateRemovalOperation ==
  /\ CanProceed
  /\ op' = [op EXCEPT !.status = "queued"]
  /\ batch' = "removing"
  /\ task' = [x \in Tasks |-> IF x[1] = "remove" THEN NewTask ELSE task[x]]
  /\ UNCHANGED <<next, target, removed, worker, member, deletes>>

\* EnqueueRemovalReconciliation: every unresolved target of a blocked operation.
EnqueueRemovalReconciliation(k) ==
  LET new == {x \in Tasks : /\ x[1] = "reconcile" /\ x[2] = k
                            /\ target[TargetOf(x)].status \in {"blocked", "unknown"}
                            /\ task[x].status = "none"}
  IN
  /\ op.status = "blocked"
  /\ new # {}
  /\ task' = [x \in Tasks |-> IF x \in new THEN NewTask ELSE task[x]]
  /\ UNCHANGED <<op, batch, next, target, removed, worker, member, deletes>>

\* Another batch starts to join once nothing is active in the Workspace, and is
\* removed once its join is over.
StartNextBatch(b) ==
  /\ \/ next[b] = "planned" /\ ~NextIsActive
     \/ next[b] = "serving"
  /\ op.status = "succeeded" /\ batch = "ended"
  /\ next' = [next EXCEPT ![b] = "working"]
  /\ UNCHANGED <<op, batch, target, removed, task, worker, member, deletes>>

-----------------------------------------------------------------------------
(* One tick of a worker *)

Expired(x) == task[x].status = "running" /\ task[x].lease = "expired"

\* A task a tick settles before it claims anything.
NeedsRecovery(x) == Expired(x) /\ (IsRemove(x) \/ task[x].attempts >= Limit(x))

\* Every tick returns with the error of that transaction.
RecoveryFails == NextIsActive /\ \E x \in Tasks : NeedsRecovery(x)

\* The target of an expired remove task: facts first if a DELETE may have left.
RecoveredRow(x) ==
  LET t == TargetOf(x) IN
  IF task[x].attempts >= MaxAttempts THEN WithStatus(t, "blocked")
  ELSE IF target[t].reached THEN WithStatus(t, "unknown")
  ELSE WithStatus(t, "queued")

\* RecoverExpiredRemoval: the same task is retried as long as it has attempts.
RecoverExpiredRemoval(w, x) ==
  /\ At(w, "idle")
  /\ Expired(x) /\ IsRemove(x)
  /\ task' = [task EXCEPT ![x] =
                Ended(@, IF @.attempts >= MaxAttempts THEN "interrupted" ELSE "retry_wait")]
  /\ op' = [(IF op.holder = x THEN Cleared(op) ELSE op)
              EXCEPT !.status = OperationStatus(RecoveredRow(x))]
  /\ SettleRemovalAggregate(RecoveredRow(x), removed)
  /\ UNCHANGED <<next, worker, member, deletes>>

\* SettleExhausted: a task whose last attempt expired is interrupted and its
\* target is blocked.
SettleExhausted(w, x) ==
  LET rows == WithStatus(TargetOf(x), "blocked") IN
  /\ At(w, "idle")
  /\ Expired(x) /\ task[x].attempts >= Limit(x)
  /\ task' = [task EXCEPT ![x] = Ended(@, "interrupted")]
  /\ op' = [op EXCEPT !.status = OperationStatus(rows)]
  /\ SettleRemovalAggregate(rows, removed)
  /\ UNCHANGED <<next, worker, member, deletes>>

\* The candidate of claim and claimRejected: an expired remove task is never
\* claimed, and only the canary or a reconciliation goes before the canary.
Claimable(x) ==
  /\ task[x].attempts < Limit(x)
  /\ IsRemove(x) => CanaryPassed(TargetOf(x))
  /\ \/ task[x].status \in {"queued", "retry_wait"}
     \/ Expired(x) /\ ~IsRemove(x)

Claimed(x) == [task EXCEPT ![x] = [status |-> "running", lease |-> "live",
                                   attempts |-> @.attempts + 1]]

ClaimedWork(x, pc, outcome) ==
  [Idle EXCEPT !.pc = pc, !.task = x, !.token = task[x].attempts + 1,
               !.outcome = outcome]

\* ClaimRemoval and ClaimRemovalReconciliation.
ClaimTask(w, x) ==
  /\ At(w, "idle")
  /\ ~RecoveryFails
  /\ Claimable(x)
  /\ task' = Claimed(x)
  /\ worker' = [worker EXCEPT ![w] = ClaimedWork(x, "read", "none")]
  /\ UNCHANGED <<op, batch, next, target, removed, member, deletes>>

\* rejectForEgress: no exit could be leased, the attempt ends as unknown.
ClaimRejected(w, x) ==
  /\ At(w, "idle")
  /\ ~RecoveryFails
  /\ Claimable(x)
  /\ task' = Claimed(x)
  /\ worker' = [worker EXCEPT ![w] = ClaimedWork(x, "finish", "unknown")]
  /\ UNCHANGED <<op, batch, next, target, removed, member, deletes>>

\* The join or the removal of the next batch ends: its tasks are claimed by
\* these ticks.
NextBatchSettles(b) ==
  /\ next[b] = "working" /\ ~RecoveryFails
  /\ next' \in {[next EXCEPT ![b] = "serving"], [next EXCEPT ![b] = "over"]}
  /\ UNCHANGED <<op, batch, target, removed, task, worker, member, deletes>>

-----------------------------------------------------------------------------
(* runRemoval *)

LocalStep == UNCHANGED <<op, batch, next, target, removed, task, member, deletes>>

\* Mutant: only a reconciliation task is read-only.
ReadsBoldly(w) == ~IsRemove(Job(w))

\* An earlier DELETE may have reached the platform, or the task only reads.
ReadsOnly(w) == target[Subject(w)].reached \/ ~IsRemove(Job(w))

\* RemovalTarget: the row is read once, after the claim.
ReadTarget(w) ==
  /\ At(w, "read")
  /\ worker' = [worker EXCEPT ![w] =
                  [@ EXCEPT !.pc = "snapshot", !.readOnly = ReadsOnly(w),
                            !.spent = target[Subject(w)].count >= MaxRemovals]]
  /\ LocalStep

\* resolveRemovalTarget in an exact snapshot that has the Owner and every target
\* of the manifest at most once.
Resolved(w) == IF Subject(w) \in member THEN "present" ELSE "absent"

\* SnapshotMembers, resolveRemovalTarget and Remeasure: an incomplete list, an
\* ambiguous one or one without the Owner, a drifted exit, or who is there now.
SnapshotMembers(w) ==
  /\ At(w, "snapshot")
  /\ \/ Conclude(w, IF worker[w].readOnly THEN "unknown" ELSE "queued")
     \/ Conclude(w, "blocked")
     \/ Conclude(w, "unknown")
     \/ Resolved(w) = "absent" /\ Conclude(w, "confirmed")
     \/ /\ Resolved(w) = "present"
        /\ IF worker[w].readOnly THEN Conclude(w, "present")
           ELSE IF worker[w].spent THEN Conclude(w, "blocked")
           ELSE Goto(w, "mark")
  /\ LocalStep

\* Mutant: the Workspace lease of another task is ignored.
MutationUnfenced(w) == HoldsLease(w)

\* The operation has no other live holder of the Workspace mutation lease.
MutationFree(w) == op.holder = NoTask \/ OwnMutation(w)

MarkAllowed(w) ==
  /\ CanaryPassed(Subject(w))
  /\ target[Subject(w)].count < MaxRemovals
  /\ MutationFree(w)

\* MarkRemovalSideEffectStarted, before the DELETE.  It does not read the
\* marker again.  An operation that is active again violates
\* tsw_operations_workspace_active_uq while that of another batch is.
MarkRemovalSideEffectStarted(w) ==
  /\ At(w, "mark")
  /\ HoldsLease(w)
  /\ MarkAllowed(w)
  /\ ~NextIsWorking
  /\ op' = [op EXCEPT !.holder = Job(w), !.token = worker[w].token,
                      !.status = "running"]
  /\ target' = [target EXCEPT ![Subject(w)] =
                  [status |-> "running", reached |-> TRUE, count |-> @.count + 1]]
  /\ Goto(w, "delete")
  /\ UNCHANGED <<batch, next, removed, task, member, deletes>>

\* RemoveMember puts the DELETE on the wire.
RemoveMember(w) ==
  /\ At(w, "delete")
  /\ deletes' = [deletes EXCEPT ![Subject(w)] =
                   [sent |-> @.sent + 1, waiting |-> @.waiting + 1]]
  /\ Goto(w, "await")
  /\ UNCHANGED <<op, batch, next, target, removed, task, member>>

\* Mutant: an accepted DELETE counts as a removal.
DeleteTrusted(w) == At(w, "await") /\ Conclude(w, "confirmed") /\ LocalStep

\* The answer is lost or leaves the effect open, or the exit drifted.
DeleteUncertain(w) ==
  /\ At(w, "await")
  /\ \/ Conclude(w, "unknown")
     \/ worker' = [worker EXCEPT ![w] = [@ EXCEPT !.pc = "verify", !.outcome = "uncertain"]]
  /\ LocalStep

Answered(row) == [row EXCEPT !.waiting = @ - 1]

\* The platform refused (requestMayHaveSideEffect is false).
DeleteRejected(w) ==
  /\ At(w, "await")
  /\ deletes[Subject(w)].waiting > 0
  /\ deletes' = [deletes EXCEPT ![Subject(w)] = Answered(@)]
  /\ worker' = [worker EXCEPT ![w] = [@ EXCEPT !.pc = "verify", !.outcome = "rejected"]]
  /\ UNCHANGED <<op, batch, next, target, removed, task, member>>

\* Renew and the second SnapshotMembers: only a complete list decides.
VerifyRemoval(w) ==
  /\ At(w, "verify")
  /\ HoldsLease(w)
  /\ \/ Conclude(w, "unknown")
     \/ Resolved(w) = "absent" /\ Conclude(w, "confirmed")
     \/ /\ Resolved(w) = "present"
        /\ Conclude(w, IF worker[w].outcome = "uncertain" THEN "queued" ELSE "blocked")
  /\ LocalStep

\* FinishRemovalConfirmed.
FinishRemovalConfirmed(w) ==
  LET t == Subject(w) rows == Unmarked(t, "succeeded") IN
  /\ At(w, "finish") /\ worker[w].outcome = "confirmed"
  /\ HoldsLease(w)
  /\ SettleRemovalAggregate(rows, removed \cup {t})
  /\ op' = ReleasedOp(w, rows)
  /\ task' = [task EXCEPT ![Job(w)] = Ended(@, "succeeded")]
  /\ worker' = [worker EXCEPT ![w] = Idle]
  /\ UNCHANGED <<next, member, deletes>>

\* The tasks after a reconciliation that saw the member: a remove task waits for
\* its next attempt, a reconciliation starts a task that may remove again.
ResumedTasks(w) ==
  LET x == Job(w) resume == <<"resume", x[2], x[3]>> IN
  IF IsRemove(x) THEN [task EXCEPT ![x] = Ended(@, "retry_wait")]
  ELSE IF worker[w].spent THEN [task EXCEPT ![x] = Ended(@, "succeeded")]
  ELSE [task EXCEPT ![x] = Ended(@, "succeeded"),
                    ![resume] = IF @.status = "none" THEN NewTask ELSE @]

\* FinishRemovalReconciliation of a member that is still present.
FinishRemovalReconciliation(w) ==
  LET rows == Unmarked(Subject(w), "queued") IN
  /\ At(w, "finish") /\ worker[w].outcome = "present"
  /\ HoldsLease(w)
  /\ SettleRemovalAggregate(rows, removed)
  /\ op' = ReleasedOp(w, rows)
  /\ task' = ResumedTasks(w)
  /\ worker' = [worker EXCEPT ![w] = Idle]
  /\ UNCHANGED <<next, member, deletes>>

\* FinishRemovalRetry clears the marker, Unknown and Blocked keep it.
UnconfirmedRow(w) ==
  IF worker[w].outcome = "queued" THEN Unmarked(Subject(w), "queued")
                                  ELSE WithStatus(Subject(w), worker[w].outcome)

\* finishRemovalUnconfirmed: a blocked attempt is the last one of its task.
FinishRemovalUnconfirmed(w) ==
  /\ At(w, "finish") /\ worker[w].outcome \in {"queued", "unknown", "blocked"}
  /\ HoldsLease(w)
  /\ SettleRemovalAggregate(UnconfirmedRow(w), removed)
  /\ op' = ReleasedOp(w, UnconfirmedRow(w))
  /\ task' = [task EXCEPT ![Job(w)] =
                Ended(@, IF worker[w].outcome = "blocked" THEN "failed" ELSE "retry_wait")]
  /\ worker' = [worker EXCEPT ![w] = Idle]
  /\ UNCHANGED <<next, member, deletes>>

\* Any error return, or a crash: the task stays running until its lease expires.
Abandon(w) ==
  /\ ~At(w, "idle")
  /\ worker' = [worker EXCEPT ![w] = Idle]
  /\ LocalStep

\* A transaction of the worker fails: its lease is gone, the marker is not
\* granted, or the operation may not become active again.
TransactionFails(w) ==
  /\ \/ worker[w].pc \in {"mark", "verify", "finish"} /\ ~HoldsLease(w)
     \/ At(w, "mark") /\ ~MarkAllowed(w)
     \/ At(w, "mark") /\ NextIsWorking
     \/ At(w, "finish") /\ NextIsActive
  /\ Abandon(w)

-----------------------------------------------------------------------------
(* Clocks and the platform *)

LeaseExpires(x) ==
  /\ task[x].status = "running" /\ task[x].lease = "live"
  /\ task' = [task EXCEPT ![x].lease = "expired"]
  /\ UNCHANGED <<op, batch, next, target, removed, worker, member, deletes>>

\* Ten minutes against task leases of thirty seconds, renewed twice in an
\* attempt: the mutation lease outlives the task lease of its holder, and of any
\* attempt that read the target before the marker.
MutationLeaseExpires ==
  /\ op.holder # NoTask
  /\ \A w \in Workers : worker[w].pc \notin {"idle", "read"} => ~HoldsLease(w)
  /\ ~(/\ task[op.holder].status = "running"
       /\ task[op.holder].lease = "live"
       /\ task[op.holder].attempts = op.token)
  /\ op' = Cleared(op)
  /\ UNCHANGED <<batch, next, target, removed, task, worker, member, deletes>>

\* The platform handles a DELETE, at once or long after its answer was lost.
PlatformHandles(t) ==
  /\ deletes[t].waiting > 0
  /\ deletes' = [deletes EXCEPT ![t] = Answered(@)]
  /\ member' \in {member, member \ {t}}
  /\ UNCHANGED <<op, batch, next, target, removed, task, worker>>

-----------------------------------------------------------------------------
(* Specification *)

TickStep(w) ==
  \E x \in Tasks :
    \/ RecoverExpiredRemoval(w, x) \/ SettleExhausted(w, x)
    \/ ClaimTask(w, x) \/ ClaimRejected(w, x)

RemovalStep(w) ==
  \/ ReadTarget(w) \/ SnapshotMembers(w) \/ MarkRemovalSideEffectStarted(w)
  \/ RemoveMember(w) \/ DeleteUncertain(w) \/ DeleteRejected(w)
  \/ VerifyRemoval(w)
  \/ FinishRemovalConfirmed(w) \/ FinishRemovalReconciliation(w)
  \/ FinishRemovalUnconfirmed(w)

\* Everything RunOnce does by itself.
RunOnce(w) == TickStep(w) \/ RemovalStep(w) \/ TransactionFails(w)

OwnerStep ==
  \/ CreateRemovalOperation
  \/ \E k \in OwnerKeys : EnqueueRemovalReconciliation(k)
  \/ \E b \in NextBatches : StartNextBatch(b) \/ NextBatchSettles(b)

ClockStep == MutationLeaseExpires \/ \E x \in Tasks : LeaseExpires(x)

Next ==
  \/ OwnerStep
  \/ \E w \in Workers : RunOnce(w) \/ Abandon(w)
  \/ ClockStep
  \/ \E t \in Targets : PlatformHandles(t)

Spec == Init /\ [][Next]_vars

\* control.go ticks every worker once a second for as long as it lives, and
\* database time passes.  The Owner, crashes and the platform owe nothing.
Fairness ==
  /\ \A w \in Workers : WF_vars(RunOnce(w))
  /\ \A x \in Tasks : WF_vars(LeaseExpires(x))

FairSpec == Spec /\ Fairness

-----------------------------------------------------------------------------
(* Properties *)

\* No marker is committed for another target before the canary was confirmed
\* to be gone (the EXISTS clauses of claim and MarkRemovalSideEffectStarted).
CanaryFirst ==
  \A t \in Targets \ {Canary} :
    target[t].count > 0 => Canary \in removed /\ Canary \notin member

\* A membership is recorded as removed, and a batch as ended, only when a
\* complete list showed that the members are gone; a DELETE that was accepted is
\* not enough.
GoneWhenRemoved ==
  /\ removed \cap member = {}
  /\ \A t \in Targets : target[t].status = "succeeded" => t \in removed
  /\ batch = "ended" => removed = Targets

\* Between its marker and its outcome a removal whose lease is valid has the
\* Workspace for itself, whatever tasks its target or the others have.
Mutating(w) == worker[w].pc \in {"delete", "await", "verify"} /\ HoldsLease(w)

OneRemover == \A w, v \in Workers : Mutating(w) /\ Mutating(v) => w = v

\* removal.go:109: a possibly delivered DELETE is facts-first, the next attempt
\* can only reconcile while platform_request_may_have_reached remains true: no
\* marker is committed over another one.
FactsFirst ==
  [][\A t \in Targets : target'[t].count > target[t].count => ~target[t].reached]_vars

\* removal.go:200 and 211 bound the markers of a target.  That bounds its DELETEs,
\* over all of its tasks, their retries and the workers that wake up after their
\* lease: one leaves only under a marker of its own, as BoundedEffect states it.
Licensed(t) == {w \in Workers : At(w, "delete") /\ Subject(w) = t}

DeleteEffect(t) == INSTANCE BoundedEffect WITH
  MaxMarks <- MaxRemovals, Senders <- Workers, marks <- target[t].count,
  sent <- deletes[t].sent, licensed <- Licensed(t)

DeletesBounded ==
  /\ \A t \in Targets : DeleteEffect(t)!Init
  /\ [][\A t \in Targets : [DeleteEffect(t)!Next]_(DeleteEffect(t)!vars)]_vars

\* What follows for the wire, whoever sends.
SentWithinLimit ==
  \A t \in Targets :
    deletes[t].sent <= target[t].count /\ target[t].count <= MaxRemovals

\* A late commit or recovery never takes back a confirmed removal.  With Owner
\* reconciliations it can: they have tasks of their own for the same target.
RemovalStands ==
  [][\A t \in Targets : target[t].status = "succeeded" =>
        target'[t].status = "succeeded"]_vars

\* Whatever crashes, the tasks come to rest and leave the operation succeeded or
\* blocked, which the Owner can act on.  The exceptions are the two ways in
\* which the code leaves a queued target with nothing to run: its task waits for
\* an attempt it does not have, or a reconciliation found it present after the
\* last marker.
Active == \E x \in Tasks : task[x].status = "running" \/ Claimable(x)
Stranded(t) ==
  /\ target[t].status = "queued"
  /\ \/ target[t].count = MaxRemovals
     \/ \E x \in Tasks : /\ TargetOf(x) = t
                         /\ task[x].status = "retry_wait"
                         /\ task[x].attempts = Limit(x)
RemovalSettles ==
  Active ~> /\ ~Active
            /\ \/ op.status \in {"succeeded", "blocked"}
               \/ \E t \in Targets : Stranded(t)

\* task.go:182: an expired task that cannot create another attempt is
\* interrupted.
ExhaustedInterrupted ==
  \A x \in Tasks :
    Expired(x) /\ task[x].attempts >= Limit(x) ~> task[x].status = "interrupted"
=============================================================================
