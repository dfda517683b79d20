------------------------- MODULE BatchRemovalProofs -------------------------
(***************************************************************************)
(* Proofs about BatchRemoval, for any number of targets, workers, Owner    *)
(* reconciliations, attempts, markers and later batches.                   *)
(*                                                                         *)
(* The argument: an attempt has its own number, so of the workers that     *)
(* ever held a task one at most holds its valid lease (Numbered,           *)
(* Distinct); the holder of the mutation lease is that worker              *)
(* (MutationSound); and a worker that is about to report an absence has    *)
(* seen it (WorkSound), which the platform cannot undo.                    *)
(***************************************************************************)
EXTENDS BatchRemoval, FiniteSetTheorems, TLAPS

Busy(w) == worker[w].pc # "idle"

\* A task that was not inserted yet was not attempted.
TaskSound == \A x \in Tasks : task[x].status = "none" => task[x].attempts = 0

\* What a worker knows by its position.
WorkSound(r) ==
  /\ r.pc = "idle" <=> r.task = NoTask
  /\ r.pc = "mark" => ~r.readOnly
  /\ r.pc = "finish" => r.outcome \in {"confirmed", "present", "queued",
                                       "unknown", "blocked"}
  /\ r.pc = "finish" /\ r.outcome = "confirmed" => TargetOf(r.task) \notin member

\* No attempt has a later number than its task.
Numbered == \A w \in Workers : Busy(w) => worker[w].token <= task[Job(w)].attempts

\* Two attempts of a task have different numbers.
Distinct ==
  \A w, v \in Workers :
    Busy(w) /\ Busy(v) /\ Job(w) = Job(v) /\ worker[w].token = worker[v].token => w = v

\* Whoever stands between its marker and its outcome has the mutation lease.
MutationSound == \A w \in Workers : Mutating(w) => OwnMutation(w)

\* Before the operation there are no tasks and nobody works on them.
ServingSound ==
  batch = "serving" => /\ op.status = "none"
                       /\ \A x \in Tasks : task[x].status = "none"
                       /\ \A w \in Workers : ~Busy(w)

IInv ==
  /\ TypeOK
  /\ ServingSound
  /\ TaskSound
  /\ \A w \in Workers : WorkSound(worker[w])
  /\ Numbered
  /\ Distinct
  /\ MutationSound
  /\ GoneWhenRemoved
  /\ CanaryFirst

-----------------------------------------------------------------------------
(* Types *)

LEMMA BoundFacts ==
  /\ AttemptBound \in Nat \ {0}
  /\ \A x \in Tasks : /\ TargetOf(x) \in Targets /\ x # NoTask
                      /\ Limit(x) \in Nat \ {0} /\ Limit(x) <= AttemptBound
<1>1. \A x \in Tasks : TargetOf(x) \in Targets
  BY DEF Tasks, TargetOf
<1> QED BY <1>1, BoundsAssumption, TaskAssumption DEF AttemptBound, Limit

LEMMA IdleFacts == Idle \in Work /\ WorkSound(Idle) /\ Idle.pc = "idle"
BY BoundFacts DEF Idle, Work, WorkSound

LEMMA NewTaskFacts ==
  /\ NewTask \in TaskRow /\ NewTask.status = "queued" /\ NewTask.attempts = 0
  /\ NewTask.lease = "none"
  /\ Absent \in TaskRow /\ Absent.status = "none" /\ Absent.attempts = 0
BY BoundFacts DEF NewTask, Absent, TaskRow

LEMMA StatusFacts ==
  ASSUME NEW rows
  PROVE  /\ OperationStatus(rows) \in {"succeeded", "blocked", "running"}
         /\ OperationStatus(rows) = "succeeded" =>
              \A t \in Targets : rows[t].status = "succeeded"
<1>1. OperationStatus(rows) \in {"succeeded", "blocked", "running"}
  BY DEF OperationStatus
<1>2. ASSUME OperationStatus(rows) = "succeeded", NEW t \in Targets
      PROVE  rows[t].status = "succeeded"
  BY <1>2 DEF OperationStatus
<1> QED BY <1>1, <1>2

\* What a row may become when an attempt is settled.
Settles(rows, t) ==
  \E row \in TargetRow :
    /\ row.count = target[t].count
    /\ row.reached => target[t].reached
    /\ rows = [target EXCEPT ![t] = row]

LEMMA RowFacts ==
  ASSUME TypeOK, NEW t \in Targets,
         NEW status \in {"queued", "running", "succeeded", "blocked", "unknown"}
  PROVE  /\ Settles(WithStatus(t, status), t)
         /\ WithStatus(t, status)[t].status = status
         /\ Settles(Unmarked(t, status), t)
         /\ Unmarked(t, status)[t].status = status
<1>1. target[t] \in TargetRow /\ target \in [Targets -> TargetRow]
  BY DEF TypeOK
<1> DEFINE plain == [target[t] EXCEPT !.status = status]
           clean == [target[t] EXCEPT !.status = status, !.reached = FALSE]
<1>2. plain \in TargetRow /\ plain.count = target[t].count /\ plain.status = status
      /\ plain.reached = target[t].reached
  BY <1>1 DEF TargetRow
<1>3. clean \in TargetRow /\ clean.count = target[t].count /\ clean.status = status
      /\ ~clean.reached
  BY <1>1 DEF TargetRow
<1>4. WithStatus(t, status) = [target EXCEPT ![t] = plain]
  BY <1>1 DEF WithStatus, TargetRow
<1>5. Unmarked(t, status) = [target EXCEPT ![t] = clean]
  BY <1>1 DEF Unmarked, TargetRow
<1> QED BY <1>1, <1>2, <1>3, <1>4, <1>5 DEF Settles

\* What a DELETE and its answer do to the wire of a target.
LEMMA DeleteSends ==
  ASSUME deletes \in [Targets -> Deletes], NEW t \in Targets,
         deletes' = [deletes EXCEPT ![t] = [sent |-> @.sent + 1, waiting |-> @.waiting + 1]]
  PROVE  /\ deletes' \in [Targets -> Deletes]
         /\ deletes'[t].sent = deletes[t].sent + 1
         /\ \A u \in Targets : u # t => deletes'[u] = deletes[u]
<1> DEFINE row == [sent |-> deletes[t].sent + 1, waiting |-> deletes[t].waiting + 1]
<1>1. deletes[t].sent \in Nat /\ deletes[t].waiting \in Nat
  BY DEF Deletes
<1>2. row \in Deletes /\ row.sent = deletes[t].sent + 1
  BY <1>1 DEF Deletes
<1>3. deletes' = [deletes EXCEPT ![t] = row]
  OBVIOUS
<1> HIDE DEF row
<1> QED BY <1>2, <1>3

LEMMA DeleteAnswered ==
  ASSUME deletes \in [Targets -> Deletes], NEW t \in Targets, deletes[t].waiting > 0,
         deletes' = [deletes EXCEPT ![t] = Answered(@)]
  PROVE  /\ deletes' \in [Targets -> Deletes]
         /\ \A u \in Targets : deletes'[u].sent = deletes[u].sent
<1> DEFINE row == Answered(deletes[t])
<1>1. deletes[t] \in Deletes /\ deletes[t].waiting - 1 \in Nat
  BY DEF Deletes
<1>2. row \in Deletes /\ row.sent = deletes[t].sent
  BY <1>1 DEF Deletes, Answered
<1>3. deletes' = [deletes EXCEPT ![t] = row]
  OBVIOUS
<1> HIDE DEF row
<1> QED BY <1>2, <1>3

-----------------------------------------------------------------------------
(* What the transactions have in common *)

\* The end of an attempt of x: nothing else of the task table changes but the
\* insertion of a task that was not there.
TaskEnds(x) ==
  /\ task' \in [Tasks -> TaskRow]
  /\ task'[x].lease = "none" /\ task'[x].attempts = task[x].attempts
  /\ task'[x].status # "none"
  /\ \A y \in Tasks : \/ y = x \/ task'[y] = task[y]
                      \/ task[y].status = "none" /\ task'[y] = NewTask

LEMMA EndedFacts ==
  ASSUME TypeOK, NEW x \in Tasks,
         NEW status \in {"retry_wait", "succeeded", "failed", "interrupted"},
         task' = [task EXCEPT ![x] = Ended(@, status)]
  PROVE  TaskEnds(x) /\ task'[x].status = status
<1>1. task[x] \in TaskRow /\ task \in [Tasks -> TaskRow]
  BY DEF TypeOK
<1> DEFINE row == [task[x] EXCEPT !.status = status, !.lease = "none"]
<1>2. /\ row \in TaskRow /\ row.lease = "none" /\ row.attempts = task[x].attempts
      /\ row.status = status
  BY <1>1 DEF TaskRow
<1>3. task' = [task EXCEPT ![x] = row]
  BY <1>1 DEF Ended
<1> HIDE DEF row
<1> QED BY <1>1, <1>2, <1>3 DEF TaskEnds

\* A transaction that settles the target of a task.
Settled(x) ==
  \E rows, gone :
    /\ Settles(rows, TargetOf(x))
    /\ SettleRemovalAggregate(rows, gone)
    /\ \/ gone = removed /\ rows[TargetOf(x)].status # "succeeded"
       \/ /\ gone = removed \cup {TargetOf(x)} /\ TargetOf(x) \notin member
          /\ task'[x].status = "succeeded"
    /\ TaskEnds(x)
    /\ op' \in OpRow
    /\ UNCHANGED <<next, member, deletes>>

\* ... by the worker whose attempt ends.
Finishes(w) ==
  /\ Busy(w) /\ HoldsLease(w)
  /\ Settled(Job(w))
  /\ worker' = [worker EXCEPT ![w] = Idle]
  /\ \/ op'.holder = op.holder /\ op'.token = op.token
     \/ OwnMutation(w)

\* ... by a tick that found its lease expired.
Recovers(x) ==
  /\ Expired(x)
  /\ Settled(x)
  /\ UNCHANGED worker
  /\ \/ op'.holder = op.holder /\ op'.token = op.token
     \/ op.holder = x

-----------------------------------------------------------------------------
(* The actions have these forms *)

\* What a busy worker has.
LEMMA BusyFacts ==
  ASSUME IInv, NEW w \in Workers, Busy(w)
  PROVE  /\ worker[w] \in Work /\ WorkSound(worker[w])
         /\ Job(w) \in Tasks /\ Subject(w) \in Targets
         /\ Subject(w) = TargetOf(Job(w))
<1>1. worker[w] \in Work /\ WorkSound(worker[w])
  BY DEF IInv, TypeOK
<1>2. Job(w) \in Tasks
  BY <1>1 DEF Work, WorkSound, Busy, Job
<1> QED BY <1>1, <1>2, BoundFacts DEF Subject

\* The operation row with a new status, its mutation lease kept or cleared.
LEMMA OpFacts ==
  ASSUME TypeOK, NEW rows
  PROVE  /\ Cleared(op) \in OpRow
         /\ [op EXCEPT !.status = OperationStatus(rows)] \in OpRow
         /\ [Cleared(op) EXCEPT !.status = OperationStatus(rows)] \in OpRow
         /\ [op EXCEPT !.status = OperationStatus(rows)].holder = op.holder
         /\ [op EXCEPT !.status = OperationStatus(rows)].token = op.token
<1>1. op \in OpRow
  BY DEF TypeOK
<1>2. 0 \in 0..AttemptBound
  BY BoundFacts
<1>3. Cleared(op) \in OpRow
  BY <1>1, <1>2 DEF Cleared, OpRow
<1> QED BY <1>1, <1>3, StatusFacts DEF OpRow

LEMMA ReleasedFacts ==
  ASSUME TypeOK, NEW w \in Workers, NEW rows, op' = ReleasedOp(w, rows)
  PROVE  /\ op' \in OpRow
         /\ \/ op'.holder = op.holder /\ op'.token = op.token
            \/ OwnMutation(w)
<1>1. CASE OwnMutation(w)
  BY <1>1, OpFacts DEF ReleasedOp
<1>2. CASE ~OwnMutation(w)
  BY <1>2, OpFacts DEF ReleasedOp
<1> QED BY <1>1, <1>2

LEMMA ConfirmedForm ==
  ASSUME IInv, NEW w \in Workers, FinishRemovalConfirmed(w)
  PROVE  Finishes(w)
<1> DEFINE rows == Unmarked(Subject(w), "succeeded")
<1>1. /\ Busy(w) /\ HoldsLease(w) /\ TypeOK
      /\ worker[w].pc = "finish" /\ worker[w].outcome = "confirmed"
  BY DEF FinishRemovalConfirmed, At, Busy, IInv
<1>2. /\ Job(w) \in Tasks /\ Subject(w) \in Targets /\ Subject(w) = TargetOf(Job(w))
      /\ WorkSound(worker[w])
  BY <1>1, BusyFacts
<1>3. Settles(rows, Subject(w))
  BY <1>1, <1>2, RowFacts
<1>4. Subject(w) \notin member
  BY <1>1, <1>2 DEF WorkSound, Job
<1>5. TaskEnds(Job(w)) /\ task'[Job(w)].status = "succeeded"
  BY <1>1, <1>2, EndedFacts DEF FinishRemovalConfirmed
<1>6. SettleRemovalAggregate(rows, removed \cup {Subject(w)})
  BY DEF FinishRemovalConfirmed
<1>7. /\ op' \in OpRow
      /\ \/ op'.holder = op.holder /\ op'.token = op.token
         \/ OwnMutation(w)
  BY <1>1, ReleasedFacts DEF FinishRemovalConfirmed
<1>8. Settled(Job(w))
  <2> HIDE DEF rows
  <2> QED BY <1>2, <1>3, <1>4, <1>5, <1>6, <1>7 DEF Settled, FinishRemovalConfirmed
<1> QED BY <1>1, <1>7, <1>8 DEF Finishes, FinishRemovalConfirmed

\* What is common to the attempts that end without a removal.
LEMMA UnconfirmedForm ==
  ASSUME IInv, NEW w \in Workers, At(w, "finish"), HoldsLease(w),
         NEW rows, NEW status, status # "succeeded",
         Settles(rows, Subject(w)), rows[Subject(w)].status = status,
         SettleRemovalAggregate(rows, removed),
         op' = ReleasedOp(w, rows),
         TaskEnds(Job(w)),
         worker' = [worker EXCEPT ![w] = Idle],
         UNCHANGED <<next, member, deletes>>
  PROVE  Finishes(w)
<1>1. Busy(w) /\ TypeOK
  BY DEF At, Busy, IInv
<1>2. Subject(w) = TargetOf(Job(w))
  BY <1>1, BusyFacts
<1>3. /\ op' \in OpRow
      /\ \/ op'.holder = op.holder /\ op'.token = op.token
         \/ OwnMutation(w)
  BY <1>1, ReleasedFacts
<1>4. Settled(Job(w))
  BY <1>2, <1>3 DEF Settled
<1> QED BY <1>1, <1>3, <1>4 DEF Finishes

LEMMA ReconciledTasks ==
  ASSUME IInv, NEW w \in Workers, Busy(w), task' = ResumedTasks(w)
  PROVE  TaskEnds(Job(w))
<1> DEFINE x == Job(w)
           resume == <<"resume", x[2], x[3]>>
<1>1. TypeOK /\ x \in Tasks /\ task \in [Tasks -> TaskRow] /\ task[x] \in TaskRow
  BY BusyFacts DEF IInv, TypeOK
<1>2. CASE IsRemove(x)
  BY <1>1, <1>2, EndedFacts DEF ResumedTasks
<1>3. CASE ~IsRemove(x) /\ worker[w].spent
  BY <1>1, <1>3, EndedFacts DEF ResumedTasks
<1>4. CASE ~IsRemove(x) /\ ~worker[w].spent
  <2>1. resume \in Tasks /\ resume # x
    BY <1>1, <1>4 DEF Tasks, IsRemove
  <2> DEFINE row == [task[x] EXCEPT !.status = "succeeded", !.lease = "none"]
             new == IF task[resume].status = "none" THEN NewTask ELSE task[resume]
  <2>2. /\ row \in TaskRow /\ row.lease = "none" /\ row.attempts = task[x].attempts
        /\ row.status # "none"
    BY <1>1 DEF TaskRow
  <2>3. new \in TaskRow
    BY <1>1, <2>1, NewTaskFacts
  <2>4. task' = [task EXCEPT ![x] = row, ![resume] = new]
    BY <1>1, <1>4, <2>1 DEF ResumedTasks, Ended
  <2>5. /\ task' \in [Tasks -> TaskRow] /\ task'[x] = row /\ task'[resume] = new
        /\ \A y \in Tasks \ {x, resume} : task'[y] = task[y]
    <3> HIDE DEF row, new, resume, x
    <3> QED BY <1>1, <2>1, <2>2, <2>3, <2>4
  <2>6. new = task[resume] \/ (task[resume].status = "none" /\ new = NewTask)
    OBVIOUS
  <2> HIDE DEF row, new, resume, x
  <2>7. TaskEnds(x)
    BY <2>2, <2>5, <2>6 DEF TaskEnds
  <2> QED BY <2>7 DEF x
<1> QED BY <1>2, <1>3, <1>4

LEMMA FinishForms ==
  ASSUME IInv, NEW w \in Workers,
         \/ FinishRemovalConfirmed(w) \/ FinishRemovalReconciliation(w)
         \/ FinishRemovalUnconfirmed(w)
  PROVE  Finishes(w)
<1>1. CASE FinishRemovalConfirmed(w)
  BY <1>1, ConfirmedForm
<1>2. CASE FinishRemovalReconciliation(w)
  <2> DEFINE rows == Unmarked(Subject(w), "queued")
  <2>1. Busy(w) /\ TypeOK /\ At(w, "finish") /\ HoldsLease(w)
    BY <1>2 DEF FinishRemovalReconciliation, At, Busy, IInv
  <2>2. Settles(rows, Subject(w)) /\ rows[Subject(w)].status = "queued"
    BY <2>1, BusyFacts, RowFacts
  <2>3. TaskEnds(Job(w))
    BY <1>2, <2>1, ReconciledTasks DEF FinishRemovalReconciliation
  <2>4. /\ SettleRemovalAggregate(rows, removed) /\ op' = ReleasedOp(w, rows)
        /\ worker' = [worker EXCEPT ![w] = Idle]
        /\ UNCHANGED <<next, member, deletes>>
    BY <1>2 DEF FinishRemovalReconciliation
  <2> HIDE DEF rows
  <2> QED BY <2>1, <2>2, <2>3, <2>4, UnconfirmedForm
<1>3. CASE FinishRemovalUnconfirmed(w)
  <2> DEFINE rows == UnconfirmedRow(w)
             status == worker[w].outcome
  <2>1. /\ Busy(w) /\ TypeOK /\ At(w, "finish") /\ HoldsLease(w)
        /\ status \in {"queued", "unknown", "blocked"}
    BY <1>3 DEF FinishRemovalUnconfirmed, At, Busy, IInv
  <2>2. Settles(rows, Subject(w)) /\ rows[Subject(w)].status = status
    <3>1. CASE status = "queued"
      BY <2>1, <3>1, BusyFacts, RowFacts DEF UnconfirmedRow
    <3>2. CASE status # "queued"
      BY <2>1, <3>2, BusyFacts, RowFacts DEF UnconfirmedRow
    <3> QED BY <3>1, <3>2
  <2>3. TaskEnds(Job(w))
    <3>1. CASE status = "blocked"
      <4>1. task' = [task EXCEPT ![Job(w)] = Ended(@, "failed")]
        BY <1>3, <3>1 DEF FinishRemovalUnconfirmed
      <4> QED BY <2>1, <4>1, BusyFacts, EndedFacts
    <3>2. CASE status # "blocked"
      <4>1. task' = [task EXCEPT ![Job(w)] = Ended(@, "retry_wait")]
        BY <1>3, <3>2 DEF FinishRemovalUnconfirmed
      <4> QED BY <2>1, <4>1, BusyFacts, EndedFacts
    <3> QED BY <3>1, <3>2
  <2>4. /\ SettleRemovalAggregate(rows, removed) /\ op' = ReleasedOp(w, rows)
        /\ worker' = [worker EXCEPT ![w] = Idle]
        /\ UNCHANGED <<next, member, deletes>>
    BY <1>3 DEF FinishRemovalUnconfirmed
  <2>5. status # "succeeded"
    BY <2>1
  <2> HIDE DEF rows, status
  <2> QED BY <2>1, <2>2, <2>3, <2>4, <2>5, UnconfirmedForm
<1> QED BY <1>1, <1>2, <1>3

LEMMA RecoverForms ==
  ASSUME IInv, NEW w \in Workers, NEW x \in Tasks,
         RecoverExpiredRemoval(w, x) \/ SettleExhausted(w, x)
  PROVE  Recovers(x)
<1>1. TypeOK /\ TargetOf(x) \in Targets /\ Expired(x)
  BY BoundFacts DEF IInv, RecoverExpiredRemoval, SettleExhausted
<1>2. CASE RecoverExpiredRemoval(w, x)
  <2> DEFINE rows == RecoveredRow(x)
  <2>1. PICK status \in {"queued", "blocked", "unknown"} :
          rows = WithStatus(TargetOf(x), status)
    BY DEF RecoveredRow
  <2>2. Settles(rows, TargetOf(x)) /\ rows[TargetOf(x)].status # "succeeded"
    BY <1>1, <2>1, RowFacts
  <2>3. PICK end \in {"interrupted", "retry_wait"} :
          task' = [task EXCEPT ![x] = Ended(@, end)]
    BY <1>2 DEF RecoverExpiredRemoval
  <2>4. TaskEnds(x)
    BY <1>1, <2>3, EndedFacts
  <2>5. /\ op' \in OpRow
        /\ \/ op'.holder = op.holder /\ op'.token = op.token
           \/ op.holder = x
    <3>1. CASE op.holder = x
      BY <1>1, <1>2, <3>1, OpFacts DEF RecoverExpiredRemoval
    <3>2. CASE op.holder # x
      BY <1>1, <1>2, <3>2, OpFacts DEF RecoverExpiredRemoval
    <3> QED BY <3>1, <3>2
  <2>6. SettleRemovalAggregate(rows, removed) /\ UNCHANGED <<next, worker, member, deletes>>
    BY <1>2 DEF RecoverExpiredRemoval
  <2> HIDE DEF rows
  <2> QED BY <1>1, <2>2, <2>4, <2>5, <2>6 DEF Recovers, Settled
<1>3. CASE SettleExhausted(w, x)
  <2> DEFINE rows == WithStatus(TargetOf(x), "blocked")
  <2>1. Settles(rows, TargetOf(x)) /\ rows[TargetOf(x)].status # "succeeded"
    BY <1>1, RowFacts
  <2>2. TaskEnds(x)
    BY <1>1, <1>3, EndedFacts DEF SettleExhausted
  <2>3. op' \in OpRow /\ op'.holder = op.holder /\ op'.token = op.token
    BY <1>1, <1>3, OpFacts DEF SettleExhausted
  <2>4. SettleRemovalAggregate(rows, removed) /\ UNCHANGED <<next, worker, member, deletes>>
    BY <1>3 DEF SettleExhausted
  <2> HIDE DEF rows
  <2> QED BY <1>1, <2>1, <2>2, <2>3, <2>4 DEF Recovers, Settled
<1> QED BY <1>2, <1>3

-----------------------------------------------------------------------------
(* The other steps of a worker *)

\* On the way to a marker.
Undecided(r) == r.pc \in {"snapshot", "mark"} /\ ~r.readOnly

\* A step that concerns this worker alone, and perhaps the wire.
Moves(w) ==
  /\ Busy(w)
  /\ \E r \in Work :
       /\ WorkSound(r)
       /\ \/ r.pc = "idle"
          \/ r.task = Job(w) /\ r.token = worker[w].token
       /\ r.pc \in {"delete", "await", "verify"} =>
            worker[w].pc \in {"delete", "await", "verify"}
       /\ Undecided(r) => Undecided(worker[w]) \/ ~target[Subject(w)].reached
       /\ worker' = [worker EXCEPT ![w] = r]
  /\ deletes' \in [Targets -> Deletes]
  /\ UNCHANGED <<op, batch, next, target, removed, task, member>>

\* The next attempt of x.
Claims(w, x) ==
  /\ ~Busy(w) /\ Claimable(x)
  /\ task' = Claimed(x)
  /\ \E r \in Work :
       /\ WorkSound(r)
       /\ r.task = x /\ r.token = task[x].attempts + 1 /\ r.pc \in {"read", "finish"}
       /\ worker' = [worker EXCEPT ![w] = r]
  /\ UNCHANGED <<op, batch, next, target, removed, member, deletes>>

LEMMA ConcludeMoves ==
  ASSUME IInv, NEW w \in Workers, Busy(w),
         NEW outcome \in {"confirmed", "present", "queued", "unknown", "blocked"},
         outcome = "confirmed" => Subject(w) \notin member,
         Conclude(w, outcome), LocalStep
  PROVE  Moves(w)
<1> DEFINE r == [worker[w] EXCEPT !.pc = "finish", !.outcome = outcome]
<1>1. worker[w] \in Work /\ WorkSound(worker[w]) /\ Subject(w) = TargetOf(Job(w))
      /\ worker \in [Workers -> Work] /\ deletes \in [Targets -> Deletes]
  BY BusyFacts DEF IInv, TypeOK
<1>2. /\ r \in Work /\ r.pc = "finish" /\ r.outcome = outcome
      /\ r.task = Job(w) /\ r.token = worker[w].token
  BY <1>1 DEF Work, Job
<1>3. worker' = [worker EXCEPT ![w] = r]
  BY <1>1 DEF Conclude
<1>4. r.task # NoTask
  BY <1>1, <1>2 DEF WorkSound, Busy, Job
<1> HIDE DEF r
<1>5. WorkSound(r)
  BY <1>1, <1>2, <1>4 DEF WorkSound
<1> QED BY <1>1, <1>2, <1>3, <1>5 DEF Moves, LocalStep, Undecided

\* A step that changes the position, and what was read, of a worker.
LEMMA GotoMoves ==
  ASSUME IInv, NEW w \in Workers, Busy(w), NEW r \in Work,
         r.task = Job(w), r.token = worker[w].token,
         r.pc \notin {"idle", "finish"}, r.pc = "mark" => ~r.readOnly,
         r.pc \in {"delete", "await", "verify"} =>
           worker[w].pc \in {"delete", "await", "verify"},
         Undecided(r) => Undecided(worker[w]) \/ ~target[Subject(w)].reached,
         worker' = [worker EXCEPT ![w] = r],
         deletes' \in [Targets -> Deletes],
         UNCHANGED <<op, batch, next, target, removed, task, member>>
  PROVE  Moves(w)
<1>1. WorkSound(worker[w])
  BY BusyFacts
<1>2. WorkSound(r)
  BY <1>1 DEF WorkSound, Busy, Job
<1> QED BY <1>2 DEF Moves

LEMMA MoveForms ==
  ASSUME IInv, NEW w \in Workers,
         \/ ReadTarget(w) \/ SnapshotMembers(w) \/ RemoveMember(w)
         \/ DeleteUncertain(w) \/ DeleteRejected(w) \/ VerifyRemoval(w)
         \/ Abandon(w)
  PROVE  Moves(w)
<1>1. Busy(w)
  BY DEF ReadTarget, SnapshotMembers, RemoveMember, DeleteUncertain,
         DeleteRejected, VerifyRemoval, Abandon, At, Busy
<1>2. /\ worker[w] \in Work /\ Subject(w) \in Targets
      /\ worker \in [Workers -> Work] /\ deletes \in [Targets -> Deletes]
      /\ target \in [Targets -> TargetRow]
  BY <1>1, BusyFacts DEF IInv, TypeOK
<1>3. CASE ReadTarget(w)
  <2> DEFINE r == [worker[w] EXCEPT !.pc = "snapshot", !.readOnly = ReadsOnly(w),
                                    !.spent = target[Subject(w)].count >= MaxRemovals]
  <2>1. ReadsOnly(w) \in BOOLEAN
    BY DEF ReadsOnly
  <2>2. (target[Subject(w)].count >= MaxRemovals) \in BOOLEAN
    OBVIOUS
  <2>3. r \in Work /\ r.task = Job(w) /\ r.token = worker[w].token /\ r.pc = "snapshot"
    BY <1>2, <2>1, <2>2 DEF Work, Job
  <2>4. worker' = [worker EXCEPT ![w] = r]
    BY <1>2, <1>3 DEF ReadTarget
  <2>5. Undecided(r) => ~target[Subject(w)].reached
    BY <1>2, <2>1 DEF Undecided, ReadsOnly, Work
  <2> HIDE DEF r
  <2> QED BY <1>1, <1>2, <1>3, <2>3, <2>4, <2>5, GotoMoves DEF ReadTarget, LocalStep
<1>4. CASE SnapshotMembers(w)
  <2>1. CASE Conclude(w, "unknown") \/ Conclude(w, "queued") \/ Conclude(w, "blocked")
             \/ Conclude(w, "present")
    BY <1>1, <1>4, <2>1, ConcludeMoves DEF SnapshotMembers, Resolved
  <2>2. CASE Subject(w) \notin member /\ Conclude(w, "confirmed")
    BY <1>1, <1>4, <2>2, ConcludeMoves DEF SnapshotMembers, Resolved
  <2>3. CASE ~worker[w].readOnly /\ Goto(w, "mark")
    <3> DEFINE r == [worker[w] EXCEPT !.pc = "mark"]
    <3>1. r \in Work /\ r.task = Job(w) /\ r.token = worker[w].token /\ r.pc = "mark"
          /\ ~r.readOnly /\ Undecided(worker[w])
      BY <1>2, <1>4, <2>3 DEF Work, Job, Undecided, SnapshotMembers, At
    <3>2. worker' = [worker EXCEPT ![w] = r]
      BY <1>2, <2>3 DEF Goto
    <3> HIDE DEF r
    <3> QED BY <1>1, <1>2, <1>4, <3>1, <3>2, GotoMoves DEF SnapshotMembers, LocalStep
  <2> QED BY <1>4, <2>1, <2>2, <2>3 DEF SnapshotMembers, Resolved
<1>5. CASE RemoveMember(w)
  <2> DEFINE r == [worker[w] EXCEPT !.pc = "await"]
  <2>1. r \in Work /\ r.task = Job(w) /\ r.token = worker[w].token /\ r.pc = "await"
    BY <1>2 DEF Work, Job
  <2>2. worker' = [worker EXCEPT ![w] = r] /\ worker[w].pc = "delete"
    BY <1>2, <1>5 DEF RemoveMember, Goto, At
  <2>3. deletes' \in [Targets -> Deletes]
    BY <1>2, <1>5, DeleteSends DEF RemoveMember
  <2> HIDE DEF r
  <2> QED BY <1>1, <1>5, <2>1, <2>2, <2>3, GotoMoves DEF RemoveMember, Undecided
<1>6. CASE DeleteUncertain(w)
  <2>1. CASE Conclude(w, "unknown")
    BY <1>1, <1>6, <2>1, ConcludeMoves DEF DeleteUncertain
  <2>2. CASE worker' = [worker EXCEPT ![w] = [@ EXCEPT !.pc = "verify",
                                                       !.outcome = "uncertain"]]
    <3> DEFINE r == [worker[w] EXCEPT !.pc = "verify", !.outcome = "uncertain"]
    <3>1. r \in Work /\ r.task = Job(w) /\ r.token = worker[w].token /\ r.pc = "verify"
      BY <1>2 DEF Work, Job
    <3>2. worker' = [worker EXCEPT ![w] = r] /\ worker[w].pc = "await"
      BY <1>2, <1>6, <2>2 DEF DeleteUncertain, At
    <3> HIDE DEF r
    <3> QED BY <1>1, <1>2, <1>6, <3>1, <3>2, GotoMoves DEF DeleteUncertain, LocalStep, Undecided
  <2> QED BY <1>6, <2>1, <2>2 DEF DeleteUncertain
<1>7. CASE DeleteRejected(w)
  <2> DEFINE r == [worker[w] EXCEPT !.pc = "verify", !.outcome = "rejected"]
  <2>1. r \in Work /\ r.task = Job(w) /\ r.token = worker[w].token /\ r.pc = "verify"
    BY <1>2 DEF Work, Job
  <2>2. worker' = [worker EXCEPT ![w] = r] /\ worker[w].pc = "await"
    BY <1>2, <1>7 DEF DeleteRejected, At
  <2>3. deletes' \in [Targets -> Deletes]
    BY <1>2, <1>7, DeleteAnswered DEF DeleteRejected
  <2> HIDE DEF r
  <2> QED BY <1>1, <1>7, <2>1, <2>2, <2>3, GotoMoves DEF DeleteRejected, Undecided
<1>8. CASE VerifyRemoval(w)
  <2>1. CASE Conclude(w, "unknown") \/ Conclude(w, "queued") \/ Conclude(w, "blocked")
    BY <1>1, <1>8, <2>1, ConcludeMoves DEF VerifyRemoval, Resolved
  <2>2. CASE Subject(w) \notin member /\ Conclude(w, "confirmed")
    BY <1>1, <1>8, <2>2, ConcludeMoves DEF VerifyRemoval, Resolved
  <2> QED BY <1>8, <2>1, <2>2 DEF VerifyRemoval, Resolved
<1>9. CASE Abandon(w)
  BY <1>1, <1>2, <1>9, IdleFacts DEF Abandon, LocalStep, Moves, Undecided
<1> QED BY <1>3, <1>4, <1>5, <1>6, <1>7, <1>8, <1>9

LEMMA ClaimForms ==
  ASSUME IInv, NEW w \in Workers, NEW x \in Tasks,
         ClaimTask(w, x) \/ ClaimRejected(w, x)
  PROVE  Claims(w, x)
<1>1. /\ ~Busy(w) /\ Claimable(x) /\ task' = Claimed(x)
      /\ UNCHANGED <<op, batch, next, target, removed, member, deletes>>
  BY DEF ClaimTask, ClaimRejected, At, Busy
<1>2. PICK pc, outcome :
        /\ (pc = "read" /\ outcome = "none") \/ (pc = "finish" /\ outcome = "unknown")
        /\ worker' = [worker EXCEPT ![w] = ClaimedWork(x, pc, outcome)]
  BY DEF ClaimTask, ClaimRejected
<1> DEFINE r == ClaimedWork(x, pc, outcome)
<1>3. /\ task[x] \in TaskRow /\ task[x].attempts < Limit(x)
      /\ task[x].attempts + 1 \in 0..AttemptBound
  BY <1>1, BoundFacts DEF IInv, TypeOK, TaskRow, Claimable
<1>4. /\ r \in Work /\ r.task = x /\ r.token = task[x].attempts + 1
      /\ r.pc = pc /\ r.outcome = outcome
  BY <1>2, <1>3 DEF ClaimedWork, Idle, Work
<1> HIDE DEF r
<1>5. WorkSound(r)
  BY <1>2, <1>4, BoundFacts DEF WorkSound
<1>6. r.pc \in {"read", "finish"}
  BY <1>2, <1>4
<1>7. worker' = [worker EXCEPT ![w] = r]
  BY <1>2 DEF r
<1> QED BY <1>1, <1>4, <1>5, <1>6, <1>7 DEF Claims

-----------------------------------------------------------------------------
(* Attempts and leases *)

\* Attempts are only counted up, and a lease is only valid anew for a new one.
TasksGrow ==
  \A x \in Tasks :
    /\ task'[x].attempts >= task[x].attempts
    /\ task'[x].lease = "live" =>
         task'[x] = task[x] \/ task'[x].attempts > task[x].attempts
    /\ task'[x].status = "none" => task'[x] = task[x]

\* No worker starts on a task.
NobodyStarts ==
  \A w \in Workers :
    Busy(w)' => Busy(w) /\ worker'[w].task = worker[w].task
                        /\ worker'[w].token = worker[w].token

\* Then the numbers stay apart, and nobody obtains a valid lease.
LEMMA AttemptsKept ==
  ASSUME IInv, TypeOK', TasksGrow, NobodyStarts
  PROVE  /\ Numbered' /\ Distinct' /\ TaskSound'
         /\ \A w \in Workers : Busy(w)' /\ HoldsLease(w)' => Busy(w) /\ HoldsLease(w)
<1>1. \A x \in Tasks : task[x].attempts \in Nat /\ task'[x].attempts \in Nat
  BY BoundFacts DEF IInv, TypeOK, TaskRow
<1>2. \A w \in Workers : worker[w].token \in Nat /\ worker'[w].token \in Nat
  BY BoundFacts DEF IInv, TypeOK, Work
<1>3. \A w \in Workers : Busy(w) => Job(w) \in Tasks
  BY BusyFacts
<1>4. Numbered'
  BY <1>1, <1>2, <1>3 DEF IInv, Numbered, TasksGrow, NobodyStarts, Job
<1>5. Distinct'
  BY DEF IInv, Distinct, NobodyStarts, Job
<1>6. TaskSound'
  BY DEF IInv, TaskSound, TasksGrow
<1>7. ASSUME NEW w \in Workers, Busy(w)', HoldsLease(w)'
      PROVE  Busy(w) /\ HoldsLease(w)
  <2>1. Busy(w) /\ Job(w) \in Tasks /\ Job(w)' = Job(w)
    BY <1>3, <1>7 DEF NobodyStarts, Job
  <2>2. worker[w].token <= task[Job(w)].attempts
    BY <2>1 DEF IInv, Numbered
  <2>3. /\ task'[Job(w)].status = "running" /\ task'[Job(w)].lease = "live"
        /\ task'[Job(w)].attempts = worker[w].token
    BY <1>7, <2>1 DEF HoldsLease, NobodyStarts
  <2>4. task'[Job(w)] = task[Job(w)]
    BY <1>1, <1>2, <2>1, <2>2, <2>3 DEF TasksGrow
  <2> QED BY <2>1, <2>3, <2>4 DEF HoldsLease
<1> QED BY <1>4, <1>5, <1>6, <1>7

LEMMA EndsGrow ==
  ASSUME IInv, NEW x \in Tasks, TaskEnds(x)
  PROVE  TasksGrow
<1>1. \A y \in Tasks : task[y].attempts \in Nat
  BY BoundFacts DEF IInv, TypeOK, TaskRow
<1>2. \A y \in Tasks : task[y].status = "none" => task[y].attempts = 0
  BY DEF IInv, TaskSound
<1> QED BY <1>1, <1>2, NewTaskFacts DEF TaskEnds, TasksGrow

\* What the others know stays true as long as nobody joins the Workspace.
LEMMA WorkKept ==
  ASSUME member' \subseteq member, NEW r, WorkSound(r)
  PROVE  WorkSound(r)'
BY DEF WorkSound

-----------------------------------------------------------------------------
(* The rows of the targets *)

\* Rows and memberships after a transaction that settles a target.
LEMMA SettledFacts ==
  ASSUME IInv, NEW x \in Tasks, Settled(x)
  PROVE  /\ target' \in [Targets -> TargetRow] /\ removed \subseteq removed'
         /\ removed' \subseteq Targets
         /\ batch' \in {"removing", "ended"}
         /\ \A t \in Targets : target'[t].count = target[t].count
         /\ \A t \in Targets : target'[t] = target[t] \/ t = TargetOf(x)
         /\ \A t \in Targets : target'[t].reached => target[t].reached
         /\ target'[TargetOf(x)].status = "succeeded" => task'[x].status = "succeeded"
         /\ GoneWhenRemoved' /\ CanaryFirst'
<1>1. PICK rows, gone :
        /\ Settles(rows, TargetOf(x))
        /\ SettleRemovalAggregate(rows, gone)
        /\ \/ gone = removed /\ rows[TargetOf(x)].status # "succeeded"
           \/ gone = removed \cup {TargetOf(x)} /\ TargetOf(x) \notin member
              /\ task'[x].status = "succeeded"
        /\ UNCHANGED member
  BY DEF Settled
<1>2. /\ target' = rows /\ removed' = gone
      /\ batch' \in {"removing", "ended"}
      /\ batch' = "ended" => gone = Targets
  BY <1>1 DEF SettleRemovalAggregate
<1>3. PICK row \in TargetRow : /\ row.count = target[TargetOf(x)].count
                               /\ row.reached => target[TargetOf(x)].reached
                               /\ rows = [target EXCEPT ![TargetOf(x)] = row]
  BY <1>1 DEF Settles
<1>4. TargetOf(x) \in Targets /\ target \in [Targets -> TargetRow] /\ removed \subseteq Targets
  BY BoundFacts DEF IInv, TypeOK
<1>5. /\ rows \in [Targets -> TargetRow]
      /\ \A t \in Targets : rows[t].count = target[t].count
      /\ \A t \in Targets : rows[t] = target[t] \/ t = TargetOf(x)
      /\ \A t \in Targets : rows[t].reached => target[t].reached
  BY <1>3, <1>4
<1>6. removed \subseteq gone /\ gone \subseteq Targets /\ gone \cap member = {}
  BY <1>1, <1>4 DEF IInv, GoneWhenRemoved
<1>7. ASSUME NEW t \in Targets, rows[t].status = "succeeded" PROVE t \in gone
  <2>1. CASE t = TargetOf(x)
    BY <1>1, <1>7, <2>1
  <2>2. CASE t # TargetOf(x)
    BY <1>5, <1>6, <1>7, <2>2 DEF IInv, GoneWhenRemoved
  <2> QED BY <2>1, <2>2
<1>8. GoneWhenRemoved'
  BY <1>1, <1>2, <1>6, <1>7 DEF GoneWhenRemoved
<1>9. CanaryFirst'
  BY <1>1, <1>2, <1>5, <1>6 DEF IInv, CanaryFirst
<1>10. target'[TargetOf(x)].status = "succeeded" => task'[x].status = "succeeded"
  BY <1>1, <1>2
<1> QED BY <1>2, <1>5, <1>6, <1>8, <1>9, <1>10

\* Neither property is disturbed while the rows stay and nobody joins.
LEMMA RowsKept ==
  ASSUME IInv, UNCHANGED <<batch, target, removed>>, member' \subseteq member
  PROVE  GoneWhenRemoved' /\ CanaryFirst'
BY DEF IInv, GoneWhenRemoved, CanaryFirst

-----------------------------------------------------------------------------
(* Every step preserves the invariant *)

LEMMA MovePreserves ==
  ASSUME IInv, NEW w \in Workers, Moves(w)
  PROVE  IInv'
<1>1. PICK r \in Work :
        /\ WorkSound(r)
        /\ \/ r.pc = "idle"
           \/ r.task = Job(w) /\ r.token = worker[w].token
        /\ r.pc \in {"delete", "await", "verify"} =>
             worker[w].pc \in {"delete", "await", "verify"}
        /\ worker' = [worker EXCEPT ![w] = r]
  BY DEF Moves
<1>2. /\ Busy(w) /\ deletes' \in [Targets -> Deletes]
      /\ UNCHANGED <<op, batch, next, target, removed, task, member>>
  BY DEF Moves
<1>3. \A v \in Workers : worker'[v] = IF v = w THEN r ELSE worker[v]
  BY <1>1 DEF IInv, TypeOK
<1>4. TypeOK'
  BY <1>1, <1>2 DEF IInv, TypeOK
<1>5. TasksGrow /\ NobodyStarts
  <2>1. \A x \in Tasks : task[x].attempts \in Nat
    BY BoundFacts DEF IInv, TypeOK, TaskRow
  <2> QED BY <1>1, <1>2, <1>3, <2>1 DEF TasksGrow, NobodyStarts, Busy, Job
<1>6. /\ Numbered' /\ Distinct' /\ TaskSound'
      /\ \A v \in Workers : Busy(v)' /\ HoldsLease(v)' => Busy(v) /\ HoldsLease(v)
  BY <1>4, <1>5, AttemptsKept
<1>7. MutationSound'
  <2> SUFFICES ASSUME NEW v \in Workers, Mutating(v)'
               PROVE  OwnMutation(v)'
    BY DEF MutationSound
  <2>1. Busy(v)'
    BY DEF Mutating, Busy
  <2>2. Mutating(v)
    BY <1>1, <1>3, <1>6, <2>1 DEF Mutating
  <2>3. OwnMutation(v)
    BY <2>2 DEF IInv, MutationSound
  <2> QED BY <1>2, <1>5, <2>1, <2>3 DEF OwnMutation, NobodyStarts, Job
<1>8. \A v \in Workers : WorkSound(worker[v])'
  BY <1>1, <1>2, <1>3, WorkKept DEF IInv, WorkSound
<1>9. GoneWhenRemoved' /\ CanaryFirst'
  BY <1>2, RowsKept
<1>10. ServingSound'
  BY <1>2 DEF IInv, ServingSound
<1> QED BY <1>4, <1>6, <1>7, <1>8, <1>9, <1>10 DEF IInv

LEMMA ClaimPreserves ==
  ASSUME IInv, NEW w \in Workers, NEW x \in Tasks, Claims(w, x)
  PROVE  IInv'
<1>1. PICK r \in Work :
        /\ WorkSound(r)
        /\ r.task = x /\ r.token = task[x].attempts + 1 /\ r.pc \in {"read", "finish"}
        /\ worker' = [worker EXCEPT ![w] = r]
  BY DEF Claims
<1>2. /\ ~Busy(w) /\ Claimable(x)
      /\ UNCHANGED <<op, batch, next, target, removed, member, deletes>>
  BY DEF Claims
<1>3. \A v \in Workers : worker'[v] = IF v = w THEN r ELSE worker[v]
  BY <1>1 DEF IInv, TypeOK
<1> DEFINE row == [status |-> "running", lease |-> "live",
                   attempts |-> task[x].attempts + 1]
<1>4. task' = [task EXCEPT ![x] = row]
  BY DEF Claims, Claimed, IInv, TypeOK
<1>5. /\ task \in [Tasks -> TaskRow] /\ task[x].attempts \in Nat
      /\ task[x].attempts + 1 \in 0..AttemptBound
  BY <1>2, BoundFacts DEF IInv, TypeOK, TaskRow, Claimable
<1>6. row \in TaskRow /\ row.attempts = task[x].attempts + 1 /\ row.status = "running"
  BY <1>5 DEF TaskRow
<1> HIDE DEF row
<1>7. TypeOK'
  BY <1>1, <1>2, <1>4, <1>5, <1>6 DEF IInv, TypeOK
<1>8. \A y \in Tasks : task'[y] = IF y = x THEN row ELSE task[y]
  BY <1>4, <1>5
<1>9. \A v \in Workers : /\ Busy(v) => Job(v) \in Tasks
                         /\ worker[v].token \in Nat
  BY BusyFacts, BoundFacts DEF IInv, TypeOK, Work
<1>10. \A v \in Workers : Busy(v) /\ Job(v) = x => worker[v].token <= task[x].attempts
  BY DEF IInv, Numbered
<1>11. TaskSound'
  BY <1>6, <1>8 DEF IInv, TaskSound
<1>12. Numbered'
  BY <1>1, <1>3, <1>5, <1>6, <1>8, <1>9, <1>10 DEF IInv, Numbered, Busy, Job
<1>13. Distinct'
  BY <1>1, <1>3, <1>5, <1>9, <1>10 DEF IInv, Distinct, Busy, Job
<1>14. MutationSound'
  <2> SUFFICES ASSUME NEW v \in Workers, Mutating(v)'
               PROVE  OwnMutation(v)'
    BY DEF MutationSound
  <2>1. v # w /\ worker'[v] = worker[v] /\ Busy(v)
    BY <1>1, <1>3 DEF Mutating, Busy
  <2>2. Job(v) # x
    <3> SUFFICES ASSUME Job(v) = x PROVE FALSE
      OBVIOUS
    <3>1. task'[x].attempts = worker[v].token
      BY <2>1 DEF Mutating, HoldsLease, Job
    <3> QED BY <1>5, <1>6, <1>8, <1>9, <1>10, <2>1, <3>1
  <2>3. Mutating(v)
    BY <1>8, <1>9, <2>1, <2>2 DEF Mutating, HoldsLease, Job
  <2> QED BY <1>2, <2>1, <2>3 DEF IInv, MutationSound, OwnMutation, Job
<1>15. \A v \in Workers : WorkSound(worker[v])'
  BY <1>1, <1>2, <1>3, WorkKept DEF IInv, WorkSound
<1>16. GoneWhenRemoved' /\ CanaryFirst'
  BY <1>2, RowsKept
<1>17. ServingSound'
  <2>1. batch # "serving"
    BY <1>2 DEF IInv, ServingSound, Claimable, Expired
  <2> QED BY <1>2, <2>1 DEF ServingSound
<1> QED BY <1>7, <1>11, <1>12, <1>13, <1>14, <1>15, <1>16, <1>17 DEF IInv

LEMMA FinishPreserves ==
  ASSUME IInv, NEW w \in Workers, Finishes(w)
  PROVE  IInv'
<1>1. /\ Busy(w) /\ HoldsLease(w) /\ Settled(Job(w)) /\ Job(w) \in Tasks
      /\ worker' = [worker EXCEPT ![w] = Idle]
      /\ \/ op'.holder = op.holder /\ op'.token = op.token
         \/ OwnMutation(w)
  BY BusyFacts DEF Finishes
<1>2. /\ TaskEnds(Job(w)) /\ op' \in OpRow /\ UNCHANGED <<next, member, deletes>>
  BY <1>1 DEF Settled
<1>3. \A v \in Workers : worker'[v] = IF v = w THEN Idle ELSE worker[v]
  BY <1>1 DEF IInv, TypeOK
<1>4. TypeOK'
  BY <1>1, <1>2, SettledFacts, IdleFacts DEF IInv, TypeOK, TaskEnds
<1>5. TasksGrow /\ NobodyStarts
  BY <1>1, <1>2, <1>3, EndsGrow, IdleFacts DEF NobodyStarts, Busy
<1>6. /\ Numbered' /\ Distinct' /\ TaskSound'
      /\ \A v \in Workers : Busy(v)' /\ HoldsLease(v)' => Busy(v) /\ HoldsLease(v)
  BY <1>4, <1>5, AttemptsKept
<1>7. MutationSound'
  <2> SUFFICES ASSUME NEW v \in Workers, Mutating(v)'
               PROVE  OwnMutation(v)'
    BY DEF MutationSound
  <2>1. v # w /\ worker'[v] = worker[v]
    BY <1>3, IdleFacts DEF Mutating
  <2>2. Busy(v) /\ Busy(v)'
    BY <2>1 DEF Mutating, Busy
  <2>3. Mutating(v)
    BY <1>6, <2>1, <2>2 DEF Mutating
  <2>4. OwnMutation(v)
    BY <2>3 DEF IInv, MutationSound
  <2>5. ~OwnMutation(w)
    BY <1>1, <2>1, <2>2, <2>4 DEF IInv, Distinct, OwnMutation
  <2> QED BY <1>1, <2>1, <2>4, <2>5 DEF OwnMutation, Job
<1>8. \A v \in Workers : WorkSound(worker[v])'
  BY <1>2, <1>3, WorkKept, IdleFacts DEF IInv, WorkSound
<1>9. GoneWhenRemoved' /\ CanaryFirst' /\ ServingSound'
  BY <1>1, SettledFacts DEF ServingSound
<1> QED BY <1>4, <1>6, <1>7, <1>8, <1>9 DEF IInv

LEMMA RecoverPreserves ==
  ASSUME IInv, NEW x \in Tasks, Recovers(x)
  PROVE  IInv'
<1>1. /\ Expired(x) /\ Settled(x) /\ UNCHANGED worker
      /\ \/ op'.holder = op.holder /\ op'.token = op.token
         \/ op.holder = x
  BY DEF Recovers
<1>2. TaskEnds(x) /\ op' \in OpRow /\ UNCHANGED <<next, member, deletes>>
  BY <1>1 DEF Settled
<1>3. TypeOK'
  BY <1>1, <1>2, SettledFacts DEF IInv, TypeOK, TaskEnds
<1>4. TasksGrow /\ NobodyStarts
  BY <1>1, <1>2, EndsGrow DEF NobodyStarts, Busy
<1>5. /\ Numbered' /\ Distinct' /\ TaskSound'
      /\ \A v \in Workers : Busy(v)' /\ HoldsLease(v)' => Busy(v) /\ HoldsLease(v)
  BY <1>3, <1>4, AttemptsKept
<1>6. MutationSound'
  <2> SUFFICES ASSUME NEW v \in Workers, Mutating(v)'
               PROVE  OwnMutation(v)'
    BY DEF MutationSound
  <2>1. Busy(v) /\ Busy(v)' /\ worker'[v] = worker[v]
    BY <1>1 DEF Mutating, Busy
  <2>2. Mutating(v)
    BY <1>5, <2>1 DEF Mutating
  <2>3. OwnMutation(v) /\ Job(v) # x
    BY <1>1, <2>2 DEF IInv, MutationSound, Mutating, HoldsLease, Expired
  <2> QED BY <1>1, <2>1, <2>3 DEF OwnMutation, Job
<1>7. \A v \in Workers : WorkSound(worker[v])'
  BY <1>1, <1>2, WorkKept DEF IInv, WorkSound
<1>8. GoneWhenRemoved' /\ CanaryFirst' /\ ServingSound'
  BY <1>1, SettledFacts DEF ServingSound
<1> QED BY <1>3, <1>5, <1>6, <1>7, <1>8 DEF IInv

LEMMA MarkPreserves ==
  ASSUME IInv, NEW w \in Workers, MarkRemovalSideEffectStarted(w)
  PROVE  IInv'
<1> DEFINE t == Subject(w)
           r == [worker[w] EXCEPT !.pc = "delete"]
           row == [status |-> "running", reached |-> TRUE, count |-> target[t].count + 1]
<1>1. /\ Busy(w) /\ worker[w].pc = "mark" /\ HoldsLease(w) /\ MarkAllowed(w)
      /\ UNCHANGED <<batch, next, removed, task, member, deletes>>
  BY DEF MarkRemovalSideEffectStarted, At, Busy
<1>2. /\ worker[w] \in Work /\ WorkSound(worker[w]) /\ Job(w) \in Tasks /\ t \in Targets
      /\ Job(w) # NoTask
  BY <1>1, BusyFacts, BoundFacts
<1>3. /\ worker \in [Workers -> Work] /\ target \in [Targets -> TargetRow] /\ op \in OpRow
  BY DEF IInv, TypeOK
<1>4. /\ r \in Work /\ r.task = Job(w) /\ r.token = worker[w].token /\ r.pc = "delete"
      /\ worker' = [worker EXCEPT ![w] = r]
  BY <1>2, <1>3 DEF MarkRemovalSideEffectStarted, Goto, Work, Job
<1>5. row \in TargetRow
  <2>1. target[t].count \in 0..MaxRemovals /\ target[t].count < MaxRemovals
    BY <1>1, <1>2, <1>3 DEF MarkAllowed, TargetRow
  <2>2. target[t].count + 1 \in 0..MaxRemovals
    BY <2>1, BoundsAssumption
  <2> QED BY <2>2 DEF TargetRow
<1>6. row.status = "running"
  OBVIOUS
<1>7. target' = [target EXCEPT ![t] = row]
  BY <1>2, <1>3 DEF MarkRemovalSideEffectStarted
<1>8. op' \in OpRow /\ op'.holder = Job(w) /\ op'.token = worker[w].token
      /\ op'.status = "running"
  BY <1>2, <1>3 DEF MarkRemovalSideEffectStarted, OpRow, Work
<1> HIDE DEF t, r, row
<1>9. \A v \in Workers : worker'[v] = IF v = w THEN r ELSE worker[v]
  BY <1>3, <1>4
<1>10. TypeOK'
  BY <1>1, <1>2, <1>3, <1>4, <1>5, <1>7, <1>8 DEF IInv, TypeOK
<1>11. TasksGrow /\ NobodyStarts
  <2>1. \A x \in Tasks : task[x].attempts \in Nat
    BY BoundFacts DEF IInv, TypeOK, TaskRow
  <2> QED BY <1>1, <1>4, <1>9, <2>1 DEF TasksGrow, NobodyStarts, Busy, Job
<1>12. /\ Numbered' /\ Distinct' /\ TaskSound'
       /\ \A v \in Workers : Busy(v)' /\ HoldsLease(v)' => Busy(v) /\ HoldsLease(v)
  BY <1>10, <1>11, AttemptsKept
<1>13. MutationSound'
  <2> SUFFICES ASSUME NEW v \in Workers, Mutating(v)'
               PROVE  OwnMutation(v)'
    BY DEF MutationSound
  <2>1. CASE v = w
    BY <1>4, <1>8, <1>9, <2>1 DEF OwnMutation, Job
  <2>2. CASE v # w
    <3>1. worker'[v] = worker[v] /\ Busy(v) /\ Busy(v)'
      BY <1>9, <2>2 DEF Mutating, Busy
    <3>2. Mutating(v)
      BY <1>12, <3>1 DEF Mutating
    <3>3. OwnMutation(v) /\ Job(v) # NoTask
      BY <3>1, <3>2, BusyFacts, BoundFacts DEF IInv, MutationSound
    <3>4. OwnMutation(w)
      BY <1>1, <3>3 DEF MarkAllowed, MutationFree, OwnMutation
    <3>5. v = w
      BY <1>1, <3>1, <3>3, <3>4 DEF IInv, Distinct, OwnMutation
    <3> QED BY <2>2, <3>5
  <2> QED BY <2>1, <2>2
<1>14. \A v \in Workers : WorkSound(worker[v])'
  <2>1. WorkSound(r)
    BY <1>2, <1>4 DEF WorkSound
  <2> QED BY <1>1, <1>9, <2>1, WorkKept DEF IInv, WorkSound
<1>15. \A u \in Targets : u # t => target'[u] = target[u]
  BY <1>3, <1>7
<1>16. target'[t].status = "running"
  BY <1>2, <1>3, <1>6, <1>7
<1>17. GoneWhenRemoved'
  BY <1>1, <1>15, <1>16 DEF IInv, GoneWhenRemoved
<1>18. CanaryFirst'
  <2>1. t # Canary => Canary \in removed /\ Canary \notin member
    BY <1>1, CanaryAssumption DEF MarkAllowed, CanaryPassed, IInv, GoneWhenRemoved, t
  <2> QED BY <1>1, <1>15, <2>1 DEF IInv, CanaryFirst
<1>19. ServingSound'
  BY <1>1 DEF IInv, ServingSound
<1> QED BY <1>10, <1>12, <1>13, <1>14, <1>17, <1>18, <1>19 DEF IInv

\* The steps that leave the workers and the mutation lease alone.
LEMMA QuietPreserves ==
  ASSUME IInv, TypeOK', TasksGrow, UNCHANGED <<target, removed, worker>>,
         member' \subseteq member,
         batch' = batch \/ batch' = "removing",
         op'.holder = op.holder /\ op'.token = op.token,
         ServingSound'
  PROVE  IInv'
<1>1. NobodyStarts
  BY DEF NobodyStarts, Busy
<1>2. /\ Numbered' /\ Distinct' /\ TaskSound'
      /\ \A v \in Workers : Busy(v)' /\ HoldsLease(v)' => Busy(v) /\ HoldsLease(v)
  BY <1>1, AttemptsKept
<1>3. MutationSound'
  <2> SUFFICES ASSUME NEW v \in Workers, Mutating(v)'
               PROVE  OwnMutation(v)'
    BY DEF MutationSound
  <2>1. Busy(v)'
    BY DEF Mutating, Busy
  <2>2. Mutating(v)
    BY <1>2, <2>1 DEF Mutating
  <2> QED BY <2>2 DEF IInv, MutationSound, OwnMutation, Job
<1>4. \A v \in Workers : WorkSound(worker[v])'
  BY WorkKept DEF IInv, WorkSound
<1>5. GoneWhenRemoved' /\ CanaryFirst'
  BY DEF IInv, GoneWhenRemoved, CanaryFirst
<1> QED BY <1>2, <1>3, <1>4, <1>5 DEF IInv

LEMMA OwnerPreserves ==
  ASSUME IInv, OwnerStep
  PROVE  IInv'
<1>1. /\ TypeOK /\ op \in OpRow /\ task \in [Tasks -> TaskRow]
      /\ \A x \in Tasks : task[x].attempts \in Nat
      /\ \A x \in Tasks : task[x].status = "none" => task[x].attempts = 0
  BY BoundFacts DEF IInv, TypeOK, TaskRow, TaskSound
<1>2. CASE CreateRemovalOperation
  <2>1. /\ batch = "serving" /\ batch' = "removing"
        /\ op' = [op EXCEPT !.status = "queued"]
        /\ task' = [x \in Tasks |-> IF x[1] = "remove" THEN NewTask ELSE task[x]]
        /\ UNCHANGED <<next, target, removed, worker, member, deletes>>
    BY <1>2 DEF CreateRemovalOperation, CanProceed
  <2>2. op' \in OpRow /\ op'.holder = op.holder /\ op'.token = op.token
    BY <1>1, <2>1 DEF OpRow
  <2>3. TypeOK'
    BY <1>1, <2>1, <2>2, NewTaskFacts DEF TypeOK
  <2>4. TasksGrow
    BY <1>1, <2>1, NewTaskFacts DEF TasksGrow, IInv, ServingSound
  <2> QED BY <2>1, <2>2, <2>3, <2>4, QuietPreserves DEF ServingSound
<1>3. CASE \E k \in OwnerKeys : EnqueueRemovalReconciliation(k)
  <2>1. PICK new \in SUBSET Tasks :
          /\ \A x \in new : task[x].status = "none"
          /\ task' = [x \in Tasks |-> IF x \in new THEN NewTask ELSE task[x]]
    <3>1. PICK k \in OwnerKeys : EnqueueRemovalReconciliation(k)
      BY <1>3
    <3> DEFINE new == {x \in Tasks : /\ x[1] = "reconcile" /\ x[2] = k
                            /\ target[TargetOf(x)].status \in {"blocked", "unknown"}
                            /\ task[x].status = "none"}
    <3>2. task' = [x \in Tasks |-> IF x \in new THEN NewTask ELSE task[x]]
      BY <3>1 DEF EnqueueRemovalReconciliation
    <3>3. new \in SUBSET Tasks /\ \A x \in new : task[x].status = "none"
      OBVIOUS
    <3> QED BY <3>2, <3>3
  <2>2. /\ op.status = "blocked"
        /\ UNCHANGED <<op, batch, next, target, removed, worker, member, deletes>>
    BY <1>3 DEF EnqueueRemovalReconciliation
  <2>3. TypeOK'
    BY <1>1, <2>1, <2>2, NewTaskFacts DEF TypeOK
  <2>4. TasksGrow
    BY <1>1, <2>1, NewTaskFacts DEF TasksGrow
  <2>5. ServingSound'
    BY <2>2 DEF IInv, ServingSound
  <2> QED BY <2>2, <2>3, <2>4, <2>5, QuietPreserves
<1>4. CASE \E b \in NextBatches : StartNextBatch(b) \/ NextBatchSettles(b)
  <2>1. UNCHANGED <<op, batch, target, removed, task, worker, member, deletes>>
    BY <1>4 DEF StartNextBatch, NextBatchSettles
  <2>2. TypeOK'
    BY <1>1, <1>4, <2>1 DEF TypeOK, StartNextBatch, NextBatchSettles
  <2>3. TasksGrow
    BY <1>1, <2>1 DEF TasksGrow
  <2>4. ServingSound'
    BY <2>1 DEF IInv, ServingSound, Busy
  <2> QED BY <2>1, <2>2, <2>3, <2>4, QuietPreserves
<1> QED BY <1>2, <1>3, <1>4 DEF OwnerStep

LEMMA LeaseExpiryPreserves ==
  ASSUME IInv, NEW x \in Tasks, LeaseExpires(x)
  PROVE  IInv'
<1>1. /\ TypeOK /\ task \in [Tasks -> TaskRow] /\ task[x] \in TaskRow
      /\ \A y \in Tasks : task[y].attempts \in Nat
  BY BoundFacts DEF IInv, TypeOK, TaskRow
<1>2. /\ task[x].status = "running"
      /\ UNCHANGED <<op, batch, next, target, removed, worker, member, deletes>>
  BY DEF LeaseExpires
<1> DEFINE row == [task[x] EXCEPT !.lease = "expired"]
<1>3. /\ row \in TaskRow /\ row.lease = "expired" /\ row.attempts = task[x].attempts
      /\ row.status = "running"
  BY <1>1, <1>2 DEF TaskRow
<1>4. task' = [task EXCEPT ![x] = row]
  BY <1>1 DEF LeaseExpires
<1> HIDE DEF row
<1>5. \A y \in Tasks : task'[y] = IF y = x THEN row ELSE task[y]
  BY <1>1, <1>4
<1>6. TypeOK'
  BY <1>1, <1>2, <1>3, <1>4 DEF TypeOK
<1>7. TasksGrow
  BY <1>1, <1>3, <1>5 DEF TasksGrow
<1>8. ServingSound'
  BY <1>2 DEF IInv, ServingSound
<1> QED BY <1>2, <1>6, <1>7, <1>8, QuietPreserves

LEMMA PlatformPreserves ==
  ASSUME IInv, NEW t \in Targets, PlatformHandles(t)
  PROVE  IInv'
<1>1. /\ TypeOK /\ deletes[t].waiting > 0 /\ member' \subseteq member
      /\ deletes' = [deletes EXCEPT ![t] = Answered(@)]
      /\ UNCHANGED <<op, batch, next, target, removed, task, worker>>
  BY DEF PlatformHandles, IInv, TypeOK
<1>2. TypeOK'
  <2>1. deletes' \in [Targets -> Deletes]
    BY <1>1, DeleteAnswered DEF TypeOK
  <2> QED BY <1>1, <2>1 DEF TypeOK
<1>3. TasksGrow
  <2>1. \A y \in Tasks : task[y].attempts \in Nat
    BY BoundFacts DEF IInv, TypeOK, TaskRow
  <2> QED BY <1>1, <2>1 DEF TasksGrow
<1>4. ServingSound'
  BY <1>1 DEF IInv, ServingSound, Busy
<1> QED BY <1>1, <1>2, <1>3, <1>4, QuietPreserves

\* The mutation lease only runs out when no attempt depends on it.
LEMMA MutationExpiryPreserves ==
  ASSUME IInv, MutationLeaseExpires
  PROVE  IInv'
<1>1. /\ op' = Cleared(op)
      /\ \A w \in Workers : worker[w].pc \notin {"idle", "read"} => ~HoldsLease(w)
      /\ UNCHANGED <<batch, next, target, removed, task, worker, member, deletes>>
  BY DEF MutationLeaseExpires
<1>2. op' \in OpRow /\ op'.status = op.status
  BY <1>1, OpFacts DEF IInv, TypeOK, Cleared, OpRow
<1>3. TypeOK'
  BY <1>1, <1>2 DEF IInv, TypeOK
<1>4. \A w \in Workers : ~Mutating(w)'
  BY <1>1 DEF Mutating, HoldsLease, Job
<1>5. MutationSound'
  BY <1>4 DEF MutationSound
<1>6. ServingSound'
  BY <1>1, <1>2 DEF IInv, ServingSound, Busy
<1>7. \A v \in Workers : WorkSound(worker[v])'
  BY <1>1, WorkKept DEF IInv, WorkSound
<1>8. GoneWhenRemoved' /\ CanaryFirst'
  BY <1>1, RowsKept
<1>9. Numbered' /\ Distinct' /\ TaskSound'
  BY <1>1 DEF IInv, Numbered, Distinct, TaskSound, Busy, Job
<1> QED BY <1>3, <1>5, <1>6, <1>7, <1>8, <1>9 DEF IInv

LEMMA StutterPreserves ==
  ASSUME IInv, UNCHANGED vars
  PROVE  IInv'
BY DEF IInv, vars, TypeOK, ServingSound, TaskSound, WorkSound, Numbered, Distinct,
       MutationSound, Mutating, HoldsLease, OwnMutation, Busy, Job,
       GoneWhenRemoved, CanaryFirst

-----------------------------------------------------------------------------
(* Theorems *)

LEMMA InitSound == Init => IInv
<1> SUFFICES ASSUME Init PROVE IInv
  OBVIOUS
<1>1. /\ \A x \in Tasks : task[x] = Absent
      /\ \A w \in Workers : worker[w] = Idle
      /\ \A t \in Targets : target[t].status = "queued" /\ target[t].count = 0
  BY DEF Init
<1>2. TypeOK
  <2>1. [status |-> "queued", reached |-> FALSE, count |-> 0] \in TargetRow
    BY BoundsAssumption DEF TargetRow
  <2>2. [status |-> "none", holder |-> NoTask, token |-> 0] \in OpRow
    BY BoundFacts DEF OpRow
  <2>3. [sent |-> 0, waiting |-> 0] \in Deletes
    BY DEF Deletes
  <2> QED BY <2>1, <2>2, <2>3, IdleFacts, NewTaskFacts DEF Init, TypeOK
<1>3. ServingSound /\ TaskSound
  BY <1>1, NewTaskFacts, IdleFacts DEF Init, ServingSound, TaskSound, Busy
<1>4. Numbered /\ Distinct /\ MutationSound /\ \A w \in Workers : WorkSound(worker[w])
  BY <1>1, IdleFacts DEF Numbered, Distinct, MutationSound, Mutating, Busy
<1>5. GoneWhenRemoved /\ CanaryFirst
  BY <1>1 DEF Init, GoneWhenRemoved, CanaryFirst
<1> QED BY <1>2, <1>3, <1>4, <1>5 DEF IInv

\* What a step can be, by form.
LEMMA NextForms ==
  ASSUME IInv, Next
  PROVE  \/ OwnerStep
         \/ \E w \in Workers, x \in Tasks : Claims(w, x)
         \/ \E x \in Tasks : Recovers(x)
         \/ \E w \in Workers : Moves(w)
         \/ \E w \in Workers : MarkRemovalSideEffectStarted(w)
         \/ \E w \in Workers : Finishes(w)
         \/ \E x \in Tasks : LeaseExpires(x)
         \/ MutationLeaseExpires
         \/ \E t \in Targets : PlatformHandles(t)
<1>1. CASE \E w \in Workers : TickStep(w)
  BY <1>1, RecoverForms, ClaimForms DEF TickStep
<1>2. CASE \E w \in Workers : RemovalStep(w)
  BY <1>2, MoveForms, FinishForms DEF RemovalStep
<1>3. CASE \E w \in Workers : TransactionFails(w) \/ Abandon(w)
  BY <1>3, MoveForms DEF TransactionFails
<1> QED BY <1>1, <1>2, <1>3 DEF Next, RunOnce, ClockStep

LEMMA StepPreserves == IInv /\ [Next]_vars => IInv'
BY NextForms, OwnerPreserves, ClaimPreserves, RecoverPreserves,
   MovePreserves, MarkPreserves, FinishPreserves, LeaseExpiryPreserves,
   MutationExpiryPreserves, PlatformPreserves, StutterPreserves

\* The inductive invariant holds of every behaviour, for any number of targets,
\* workers, reconciliations and attempts.
THEOREM RemovalSoundness == Spec => []IInv
BY InitSound, StepPreserves, PTL DEF Spec

\* Every row and worker keeps a value its CHECK constraints allow; no count of
\* attempts or markers passes its maximum.
THEOREM RemovalTypeCorrect == Spec => []TypeOK
<1>1. IInv => TypeOK
  BY DEF IInv
<1> QED BY <1>1, RemovalSoundness, PTL

\* No marker of another target is committed before the canary is confirmed gone.
THEOREM CanaryGoesFirst == Spec => []CanaryFirst
<1>1. IInv => CanaryFirst
  BY DEF IInv
<1> QED BY <1>1, RemovalSoundness, PTL

\* What is recorded as removed is gone, whatever answers are lost or late.
THEOREM RemovedIsGone == Spec => []GoneWhenRemoved
<1>1. IInv => GoneWhenRemoved
  BY DEF IInv
<1> QED BY <1>1, RemovalSoundness, PTL

\* Between its marker and its outcome a removal with a valid lease has the
\* Workspace for itself.
THEOREM OneRemoverAtATime == Spec => []OneRemover
<1>1. IInv => OneRemover
  BY DEF IInv, MutationSound, OneRemover, Mutating, OwnMutation, Distinct, Busy
<1> QED BY <1>1, RemovalSoundness, PTL

-----------------------------------------------------------------------------
(* Without Owner reconciliations every target has one task *)

\* An attempt that is still the last one of its task and has read the row
\* unmarked is right about it.
ReadSound ==
  \A w \in Workers :
    Undecided(worker[w]) /\ worker[w].token = task[Job(w)].attempts
    => ~target[Subject(w)].reached

\* A confirmed target has no task that could change it.
ConfirmedSound ==
  \A x \in Tasks : target[TargetOf(x)].status = "succeeded" => task[x].status = "succeeded"

SoleInv == IInv /\ ReadSound /\ ConfirmedSound

LEMMA SoleTasks ==
  ASSUME OwnerKeys = {}
  PROVE  /\ \A x \in Tasks : IsRemove(x) /\ x = <<"remove", NoKey, TargetOf(x)>>
         /\ \A t \in Targets : <<"remove", NoKey, t>> \in Tasks
                               /\ TargetOf(<<"remove", NoKey, t>>) = t
BY DEF Tasks, IsRemove, TargetOf

LEMMA TokenFacts ==
  ASSUME IInv
  PROVE  /\ \A x \in Tasks : task[x].attempts \in Nat
         /\ \A w \in Workers :
              /\ worker[w].token \in Nat
              /\ Busy(w) => Job(w) \in Tasks /\ worker[w].token <= task[Job(w)].attempts
BY BusyFacts, BoundFacts DEF IInv, TypeOK, TaskRow, Work, Numbered

\* Nobody who was overtaken becomes the last attempt again.
LEMMA ReadsKept ==
  ASSUME IInv, IInv', ReadSound, TasksGrow,
         \A t \in Targets : target'[t].reached => target[t].reached,
         \A w \in Workers :
           Undecided(worker[w])' =>
             /\ Busy(w) /\ worker'[w].task = worker[w].task
             /\ worker'[w].token = worker[w].token
             /\ Undecided(worker[w]) \/ ~target[Subject(w)].reached
  PROVE  ReadSound'
<1> SUFFICES ASSUME NEW w \in Workers, Undecided(worker[w])',
                    worker'[w].token = task'[Job(w)'].attempts
             PROVE  ~target'[Subject(w)'].reached
  BY DEF ReadSound
<1>1. /\ Busy(w) /\ Job(w)' = Job(w) /\ Subject(w)' = Subject(w)
      /\ Job(w) \in Tasks /\ Subject(w) \in Targets
  BY BusyFacts DEF Job, Subject
<1>2. worker[w].token = task[Job(w)].attempts
  <2>1. task'[Job(w)].attempts \in Nat /\ task'[Job(w)].attempts >= task[Job(w)].attempts
    BY <1>1, TokenFacts DEF TasksGrow, IInv, TypeOK, TaskRow
  <2>2. worker[w].token = task'[Job(w)].attempts
    BY <1>1
  <2> QED BY <1>1, <2>1, <2>2, TokenFacts
<1> QED BY <1>1, <1>2 DEF ReadSound

LEMMA SoleSteps ==
  ASSUME OwnerKeys = {}, SoleInv, IInv', Next
  PROVE  ReadSound' /\ ConfirmedSound'
<1>1. /\ IInv /\ ReadSound /\ ConfirmedSound /\ worker \in [Workers -> Work]
      /\ target \in [Targets -> TargetRow] /\ task \in [Tasks -> TaskRow]
  BY DEF SoleInv, IInv, TypeOK
<1>2. \A x \in Tasks : TargetOf(x) \in Targets /\ task[x].attempts \in Nat
  BY <1>1, BoundFacts, TokenFacts
<1>3. ASSUME UNCHANGED <<target, worker>>, TasksGrow,
             \A x \in Tasks : task[x].status = "succeeded" => task'[x].status = "succeeded"
      PROVE  ReadSound' /\ ConfirmedSound'
  <2>1. ReadSound'
    BY <1>1, <1>3, ReadsKept DEF Undecided, Busy
  <2>2. ConfirmedSound'
    BY <1>1, <1>3 DEF ConfirmedSound
  <2> QED BY <2>1, <2>2
<1>4. CASE OwnerStep
  <2>1. CASE CreateRemovalOperation
    <3>1. /\ UNCHANGED <<target, worker>> /\ batch = "serving"
          /\ task' = [x \in Tasks |-> IF x[1] = "remove" THEN NewTask ELSE task[x]]
      BY <2>1 DEF CreateRemovalOperation, CanProceed
    <3>2. \A x \in Tasks : task[x].status = "none" /\ task[x].attempts = 0
      BY <1>1, <3>1 DEF IInv, ServingSound, TaskSound
    <3> QED BY <1>3, <3>1, <3>2, NewTaskFacts DEF TasksGrow
  <2>2. CASE \E b \in NextBatches : StartNextBatch(b) \/ NextBatchSettles(b)
    BY <1>2, <1>3, <2>2 DEF StartNextBatch, NextBatchSettles, TasksGrow
  <2> QED BY <1>4, <2>1, <2>2 DEF OwnerStep
<1>5. ASSUME NEW w \in Workers, NEW x \in Tasks, Claims(w, x)
      PROVE  ReadSound' /\ ConfirmedSound'
  <2>1. PICK r \in Work : r.pc \in {"read", "finish"} /\ worker' = [worker EXCEPT ![w] = r]
    BY <1>5 DEF Claims
  <2>2. /\ Claimable(x) /\ UNCHANGED target
        /\ \A y \in Tasks : task'[y] = IF y = x THEN [status |-> "running", lease |-> "live",
                                          attempts |-> task[x].attempts + 1] ELSE task[y]
    BY <1>1, <1>5 DEF Claims, Claimed
  <2>3. TasksGrow
    BY <1>2, <2>2 DEF TasksGrow
  <2>4. \A v \in Workers : worker'[v] = IF v = w THEN r ELSE worker[v]
    BY <1>1, <2>1
  <2>5. ReadSound'
    BY <1>1, <2>1, <2>2, <2>3, <2>4, ReadsKept DEF Undecided, Busy
  <2>6. task[x].status # "succeeded"
    BY <2>2 DEF Claimable, Expired
  <2>7. ConfirmedSound'
    BY <1>1, <2>2, <2>6 DEF ConfirmedSound
  <2> QED BY <2>5, <2>7
<1>6. ASSUME NEW x \in Tasks, Settled(x),
             \A w \in Workers : worker'[w] = worker[w] \/ worker'[w] = Idle
      PROVE  ReadSound' /\ ConfirmedSound'
  <2>1. TaskEnds(x)
    BY <1>6 DEF Settled
  <2>2. TasksGrow
    BY <1>1, <2>1, EndsGrow
  <2>3. ReadSound'
    BY <1>1, <1>6, <2>2, SettledFacts, ReadsKept, IdleFacts DEF Undecided, Busy
  <2>4. ASSUME NEW y \in Tasks, target'[TargetOf(y)].status = "succeeded"
        PROVE  task'[y].status = "succeeded"
    <3>1. CASE y = x
      BY <1>1, <1>6, <2>4, <3>1, SettledFacts
    <3>2. CASE y # x
      <4>1. TargetOf(y) # TargetOf(x)
        BY <3>2, SoleTasks
      <4>2. task[y].status = "succeeded"
        BY <1>1, <1>2, <1>6, <2>4, <4>1, SettledFacts DEF ConfirmedSound
      <4> QED BY <2>1, <3>2, <4>2 DEF TaskEnds
    <3> QED BY <3>1, <3>2
  <2> QED BY <2>3, <2>4 DEF ConfirmedSound
<1>7. ASSUME NEW w \in Workers, Finishes(w) PROVE ReadSound' /\ ConfirmedSound'
  BY <1>1, <1>6, <1>7, BusyFacts DEF Finishes
<1>8. ASSUME NEW x \in Tasks, Recovers(x) PROVE ReadSound' /\ ConfirmedSound'
  BY <1>6, <1>8 DEF Recovers
<1>9. ASSUME NEW w \in Workers, Moves(w) PROVE ReadSound' /\ ConfirmedSound'
  <2>1. PICK r \in Work :
          /\ \/ r.pc = "idle"
             \/ r.task = Job(w) /\ r.token = worker[w].token
          /\ Undecided(r) => Undecided(worker[w]) \/ ~target[Subject(w)].reached
          /\ worker' = [worker EXCEPT ![w] = r]
    BY <1>9 DEF Moves
  <2>2. \A v \in Workers : worker'[v] = IF v = w THEN r ELSE worker[v]
    BY <1>1, <2>1
  <2>3. Busy(w) /\ UNCHANGED <<target, task>>
    BY <1>9 DEF Moves
  <2>4. TasksGrow
    BY <1>2, <2>3 DEF TasksGrow
  <2>5. ReadSound'
    BY <1>1, <2>1, <2>2, <2>3, <2>4, ReadsKept DEF Undecided, Busy, Job
  <2> QED BY <1>1, <2>3, <2>5 DEF ConfirmedSound
<1>10. ASSUME NEW w \in Workers, MarkRemovalSideEffectStarted(w)
       PROVE  ReadSound' /\ ConfirmedSound'
  <2>1. /\ Busy(w) /\ HoldsLease(w) /\ worker[w].pc = "mark" /\ UNCHANGED task
        /\ worker' = [worker EXCEPT ![w].pc = "delete"]
        /\ target' = [target EXCEPT ![Subject(w)] =
                        [status |-> "running", reached |-> TRUE, count |-> @.count + 1]]
    BY <1>10 DEF MarkRemovalSideEffectStarted, At, Busy, Goto
  <2>2. Subject(w) \in Targets /\ Job(w) \in Tasks /\ worker[w] \in Work
    BY <1>1, <2>1, BusyFacts
  <2>3. /\ \A v \in Workers : v # w => worker'[v] = worker[v]
        /\ worker'[w].pc = "delete"
        /\ \A t \in Targets : t # Subject(w) => target'[t] = target[t]
        /\ target'[Subject(w)].status = "running"
    BY <1>1, <2>1, <2>2 DEF Work
  <2>4. ReadSound'
    <3> SUFFICES ASSUME NEW v \in Workers, Undecided(worker[v])',
                        worker'[v].token = task'[Job(v)'].attempts
                 PROVE  ~target'[Subject(v)'].reached
      BY DEF ReadSound
    <3>1. v # w /\ worker'[v] = worker[v] /\ Undecided(worker[v]) /\ Busy(v)
      BY <2>3 DEF Undecided, Busy
    <3>2. /\ Job(v)' = Job(v) /\ Subject(v)' = Subject(v)
          /\ Job(v) \in Tasks /\ Subject(v) \in Targets
      BY <1>1, <3>1, BusyFacts DEF Job, Subject
    <3>3. worker[v].token = task[Job(v)].attempts
      BY <2>1, <3>1, <3>2
    <3>4. Subject(v) # Subject(w)
      <4> SUFFICES ASSUME Subject(v) = Subject(w) PROVE FALSE
        OBVIOUS
      <4>1. Job(v) = Job(w)
        BY <2>2, <3>2, SoleTasks DEF Subject
      <4>2. worker[v].token = worker[w].token
        BY <2>1, <3>3, <4>1 DEF HoldsLease
      <4> QED BY <1>1, <2>1, <3>1, <4>1, <4>2 DEF IInv, Distinct
    <3> QED BY <1>1, <2>3, <3>1, <3>2, <3>3, <3>4 DEF ReadSound
  <2>5. ConfirmedSound'
    BY <1>1, <1>2, <2>1, <2>3 DEF ConfirmedSound
  <2> QED BY <2>4, <2>5
<1>11. ASSUME NEW x \in Tasks, LeaseExpires(x) PROVE ReadSound' /\ ConfirmedSound'
  <2>1. /\ task[x].status = "running" /\ UNCHANGED <<target, worker>>
        /\ task' = [task EXCEPT ![x].lease = "expired"]
    BY <1>11 DEF LeaseExpires
  <2>2. /\ task'[x].attempts = task[x].attempts /\ task'[x].lease = "expired"
        /\ task'[x].status = task[x].status
        /\ \A y \in Tasks : y # x => task'[y] = task[y]
    BY <1>1, <2>1 DEF TaskRow
  <2>3. TasksGrow
    BY <1>2, <2>1, <2>2 DEF TasksGrow
  <2> QED BY <1>3, <2>1, <2>2, <2>3
<1>12. CASE MutationLeaseExpires \/ \E t \in Targets : PlatformHandles(t)
  BY <1>2, <1>3, <1>12 DEF MutationLeaseExpires, PlatformHandles, TasksGrow
<1> QED BY <1>1, <1>4, <1>5, <1>7, <1>8, <1>9, <1>10, <1>11, <1>12, NextForms

\* Without Owner reconciliations, the last attempt of a task is right about the
\* marker, and a confirmed target has no task left that could change it.
THEOREM SoleTaskSound ==
  ASSUME OwnerKeys = {}
  PROVE  Spec => []SoleInv
<1>1. Init => SoleInv
  <2> SUFFICES ASSUME Init PROVE SoleInv
    OBVIOUS
  <2>1. /\ \A w \in Workers : worker[w].pc = "idle"
        /\ \A x \in Tasks : target[TargetOf(x)].status = "queued"
    BY BoundFacts, IdleFacts DEF Init
  <2> QED BY <2>1, InitSound DEF SoleInv, ReadSound, ConfirmedSound, Undecided
<1>2. ASSUME SoleInv, [Next]_vars PROVE SoleInv'
  <2>1. IInv'
    BY <1>2, StepPreserves DEF SoleInv
  <2>2. CASE Next
    BY <1>2, <2>1, <2>2, SoleSteps DEF SoleInv
  <2>3. CASE UNCHANGED vars
    BY <1>2, <2>1, <2>3
       DEF SoleInv, ReadSound, ConfirmedSound, Undecided, Job, Subject, vars
  <2> QED BY <1>2, <2>2, <2>3
<1> QED BY <1>1, <1>2, PTL DEF Spec

\* Without Owner reconciliations, no marker is committed over an uncertain one:
\* the next attempt of a possibly delivered DELETE only reads.
THEOREM FactsComeFirst ==
  ASSUME OwnerKeys = {}
  PROVE  Spec => FactsFirst
<1>1. ASSUME SoleInv, [Next]_vars,
             NEW t \in Targets, target'[t].count > target[t].count
      PROVE  ~target[t].reached
  <2>1. /\ IInv /\ ReadSound /\ target \in [Targets -> TargetRow]
        /\ target[t].count \in Nat
    BY <1>1 DEF SoleInv, IInv, TypeOK, TargetRow
  <2>2. target'[t].count # target[t].count
    BY <1>1, <2>1
  <2>3. ASSUME NEW x \in Tasks, Settled(x) PROVE FALSE
    BY <2>1, <2>2, <2>3, SettledFacts
  <2>4. ASSUME NEW w \in Workers, Finishes(w) PROVE FALSE
    BY <2>1, <2>3, <2>4, BusyFacts DEF Finishes
  <2>5. ASSUME NEW x \in Tasks, Recovers(x) PROVE FALSE
    BY <2>3, <2>5 DEF Recovers
  <2>6. Next
    BY <1>1, <2>2 DEF vars
  <2>7. PICK w \in Workers : MarkRemovalSideEffectStarted(w)
    BY <2>1, <2>2, <2>4, <2>5, <2>6, NextForms
       DEF OwnerStep, CreateRemovalOperation, EnqueueRemovalReconciliation,
           StartNextBatch, NextBatchSettles, Claims, Moves, LeaseExpires,
           MutationLeaseExpires, PlatformHandles
  <2>8. /\ worker[w].pc = "mark" /\ HoldsLease(w) /\ Busy(w)
        /\ target' = [target EXCEPT ![Subject(w)] =
                        [status |-> "running", reached |-> TRUE, count |-> @.count + 1]]
    BY <2>7 DEF MarkRemovalSideEffectStarted, At, Busy
  <2>9. t = Subject(w)
    BY <2>1, <2>2, <2>8
  <2>10. Undecided(worker[w])
    BY <2>1, <2>8, BusyFacts DEF WorkSound, Undecided
  <2> QED BY <2>1, <2>8, <2>9, <2>10 DEF ReadSound, HoldsLease
<1>2. SoleInv /\ [Next]_vars =>
        [\A t \in Targets : target'[t].count > target[t].count => ~target[t].reached]_vars
  BY <1>1
<1> QED BY <1>2, SoleTaskSound, PTL DEF Spec, FactsFirst

\* Without Owner reconciliations, no late commit or recovery takes a confirmed
\* removal back.
THEOREM RemovalsStand ==
  ASSUME OwnerKeys = {}
  PROVE  Spec => RemovalStands
<1>1. ASSUME SoleInv, [Next]_vars, NEW t \in Targets, target[t].status = "succeeded"
      PROVE  target'[t].status = "succeeded"
  <2> DEFINE x == <<"remove", NoKey, t>>
  <2>1. x \in Tasks /\ TargetOf(x) = t /\ \A y \in Tasks : TargetOf(y) = t => y = x
    BY SoleTasks
  <2>2. /\ IInv /\ target \in [Targets -> TargetRow] /\ task[x].status = "succeeded"
    BY <1>1, <2>1 DEF SoleInv, IInv, TypeOK, ConfirmedSound
  <2> HIDE DEF x
  <2>3. ASSUME NEW y \in Tasks, Settled(y), task[y].status = "running"
        PROVE  target'[t] = target[t]
    BY <2>1, <2>2, <2>3, SettledFacts
  <2>4. ASSUME NEW w \in Workers, Finishes(w) PROVE target'[t] = target[t]
    BY <2>2, <2>3, <2>4, BusyFacts DEF Finishes, HoldsLease
  <2>5. ASSUME NEW y \in Tasks, Recovers(y) PROVE target'[t] = target[t]
    BY <2>3, <2>5 DEF Recovers, Expired
  <2>6. ASSUME NEW w \in Workers, MarkRemovalSideEffectStarted(w)
        PROVE  target'[t] = target[t]
    <3>1. /\ Busy(w) /\ HoldsLease(w)
          /\ target' = [target EXCEPT ![Subject(w)] =
                          [status |-> "running", reached |-> TRUE, count |-> @.count + 1]]
      BY <2>6 DEF MarkRemovalSideEffectStarted, At, Busy
    <3>2. Subject(w) # t
      BY <2>1, <2>2, <3>1, BusyFacts DEF HoldsLease
    <3> QED BY <2>2, <3>1, <3>2
  <2>7. CASE UNCHANGED vars
    BY <1>1, <2>7 DEF vars
  <2>8. CASE Next
    <3>1. target'[t] = target[t]
      BY <2>2, <2>4, <2>5, <2>6, <2>8, NextForms
         DEF OwnerStep, CreateRemovalOperation, EnqueueRemovalReconciliation,
             StartNextBatch, NextBatchSettles, Claims, Moves, LeaseExpires,
             MutationLeaseExpires, PlatformHandles
    <3> QED BY <1>1, <3>1
  <2> QED BY <1>1, <2>7, <2>8
<1>2. SoleInv /\ [Next]_vars =>
        [\A t \in Targets : target[t].status = "succeeded" =>
            target'[t].status = "succeeded"]_vars
  BY <1>1
<1> QED BY <1>2, SoleTaskSound, PTL DEF Spec, RemovalStands

-----------------------------------------------------------------------------
(* The DELETEs of a target are bounded *)

\* What the steps that do not start a DELETE of t do to its counts.
CountsKept(t) ==
  target'[t].count = target[t].count /\ deletes'[t].sent = deletes[t].sent

\* Who may send is read off the position and the task of each worker.
LEMMA LicensedKept ==
  ASSUME UNCHANGED worker, NEW t \in Targets
  PROVE  Licensed(t)' = Licensed(t)
BY DEF Licensed, At, Subject, Job

LEMMA LicensedElsewhere ==
  ASSUME TypeOK, NEW w \in Workers, NEW r, worker' = [worker EXCEPT ![w] = r],
         r.pc # "delete", NEW t \in Targets
  PROVE  Licensed(t)' = Licensed(t) \ {w}
<1>1. worker'[w] = r /\ \A v \in Workers : v # w => worker'[v] = worker[v]
  BY DEF TypeOK
<1> QED BY <1>1 DEF Licensed, At, Subject, Job

\* A worker whose next position is not before a DELETE does not send one later
\* under the marker it leaves.
LEMMA LapseStep ==
  ASSUME TypeOK, NEW w \in Workers, NEW r, worker' = [worker EXCEPT ![w] = r],
         r.pc # "delete", NEW t \in Targets, CountsKept(t)
  PROVE  [DeleteEffect(t)!Next]_(DeleteEffect(t)!vars)
<1>1. Licensed(t)' = Licensed(t) \ {w}
  BY LicensedElsewhere
<1>2. CASE w \in Licensed(t)
  <2>1. DeleteEffect(t)!Lapse(w)
    BY <1>1, <1>2 DEF CountsKept, DeleteEffect!Lapse
  <2> QED BY <2>1 DEF DeleteEffect!Next
<1>3. CASE w \notin Licensed(t)
  <2>1. Licensed(t)' = Licensed(t)
    BY <1>1, <1>3
  <2> QED BY <2>1 DEF CountsKept, DeleteEffect!vars
<1> QED BY <1>2, <1>3

\* A step that leaves the workers alone.
LEMMA CountsStep ==
  ASSUME UNCHANGED worker, NEW t \in Targets, CountsKept(t)
  PROVE  UNCHANGED DeleteEffect(t)!vars
BY LicensedKept DEF CountsKept, DeleteEffect!vars

\* MarkRemovalSideEffectStarted counts a marker of its target.
LEMMA MarkCounts ==
  ASSUME TypeOK, NEW w \in Workers, Busy(w), Subject(w) \in Targets,
         MarkRemovalSideEffectStarted(w), NEW t \in Targets
  PROVE  [DeleteEffect(t)!Next]_(DeleteEffect(t)!vars)
<1> DEFINE row == [status |-> "running", reached |-> TRUE,
                   count |-> target[Subject(w)].count + 1]
           r == [worker[w] EXCEPT !.pc = "delete"]
<1>1. /\ worker[w] \in Work /\ worker \in [Workers -> Work]
      /\ target \in [Targets -> TargetRow]
  BY DEF TypeOK
<1>2. /\ worker[w].pc = "mark" /\ target[Subject(w)].count < MaxRemovals
      /\ target' = [target EXCEPT ![Subject(w)] = row]
      /\ worker' = [worker EXCEPT ![w] = r] /\ UNCHANGED deletes
  BY <1>1 DEF MarkRemovalSideEffectStarted, MarkAllowed, At, Goto
<1>3. r.pc = "delete" /\ r.task = Job(w) /\ row.count = target[Subject(w)].count + 1
  BY <1>1 DEF Work, Job
<1> HIDE DEF row, r
<1>4. /\ worker'[w] = r /\ \A v \in Workers : v # w => worker'[v] = worker[v]
      /\ w \notin Licensed(t)
  BY <1>1, <1>2 DEF Licensed, At
<1>5. CASE t = Subject(w)
  <2>1. Licensed(t)' = Licensed(t) \cup {w}
    BY <1>3, <1>4, <1>5 DEF Licensed, At, Subject, Job
  <2>2. target'[t].count = target[t].count + 1
    BY <1>1, <1>2, <1>3, <1>5
  <2>3. DeleteEffect(t)!Mark(w)
    BY <1>2, <1>4, <1>5, <2>1, <2>2 DEF DeleteEffect!Mark
  <2> QED BY <2>3 DEF DeleteEffect!Next
<1>6. CASE t # Subject(w)
  <2>1. Licensed(t)' = Licensed(t)
    BY <1>3, <1>4, <1>6 DEF Licensed, At, Subject, Job
  <2>2. target'[t] = target[t]
    BY <1>1, <1>2, <1>6
  <2> QED BY <1>2, <2>1, <2>2 DEF DeleteEffect!vars
<1> QED BY <1>5, <1>6

\* RemoveMember sends under the marker of this worker.
LEMMA SendCounts ==
  ASSUME TypeOK, NEW w \in Workers, Subject(w) \in Targets, RemoveMember(w),
         NEW t \in Targets
  PROVE  [DeleteEffect(t)!Next]_(DeleteEffect(t)!vars)
<1> DEFINE r == [worker[w] EXCEPT !.pc = "await"]
<1>1. /\ worker[w] \in Work /\ worker \in [Workers -> Work]
      /\ deletes \in [Targets -> Deletes]
  BY DEF TypeOK
<1>2. /\ worker[w].pc = "delete" /\ worker' = [worker EXCEPT ![w] = r]
      /\ UNCHANGED target
  BY <1>1 DEF RemoveMember, At, Goto
<1>3. r.pc = "await"
  BY <1>1 DEF Work
<1> HIDE DEF r
<1>4. Licensed(t)' = Licensed(t) \ {w}
  BY <1>2, <1>3, LicensedElsewhere
<1>5. CASE t = Subject(w)
  <2>1. w \in Licensed(t) /\ deletes'[t].sent = deletes[t].sent + 1
    BY <1>1, <1>2, <1>5, DeleteSends DEF Licensed, At, RemoveMember
  <2>2. DeleteEffect(t)!Send(w)
    BY <1>2, <1>4, <2>1 DEF DeleteEffect!Send
  <2> QED BY <2>2 DEF DeleteEffect!Next
<1>6. CASE t # Subject(w)
  <2>1. CountsKept(t)
    BY <1>1, <1>2, <1>6, DeleteSends DEF RemoveMember, CountsKept
  <2> QED BY <1>2, <1>3, <2>1, LapseStep
<1> QED BY <1>5, <1>6

\* The other steps of a worker in runRemoval leave the position before a DELETE,
\* if they were there, and count nothing.
LEMMA MoveCounts ==
  ASSUME TypeOK, NEW w \in Workers, Subject(w) \in Targets, NEW t \in Targets,
         \/ ReadTarget(w) \/ SnapshotMembers(w) \/ DeleteUncertain(w)
         \/ DeleteRejected(w) \/ VerifyRemoval(w) \/ Abandon(w)
  PROVE  [DeleteEffect(t)!Next]_(DeleteEffect(t)!vars)
<1>1. worker[w] \in Work /\ worker \in [Workers -> Work] /\ deletes \in [Targets -> Deletes]
  BY DEF TypeOK
<1>2. CountsKept(t)
  <2>1. CASE DeleteRejected(w)
    BY <1>1, <2>1, DeleteAnswered DEF DeleteRejected, CountsKept
  <2>2. CASE UNCHANGED <<target, deletes>>
    BY <2>2 DEF CountsKept
  <2> QED BY <2>1, <2>2 DEF ReadTarget, SnapshotMembers, DeleteUncertain, VerifyRemoval,
                            Abandon, LocalStep
<1>3. ASSUME NEW outcome, Conclude(w, outcome)
      PROVE  [DeleteEffect(t)!Next]_(DeleteEffect(t)!vars)
  <2> DEFINE r == [worker[w] EXCEPT !.pc = "finish", !.outcome = outcome]
  <2>1. worker' = [worker EXCEPT ![w] = r] /\ r.pc = "finish"
    BY <1>1, <1>3 DEF Conclude, Work
  <2> HIDE DEF r
  <2> QED BY <1>2, <2>1, LapseStep
<1>4. CASE ReadTarget(w)
  <2> DEFINE r == [worker[w] EXCEPT !.pc = "snapshot", !.readOnly = ReadsOnly(w),
                                    !.spent = target[Subject(w)].count >= MaxRemovals]
  <2>1. worker' = [worker EXCEPT ![w] = r] /\ r.pc = "snapshot"
    BY <1>1, <1>4 DEF ReadTarget, Work
  <2> HIDE DEF r
  <2> QED BY <1>2, <2>1, LapseStep
<1>5. CASE SnapshotMembers(w)
  <2>1. CASE Goto(w, "mark")
    <3> DEFINE r == [worker[w] EXCEPT !.pc = "mark"]
    <3>1. worker' = [worker EXCEPT ![w] = r] /\ r.pc = "mark"
      BY <1>1, <2>1 DEF Goto, Work
    <3> HIDE DEF r
    <3> QED BY <1>2, <3>1, LapseStep
  <2>2. CASE \E outcome : Conclude(w, outcome)
    BY <1>3, <2>2
  <2> QED BY <1>5, <2>1, <2>2 DEF SnapshotMembers
<1>6. CASE DeleteUncertain(w) \/ DeleteRejected(w)
  <2>1. CASE \E outcome : Conclude(w, outcome)
    BY <1>3, <2>1
  <2>2. CASE \E outcome : worker' = [worker EXCEPT ![w] =
                            [@ EXCEPT !.pc = "verify", !.outcome = outcome]]
    <3>1. PICK outcome : worker' = [worker EXCEPT ![w] =
                           [@ EXCEPT !.pc = "verify", !.outcome = outcome]]
      BY <2>2
    <3> DEFINE r == [worker[w] EXCEPT !.pc = "verify", !.outcome = outcome]
    <3>2. worker' = [worker EXCEPT ![w] = r] /\ r.pc = "verify"
      BY <1>1, <3>1 DEF Work
    <3> HIDE DEF r
    <3> QED BY <1>2, <3>2, LapseStep
  <2> QED BY <1>6, <2>1, <2>2 DEF DeleteUncertain, DeleteRejected
<1>7. CASE VerifyRemoval(w)
  BY <1>3, <1>7 DEF VerifyRemoval
<1>8. CASE Abandon(w)
  <2>1. worker' = [worker EXCEPT ![w] = Idle]
    BY <1>8 DEF Abandon
  <2> QED BY <1>2, <2>1, IdleFacts, LapseStep
<1> QED BY <1>4, <1>5, <1>6, <1>7, <1>8

\* Every step is one of BoundedEffect for each target, or none.
LEMMA BoundedStep ==
  ASSUME IInv, [Next]_vars, NEW t \in Targets
  PROVE  [DeleteEffect(t)!Next]_(DeleteEffect(t)!vars)
<1>1. TypeOK
  BY DEF IInv
<1>2. ASSUME NEW u \in Targets, NEW rows, Settles(rows, u), target' = rows
      PROVE  target'[t].count = target[t].count
  BY <1>1, <1>2 DEF Settles, TypeOK
<1>3. CASE OwnerStep \/ ClockStep \/ UNCHANGED vars
  <2>1. UNCHANGED <<target, worker, deletes>>
    BY <1>3 DEF OwnerStep, CreateRemovalOperation, EnqueueRemovalReconciliation,
                StartNextBatch, NextBatchSettles, ClockStep, LeaseExpires,
                MutationLeaseExpires, vars
  <2> QED BY <2>1, CountsStep DEF CountsKept
<1>4. ASSUME NEW u \in Targets, PlatformHandles(u)
      PROVE  [DeleteEffect(t)!Next]_(DeleteEffect(t)!vars)
  <2>1. UNCHANGED <<target, worker>> /\ deletes'[t].sent = deletes[t].sent
    BY <1>1, <1>4, DeleteAnswered DEF PlatformHandles, TypeOK
  <2> QED BY <2>1, CountsStep DEF CountsKept
<1>5. ASSUME NEW w \in Workers, TickStep(w)
      PROVE  [DeleteEffect(t)!Next]_(DeleteEffect(t)!vars)
  <2>1. PICK x \in Tasks : Recovers(x) \/ Claims(w, x)
    BY <1>5, RecoverForms, ClaimForms DEF TickStep
  <2>2. CASE Recovers(x)
    <3>1. UNCHANGED <<worker, deletes>> /\ target'[t].count = target[t].count
      BY <1>2, <2>2, BoundFacts DEF Recovers, Settled, SettleRemovalAggregate
    <3> QED BY <3>1, CountsStep DEF CountsKept
  <2>3. CASE Claims(w, x)
    <3>1. PICK r \in Work : r.pc \in {"read", "finish"} /\ worker' = [worker EXCEPT ![w] = r]
      BY <2>3 DEF Claims
    <3>2. CountsKept(t)
      BY <2>3 DEF Claims, CountsKept
    <3> QED BY <1>1, <3>1, <3>2, LapseStep
  <2> QED BY <2>1, <2>2, <2>3
<1>6. ASSUME NEW w \in Workers, RemovalStep(w) \/ TransactionFails(w) \/ Abandon(w)
      PROVE  [DeleteEffect(t)!Next]_(DeleteEffect(t)!vars)
  <2>1. Busy(w) /\ Subject(w) \in Targets
    <3>1. Busy(w)
      BY <1>6 DEF RemovalStep, ReadTarget, SnapshotMembers, MarkRemovalSideEffectStarted,
                  RemoveMember, DeleteUncertain, DeleteRejected, VerifyRemoval,
                  FinishRemovalConfirmed, FinishRemovalReconciliation,
                  FinishRemovalUnconfirmed, TransactionFails, Abandon, At, Busy
    <3> QED BY <3>1, BusyFacts
  <2>2. CASE MarkRemovalSideEffectStarted(w)
    BY <1>1, <2>1, <2>2, MarkCounts
  <2>3. CASE RemoveMember(w)
    BY <1>1, <2>1, <2>3, SendCounts
  <2>4. CASE \/ FinishRemovalConfirmed(w) \/ FinishRemovalReconciliation(w)
             \/ FinishRemovalUnconfirmed(w)
    <3>1. Finishes(w)
      BY <2>4, FinishForms
    <3>2. worker' = [worker EXCEPT ![w] = Idle] /\ CountsKept(t)
      BY <1>2, <2>1, <3>1, BusyFacts DEF Finishes, Settled, SettleRemovalAggregate, CountsKept
    <3> QED BY <1>1, <3>2, IdleFacts, LapseStep
  <2>5. CASE \/ ReadTarget(w) \/ SnapshotMembers(w) \/ DeleteUncertain(w)
             \/ DeleteRejected(w) \/ VerifyRemoval(w) \/ Abandon(w)
    BY <1>1, <2>1, <2>5, MoveCounts
  <2> QED BY <1>6, <2>2, <2>3, <2>4, <2>5 DEF RemovalStep, TransactionFails
<1> QED BY <1>3, <1>4, <1>5, <1>6 DEF Next, RunOnce, ClockStep

\* The DELETEs of each target implement BoundedEffect, with Owner reconciliations
\* and any number of attempts (MarkRemovalSideEffectStarted, RemoveMember, and
\* every update of the row of a target).
THEOREM DeletesAreBounded == Spec => DeletesBounded
<1>1. Init => \A t \in Targets : DeleteEffect(t)!Init
  <2> SUFFICES ASSUME Init, NEW t \in Targets PROVE DeleteEffect(t)!Init
    OBVIOUS
  <2>1. target[t].count = 0 /\ deletes[t].sent = 0
    BY DEF Init
  <2>2. Licensed(t) = {}
    BY IdleFacts DEF Init, Licensed, At
  <2> QED BY <2>1, <2>2 DEF DeleteEffect!Init
<1>2. IInv /\ [Next]_vars =>
        [\A t \in Targets : [DeleteEffect(t)!Next]_(DeleteEffect(t)!vars)]_vars
  BY BoundedStep
<1> QED BY <1>1, <1>2, RemovalSoundness, PTL DEF Spec, DeletesBounded

\* What BoundedEffect implies: the requests that left, and those that still may,
\* are covered by markers.
Covered(t) ==
  /\ IsFiniteSet(Licensed(t))
  /\ deletes[t].sent + Cardinality(Licensed(t)) <= target[t].count
  /\ target[t].count <= MaxRemovals

LEMMA CoveredStep ==
  ASSUME IInv, IInv', NEW t \in Targets, Covered(t),
         [DeleteEffect(t)!Next]_(DeleteEffect(t)!vars)
  PROVE  Covered(t)'
<1> DEFINE marks == target[t].count
           sent == deletes[t].sent
           licensed == Licensed(t)
<1>1. marks \in Nat /\ marks' \in Nat /\ sent \in Nat /\ sent' \in Nat
  BY BoundFacts DEF IInv, TypeOK, TargetRow, Deletes
<1>2. IsFiniteSet(licensed) /\ sent + Cardinality(licensed) <= marks /\ marks <= MaxRemovals
  BY DEF Covered
<1>3. MaxRemovals \in Nat /\ Cardinality(licensed) \in Nat
  BY <1>2, BoundsAssumption, FS_CardinalityType
<1>4. CASE UNCHANGED DeleteEffect(t)!vars
  <2>1. marks' = marks /\ sent' = sent /\ licensed' = licensed
    BY <1>4 DEF DeleteEffect!vars
  <2> QED BY <1>2, <2>1 DEF Covered
<1>5. ASSUME NEW w \in Workers, DeleteEffect(t)!Mark(w)
      PROVE  Covered(t)'
  <2>1. /\ w \notin licensed /\ marks < MaxRemovals /\ marks' = marks + 1
        /\ licensed' = licensed \cup {w} /\ sent' = sent
    BY <1>5 DEF DeleteEffect!Mark
  <2> HIDE DEF licensed
  <2>2. IsFiniteSet(licensed') /\ Cardinality(licensed') = Cardinality(licensed) + 1
    BY <1>2, <2>1, FS_AddElement
  <2>3. sent' + Cardinality(licensed') <= marks' /\ marks' <= MaxRemovals
    BY <1>1, <1>2, <1>3, <2>1, <2>2
  <2> QED BY <2>2, <2>3 DEF Covered, licensed
<1>6. ASSUME NEW w \in Workers, DeleteEffect(t)!Send(w) \/ DeleteEffect(t)!Lapse(w)
      PROVE  Covered(t)'
  <2>1. /\ w \in licensed /\ licensed' = licensed \ {w} /\ marks' = marks
        /\ sent' \in {sent, sent + 1}
    BY <1>6 DEF DeleteEffect!Send, DeleteEffect!Lapse
  <2> HIDE DEF licensed
  <2>2. IsFiniteSet(licensed') /\ Cardinality(licensed') = Cardinality(licensed) - 1
    BY <1>2, <2>1, FS_RemoveElement
  <2>3. sent' + Cardinality(licensed') <= marks' /\ marks' <= MaxRemovals
    BY <1>1, <1>2, <1>3, <2>1, <2>2
  <2> QED BY <2>2, <2>3 DEF Covered, licensed
<1> QED BY <1>4, <1>5, <1>6 DEF DeleteEffect!Next

\* No target is sent more DELETEs than markers were committed for it, nor more
\* than maximumRemovalSideEffects, by however many workers that lost their lease.
THEOREM DeletesWithinLimit == Spec => []SentWithinLimit
<1>1. Init => \A t \in Targets : Covered(t)
  <2> SUFFICES ASSUME Init, NEW t \in Targets PROVE Covered(t)
    OBVIOUS
  <2>1. target[t].count = 0 /\ deletes[t].sent = 0 /\ MaxRemovals \in Nat
    BY BoundsAssumption DEF Init
  <2>2. Licensed(t) = {}
    BY IdleFacts DEF Init, Licensed, At
  <2> QED BY <2>1, <2>2, FS_EmptySet DEF Covered
<1>2. IInv /\ IInv' /\ (\A t \in Targets : Covered(t)) /\ [Next]_vars =>
        (\A t \in Targets : Covered(t))'
  BY BoundedStep, CoveredStep
<1>3. IInv /\ (\A t \in Targets : Covered(t)) => SentWithinLimit
  <2> SUFFICES ASSUME IInv, NEW t \in Targets, Covered(t)
               PROVE  deletes[t].sent <= target[t].count /\ target[t].count <= MaxRemovals
    BY DEF SentWithinLimit
  <2>1. target[t].count \in Nat /\ deletes[t].sent \in Nat
    BY BoundFacts DEF IInv, TypeOK, TargetRow, Deletes
  <2>2. Cardinality(Licensed(t)) \in Nat
    BY FS_CardinalityType DEF Covered
  <2> QED BY <2>1, <2>2 DEF Covered
<1> QED BY <1>1, <1>2, <1>3, RemovalSoundness, PTL DEF Spec
=============================================================================
