-------------------------- MODULE BatchJoinProofs --------------------------
(***************************************************************************)
(* Proofs about BatchJoin, for any number of targets, workers, Owner       *)
(* refreshes and attempts: types, no replay, failures are final facts,     *)
(* uncertain joins are handed on, and the batch serves joined accounts.    *)
(*                                                                         *)
(* The argument: a join task is claimed at most once, so one worker at     *)
(* most ever stands in runJoin for a target; what that worker may still    *)
(* send or report follows from its position (WorkSound), what the platform *)
(* may still apply from the POSTs sent (PlatformSound), and the rows of a  *)
(* target from the state of its join task (TaskSound).                     *)
(***************************************************************************)
EXTENDS BatchJoin, TLAPS

Join(t) == <<"join", t>>

\* Nothing sent for t is or may become effective.
Quiet(t) == t \notin member /\ \A s \in Stages : <<s, t>> \notin inflight

\* The operation row is there before any task.
OpSound == op.status = "none" => \A x \in Tasks : task[x].status = "none"

\* What the state of its join task says about a target and its other tasks.
TaskSound(t) ==
  LET status == task[Join(t)].status IN
  /\ status \notin {"retry_wait", "failed"}
  /\ status \in {"none", "queued"} =>
       task[Join(t)].attempts = 0 /\ ~target[t].reached
  /\ task[Join(t)].attempts <= 1
  /\ status \in {"none", "queued", "running"} =>
       /\ target[t].status \in {"queued", "running"}
       /\ \A k \in Kinds \ {"join"} : task[<<k, t>>].status = "none"
  /\ status = "interrupted" => task[<<"recovery", t>>].status # "none"
  /\ target[t].status = "failed" => status = "succeeded" /\ Quiet(t)
  /\ /\ status = "succeeded"
     /\ target[t].reached
     /\ target[t].status \notin {"succeeded", "failed"}
     => \E k \in Kinds \ {"join"} : task[<<k, t>>].status # "none"

\* Only POSTs have effects, and only after the marker.
PlatformSound(t) ==
  /\ \A s \in Stages :
       /\ posts[<<s, t>>] <= 1
       /\ posts[<<s, t>>] > 0 => target[t].reached
       /\ <<s, t>> \in inflight => posts[<<s, t>>] > 0
  /\ t \in member => target[t].reached

\* What a worker in runJoin may still send and report, by its position.
JoinSound(r) ==
  LET t == r.task[2] IN
  /\ task[r.task].status \in {"running", "interrupted"}
  /\ r.pc \in {"begin", "admit", "mark_request"} => ~target[t].reached
  /\ r.pc \in {"request_join", "await_request", "admit_accept", "mark_accept",
               "accept_join", "await_accept", "verify"} => target[t].reached
  /\ r.pc = "request_join" => posts[<<"request_join", t>>] = 0 /\ Quiet(t)
  /\ r.pc \in {"request_join", "await_request", "admit_accept", "mark_accept",
               "accept_join"} => posts[<<"accept_join", t>>] = 0
  /\ r.pc = "await_request" /\ <<"request_join", t>> \in inflight => t \notin member
  /\ r.pc = "finish" =>
       /\ r.outcome \in Settled
       /\ r.outcome = "failed" => Quiet(t)
       /\ r.outcome = "succeeded" => t \in member
       /\ r.outcome \in {"blocked", "unknown"} /\ target[t].reached => r.reconcile

WorkSound(r) ==
  /\ r.pc = "idle" <=> r.task = NoTask
  /\ r.pc \notin {"idle", "begin", "reconciled"} => IsJoin(r.task)
  /\ r.pc = "reconciled" =>
       /\ ~IsJoin(r.task)
       /\ r.outcome = "present" => r.task[2] \in member
  /\ r.pc # "idle" /\ IsJoin(r.task) => JoinSound(r)

\* A join task has one worker in its whole life.
OneJoiner ==
  \A w, v \in Workers :
    worker[w].task = worker[v].task /\ worker[w].task # NoTask /\ IsJoin(worker[w].task)
    => w = v

IInv ==
  /\ TypeOK
  /\ OpSound
  /\ \A t \in Targets : TaskSound(t) /\ PlatformSound(t)
  /\ \A w \in Workers : WorkSound(worker[w])
  /\ OneJoiner
  /\ ServingIsJoined

-----------------------------------------------------------------------------
(* Types *)

LEMMA KindFacts ==
  /\ {"join", "auto", "recovery"} \subseteq Kinds
  /\ \A t \in Targets : Join(t) \in Tasks /\ IsJoin(Join(t)) /\ Join(t)[2] = t
  /\ \A x \in Tasks : x[1] \in Kinds /\ x[2] \in Targets /\ x = <<x[1], x[2]>>
  /\ \A x \in Tasks : IsJoin(x) => x = Join(x[2])
BY DEF Kinds, Tasks, Join, IsJoin

\* The status of an operation is one its CHECK constraint allows, and it
\* succeeds only when every target has.
LEMMA OperationStatusFacts ==
  ASSUME NEW rows
  PROVE  /\ OperationStatus(rows) \in {"running", "succeeded", "failed", "blocked"}
         /\ OperationStatus(rows) = "succeeded" =>
              \A t \in Targets : rows[t].status = "succeeded"
<1> DEFINE statuses == {rows[t].status : t \in Targets}
<1>1. OperationStatus(rows) \in {"running", "succeeded", "failed", "blocked"}
  BY DEF OperationStatus
<1>2. ASSUME OperationStatus(rows) = "succeeded", NEW t \in Targets
      PROVE  rows[t].status = "succeeded"
  <2>1. /\ statuses \subseteq Settled
        /\ statuses \cap {"blocked", "unknown"} = {}
        /\ "failed" \notin statuses
    BY <1>2 DEF OperationStatus
  <2>2. rows[t].status \in statuses
    OBVIOUS
  <2> QED BY <2>1, <2>2 DEF Settled
<1> QED BY <1>1, <1>2

\* What every task update leaves in the table.
LEMMA InsertedFacts ==
  ASSUME NEW rows \in [Tasks -> TaskRow], NEW x \in Tasks
  PROVE  /\ Inserted(rows, x) \in [Tasks -> TaskRow]
         /\ Inserted(rows, x)[x].status # "none"
         /\ \A y \in Tasks : y # x => Inserted(rows, x)[y] = rows[y]
         /\ rows[x].status # "none" => Inserted(rows, x) = rows
<1>1. NewTask \in TaskRow /\ NewTask.status # "none"
  BY AttemptsAssumption DEF NewTask, TaskRow
<1> QED BY <1>1 DEF Inserted

-----------------------------------------------------------------------------
(* Steps of one worker that change no row *)

MovesTo(w, r) ==
  /\ r \in Work
  /\ r.task \in {worker[w].task, NoTask}
  /\ WorkSound(r)
  /\ worker' = [worker EXCEPT ![w] = r]

\* The other workers keep what they know, this one knows what is shown of r.
LEMMA LocalPreserves ==
  ASSUME IInv, NEW w \in Workers, LocalStep, \E r : MovesTo(w, r)
  PROVE  IInv'
<1>1. PICK r : MovesTo(w, r)
  OBVIOUS
<1>2. TypeOK'
  BY <1>1 DEF MovesTo, IInv, TypeOK, LocalStep
<1>3. OpSound' /\ ServingIsJoined'
  BY DEF IInv, OpSound, ServingIsJoined, LocalStep
<1>4. \A t \in Targets : (TaskSound(t) /\ PlatformSound(t))'
  BY DEF IInv, TaskSound, PlatformSound, Quiet, LocalStep
<1>5. ASSUME NEW v \in Workers PROVE WorkSound(worker[v])'
  <2>1. \A q : WorkSound(q) => WorkSound(q)'
    BY DEF WorkSound, JoinSound, Quiet, LocalStep
  <2>2. worker'[v] = IF v = w THEN r ELSE worker[v]
    BY <1>1 DEF MovesTo, IInv, TypeOK
  <2>3. WorkSound(worker[v])
    BY DEF IInv
  <2> DEFINE q == IF v = w THEN r ELSE worker[v]
  <2>4. WorkSound(q)
    BY <1>1, <2>3 DEF MovesTo
  <2>5. worker'[v] = q
    BY <2>2
  <2> HIDE DEF q
  <2> QED BY <2>4, <2>5 DEF WorkSound, JoinSound, Quiet, LocalStep
<1>6. OneJoiner'
  BY <1>1 DEF MovesTo, IInv, TypeOK, OneJoiner
<1> QED BY <1>2, <1>3, <1>4, <1>5, <1>6 DEF IInv

\* A decision of runJoin says no more than the worker knows.
LEMMA ConcludeMoves ==
  ASSUME TypeOK, NEW w \in Workers, NEW status \in Settled, NEW stage,
         Conclude(w, status, stage),
         IsJoin(Job(w)), Job(w) # NoTask,
         task[Job(w)].status \in {"running", "interrupted"},
         status = "failed" => Quiet(TargetOf(w)),
         status = "succeeded" => TargetOf(w) \in member,
         status \in {"blocked", "unknown"} /\ target[TargetOf(w)].reached
           => stage \notin QuietStages
  PROVE  \E r : MovesTo(w, r)
<1> DEFINE r == [worker[w] EXCEPT !.pc = "finish", !.outcome = status,
                   !.reconcile = NeedsReconciliation(status, stage)]
<1>1. worker[w] \in Work
  BY DEF TypeOK
<1>2. NeedsReconciliation(status, stage) \in BOOLEAN
  BY DEF NeedsReconciliation
<1>3. r \in Work /\ r.task = Job(w)
  BY <1>1, <1>2 DEF Work, Job
<1>4. worker' = [worker EXCEPT ![w] = r]
  BY DEF Conclude
<1>5. WorkSound(r)
  <2>1. /\ r.pc = "finish" /\ r.outcome = status
        /\ r.reconcile = NeedsReconciliation(status, stage)
    BY <1>1 DEF Work
  <2>2. JoinSound(r)
    BY <1>3, <2>1 DEF JoinSound, TargetOf, NeedsReconciliation
  <2> QED BY <1>3, <2>1, <2>2 DEF WorkSound
<1> QED BY <1>3, <1>4, <1>5 DEF MovesTo, Job

LEMMA GotoMoves ==
  ASSUME TypeOK, NEW w \in Workers, NEW pc, Goto(w, pc),
         pc \in {"admit", "mark_request", "admit_accept", "mark_accept", "verify"},
         WorkSound([worker[w] EXCEPT !.pc = pc])
  PROVE  \E r : MovesTo(w, r)
<1> DEFINE r == [worker[w] EXCEPT !.pc = pc]
<1>1. worker[w] \in Work
  BY DEF TypeOK
<1>2. r \in Work /\ r.task = worker[w].task
  BY <1>1 DEF Work
<1>3. worker' = [worker EXCEPT ![w] = r]
  BY <1>1 DEF TypeOK, Goto, Work
<1> QED BY <1>2, <1>3 DEF MovesTo

\* Without a marker nothing was sent.
LEMMA UnreachedIsQuiet ==
  ASSUME IInv, NEW t \in Targets, ~target[t].reached
  PROVE  Quiet(t) /\ \A s \in Stages : posts[<<s, t>>] = 0
<1>1. PlatformSound(t) /\ \A s \in Stages : posts[<<s, t>>] \in Nat
  BY DEF IInv, TypeOK
<1>2. \A s \in Stages : ~(posts[<<s, t>>] > 0)
  BY <1>1 DEF PlatformSound
<1> QED BY <1>1, <1>2 DEF PlatformSound, Quiet

\* What a busy worker knows.
LEMMA BusyFacts ==
  ASSUME IInv, NEW w \in Workers, ~At(w, "idle")
  PROVE  /\ Job(w) \in Tasks /\ Job(w) # NoTask /\ TargetOf(w) \in Targets
         /\ worker[w] \in Work /\ WorkSound(worker[w])
         /\ worker[w].pc \notin {"begin", "reconciled"} => IsJoin(Job(w))
         /\ IsJoin(Job(w)) => JoinSound(worker[w]) /\ Job(w) = Join(TargetOf(w))
<1>1. worker[w] \in Work /\ WorkSound(worker[w])
  BY DEF IInv, TypeOK
<1>2. Job(w) \in Tasks /\ Job(w) # NoTask
  BY <1>1, KeyAssumption DEF Work, WorkSound, At, Job
<1> QED BY <1>1, <1>2, KindFacts DEF WorkSound, At, Job, TargetOf

LEMMA IdleFacts ==
  Idle \in Work /\ Idle.task = NoTask /\ Idle.pc = "idle" /\ WorkSound(Idle)
<1>1. 0 \in 0..MaxAttempts
  BY AttemptsAssumption
<1>2. Idle \in Work /\ Idle.task = NoTask /\ Idle.pc = "idle"
  BY <1>1 DEF Idle, Work
<1> QED BY <1>2 DEF WorkSound

\* The decisions that commit nothing.
LEMMA LocalActions ==
  ASSUME IInv, NEW w \in Workers,
         \/ PrepareFails(w) \/ AdmitJoin(w) \/ RequestUncertain(w)
         \/ RequestAccepted(w) \/ AdmitAccept(w) \/ AcceptUncertain(w)
         \/ AcceptSucceeds(w) \/ VerifyMembership(w) \/ ObserveMembership(w)
         \/ Abandon(w)
  PROVE  IInv'
<1>1. /\ TypeOK /\ LocalStep /\ ~At(w, "idle")
  BY DEF IInv, PrepareFails, AdmitJoin, RequestUncertain, RequestAccepted,
         AdmitAccept, AcceptUncertain, AcceptSucceeds, VerifyMembership,
         ObserveMembership, Abandon, At
<1>2. /\ Job(w) # NoTask /\ TargetOf(w) \in Targets
      /\ worker[w] \in Work /\ WorkSound(worker[w])
      /\ worker[w].pc \notin {"begin", "reconciled"} => IsJoin(Job(w))
      /\ IsJoin(Job(w)) => JoinSound(worker[w])
  BY <1>1, BusyFacts
<1>3. IsJoin(Job(w)) => task[Job(w)].status \in {"running", "interrupted"}
  BY <1>2 DEF JoinSound, Job
<1>4. {"failed", "blocked", "unknown", "succeeded"} \subseteq Settled
  BY DEF Settled
<1>5. CASE PrepareFails(w)
  <2>1. IsJoin(Job(w)) /\ Quiet(TargetOf(w))
        /\ Conclude(w, "failed", "credential_resolution")
    BY <1>2, <1>5, UnreachedIsQuiet DEF PrepareFails, Fresh
  <2> QED BY <1>1, <1>2, <1>3, <1>4, <2>1, ConcludeMoves, LocalPreserves
<1>6. CASE AdmitJoin(w)
  <2>1. IsJoin(Job(w)) /\ ~target[TargetOf(w)].reached
    BY <1>2, <1>6 DEF AdmitJoin, At, JoinSound, TargetOf, Job
  <2>2. Quiet(TargetOf(w))
    BY <1>2, <2>1, UnreachedIsQuiet
  <2>3. CASE Conclude(w, "blocked", "before_join_request")
    BY <1>1, <1>2, <1>3, <1>4, <2>1, <2>3, ConcludeMoves, LocalPreserves
  <2>4. CASE Conclude(w, "failed", "join_prepare")
    BY <1>1, <1>2, <1>3, <1>4, <2>1, <2>2, <2>4, ConcludeMoves, LocalPreserves
  <2>5. CASE Goto(w, "mark_request")
    <3>1. WorkSound([worker[w] EXCEPT !.pc = "mark_request"])
      BY <1>2, <1>3, <2>1 DEF WorkSound, JoinSound, Work, Job, TargetOf
    <3> QED BY <1>1, <2>5, <3>1, GotoMoves, LocalPreserves
  <2> QED BY <1>6, <2>3, <2>4, <2>5 DEF AdmitJoin
<1>7. CASE RequestUncertain(w)
  <2>1. IsJoin(Job(w)) /\ Conclude(w, "unknown", "join_request")
    BY <1>2, <1>7 DEF RequestUncertain, At
  <2> QED BY <1>1, <1>2, <1>3, <1>4, <2>1, ConcludeMoves, LocalPreserves DEF QuietStages
<1>8. CASE RequestAccepted(w)
  <2>1. IsJoin(Job(w)) /\ Goto(w, "admit_accept") /\ worker[w].pc = "await_request"
    BY <1>2, <1>8 DEF RequestAccepted, At
  <2>2. WorkSound([worker[w] EXCEPT !.pc = "admit_accept"])
    BY <1>2, <2>1 DEF WorkSound, JoinSound, Work, Job
  <2> QED BY <1>1, <2>1, <2>2, GotoMoves, LocalPreserves
<1>9. CASE AdmitAccept(w)
  <2>1. IsJoin(Job(w)) /\ worker[w].pc = "admit_accept"
    BY <1>2, <1>9 DEF AdmitAccept, At
  <2>2. CASE Conclude(w, "unknown", "before_accept")
    BY <1>1, <1>2, <1>3, <1>4, <2>1, <2>2, ConcludeMoves, LocalPreserves
       DEF QuietStages
  <2>3. CASE Goto(w, "mark_accept")
    <3>1. WorkSound([worker[w] EXCEPT !.pc = "mark_accept"])
      BY <1>2, <2>1 DEF WorkSound, JoinSound, Work, Job
    <3> QED BY <1>1, <2>3, <3>1, GotoMoves, LocalPreserves
  <2> QED BY <1>9, <2>2, <2>3 DEF AdmitAccept
<1>10. CASE AcceptUncertain(w)
  <2>1. IsJoin(Job(w)) /\ Conclude(w, "unknown", "join_accept")
    BY <1>2, <1>10 DEF AcceptUncertain, At
  <2> QED BY <1>1, <1>2, <1>3, <1>4, <2>1, ConcludeMoves, LocalPreserves DEF QuietStages
<1>11. CASE AcceptSucceeds(w)
  <2>1. IsJoin(Job(w)) /\ Goto(w, "verify") /\ worker[w].pc = "await_accept"
    BY <1>2, <1>11 DEF AcceptSucceeds, At
  <2>2. WorkSound([worker[w] EXCEPT !.pc = "verify"])
    BY <1>2, <2>1 DEF WorkSound, JoinSound, Work, Job
  <2> QED BY <1>1, <2>1, <2>2, GotoMoves, LocalPreserves
<1>12. CASE VerifyMembership(w)
  <2>1. IsJoin(Job(w))
    BY <1>2, <1>12 DEF VerifyMembership, At
  <2>2. CASE Conclude(w, "unknown", "membership_verify")
    BY <1>1, <1>2, <1>3, <1>4, <2>1, <2>2, ConcludeMoves, LocalPreserves
       DEF QuietStages
  <2>3. CASE TargetOf(w) \in member /\ Conclude(w, "succeeded", "membership_verify")
    BY <1>1, <1>2, <1>3, <1>4, <2>1, <2>3, ConcludeMoves, LocalPreserves
  <2> QED BY <1>12, <2>2, <2>3 DEF VerifyMembership
<1>13. CASE ObserveMembership(w)
  <2>1. PICK seen \in {"incomplete", "present", "absent"} :
          /\ worker' = [worker EXCEPT ![w] =
                          [@ EXCEPT !.pc = "reconciled", !.outcome = seen]]
          /\ seen = "present" => TargetOf(w) \in member
    BY <1>13 DEF ObserveMembership, MembershipResults
  <2>2. ~IsJoin(Job(w))
    BY <1>2, <1>13 DEF ObserveMembership, At, Fresh, JoinSound, TargetOf, Job
  <2> DEFINE r == [worker[w] EXCEPT !.pc = "reconciled", !.outcome = seen]
  <2>3. r \in Work /\ r.task = Job(w) /\ r.pc = "reconciled" /\ r.outcome = seen
    BY <1>2 DEF Work, Job
  <2>4. WorkSound(r)
    BY <1>2, <2>1, <2>2, <2>3 DEF WorkSound, TargetOf
  <2>5. MovesTo(w, r)
    BY <2>1, <2>3, <2>4 DEF MovesTo, Job
  <2> QED BY <1>1, <2>5, LocalPreserves
<1>14. CASE Abandon(w)
  <2>1. MovesTo(w, Idle)
    BY <1>14, IdleFacts DEF Abandon, MovesTo
  <2> QED BY <1>1, <2>1, LocalPreserves
<1> QED
  BY <1>5, <1>6, <1>7, <1>8, <1>9, <1>10, <1>11, <1>12, <1>13, <1>14

-----------------------------------------------------------------------------
(* What a step leaves alone *)

SameTarget(t) ==
  /\ target'[t].reached = target[t].reached
  /\ t \in member' <=> t \in member
  /\ \A s \in Stages : /\ posts'[<<s, t>>] = posts[<<s, t>>]
                       /\ <<s, t>> \in inflight' <=> <<s, t>> \in inflight

SameTasks(t) ==
  /\ task'[Join(t)].status = task[Join(t)].status
  /\ task'[Join(t)].attempts = task[Join(t)].attempts
  /\ \A k \in Kinds \ {"join"} :
       task'[<<k, t>>].status = "none" <=> task[<<k, t>>].status = "none"

LEMMA WorkKept ==
  ASSUME NEW q, WorkSound(q), member \subseteq member',
         q.pc # "idle" /\ IsJoin(q.task) =>
           /\ task'[q.task].status \in {"running", "interrupted"}
           /\ SameTarget(q.task[2])
  PROVE  WorkSound(q)'
<1>1. CASE q.pc # "idle" /\ IsJoin(q.task)
  <2>1. Quiet(q.task[2])' <=> Quiet(q.task[2])
    BY <1>1 DEF Quiet, SameTarget
  <2>2. /\ posts'[<<"request_join", q.task[2]>>] = posts[<<"request_join", q.task[2]>>]
        /\ posts'[<<"accept_join", q.task[2]>>] = posts[<<"accept_join", q.task[2]>>]
        /\ <<"request_join", q.task[2]>> \in inflight' <=>
             <<"request_join", q.task[2]>> \in inflight
    BY <1>1 DEF SameTarget, Stages
  <2>3. JoinSound(q)'
    BY <1>1, <2>1, <2>2 DEF WorkSound, JoinSound, SameTarget
  <2> QED BY <1>1, <2>3 DEF WorkSound
<1>2. CASE ~(q.pc # "idle" /\ IsJoin(q.task))
  BY <1>2 DEF WorkSound
<1> QED BY <1>1, <1>2

LEMMA TargetKept ==
  ASSUME NEW t \in Targets, SameTarget(t)
  PROVE  /\ PlatformSound(t) => PlatformSound(t)'
         /\ TaskSound(t) /\ SameTasks(t) /\ target'[t].status = target[t].status
              => TaskSound(t)'
<1>1. Quiet(t)' <=> Quiet(t)
  BY DEF Quiet, SameTarget
<1>2. PlatformSound(t) => PlatformSound(t)'
  BY DEF PlatformSound, SameTarget
<1>3. TaskSound(t) /\ SameTasks(t) /\ target'[t].status = target[t].status
        => TaskSound(t)'
  <2>1. "recovery" \in Kinds \ {"join"}
    BY KindFacts
  <2> QED BY <1>1, <2>1 DEF TaskSound, SameTasks, SameTarget
<1> QED BY <1>2, <1>3

\* Two busy workers in runJoin stand on different targets.
LEMMA ApartFacts ==
  ASSUME IInv, NEW w \in Workers, NEW v \in Workers \ {w},
         worker[v].pc # "idle", IsJoin(worker[v].task)
  PROVE  /\ worker[v].task \in Tasks /\ worker[v].task = Join(worker[v].task[2])
         /\ worker[v].task[2] \in Targets
         /\ task[worker[v].task].status \in {"running", "interrupted"}
         /\ IsJoin(Job(w)) /\ ~At(w, "idle") =>
              worker[v].task # Job(w) /\ worker[v].task[2] # TargetOf(w)
<1>1. /\ Job(v) \in Tasks /\ Job(v) # NoTask /\ JoinSound(worker[v])
      /\ Job(v) = Join(TargetOf(v)) /\ TargetOf(v) \in Targets
  BY BusyFacts DEF At, Job
<1>2. ASSUME IsJoin(Job(w)), ~At(w, "idle")
      PROVE  worker[v].task # Job(w) /\ worker[v].task[2] # TargetOf(w)
  <2>1. Job(w) = Join(TargetOf(w))
    BY <1>2, BusyFacts
  <2>2. Job(v) # Job(w)
    BY <1>1 DEF IInv, OneJoiner, Job
  <2> QED BY <1>1, <2>1, <2>2 DEF Job, TargetOf
<1> QED BY <1>1, <1>2 DEF JoinSound, Job, TargetOf

\* The worker of a step goes on with its task or drops it.
LEMMA OneJoinerKept ==
  ASSUME IInv, NEW w \in Workers, NEW r,
         worker' = [worker EXCEPT ![w] = r], r.task \in {Job(w), NoTask}
  PROVE  OneJoiner'
BY DEF IInv, TypeOK, OneJoiner, Job

LEMMA WorkerKept ==
  ASSUME IInv, NEW v \in Workers, worker'[v] = worker[v], member \subseteq member',
         worker[v].pc # "idle" /\ IsJoin(worker[v].task) =>
           /\ task'[worker[v].task].status \in {"running", "interrupted"}
           /\ SameTarget(worker[v].task[2])
  PROVE  WorkSound(worker[v])'
<1>1. WorkSound(worker[v])
  BY DEF IInv
<1>2. \A q : q = worker[v] => WorkSound(q)'
  BY <1>1, WorkKept
<1> QED BY <1>2

-----------------------------------------------------------------------------
(* Clocks, the platform and the Owner *)

LEMMA ClockActions ==
  ASSUME IInv, MutationLeaseExpires \/ \E x \in Tasks : LeaseExpires(x)
  PROVE  IInv'
<1>1. UNCHANGED <<batch, target, confirmed, worker, member, inflight, posts>>
  BY DEF MutationLeaseExpires, LeaseExpires
<1>2. op' \in OpRow /\ op'.status = op.status
  BY DEF MutationLeaseExpires, LeaseExpires, IInv, TypeOK, OpRow
<1>3. task' \in [Tasks -> TaskRow] /\ \A x \in Tasks :
        task'[x].status = task[x].status /\ task'[x].attempts = task[x].attempts
  <2>1. task \in [Tasks -> TaskRow]
    BY DEF IInv, TypeOK
  <2>2. CASE MutationLeaseExpires
    BY <2>1, <2>2 DEF MutationLeaseExpires
  <2>3. ASSUME NEW x \in Tasks, LeaseExpires(x)
        PROVE  /\ task' \in [Tasks -> TaskRow]
               /\ \A y \in Tasks : /\ task'[y].status = task[y].status
                                   /\ task'[y].attempts = task[y].attempts
    <3>1. task' = [task EXCEPT ![x] = [task[x] EXCEPT !.lease = "expired"]]
      BY <2>3 DEF LeaseExpires
    <3>2. /\ [task[x] EXCEPT !.lease = "expired"] \in TaskRow
          /\ [task[x] EXCEPT !.lease = "expired"].status = task[x].status
          /\ [task[x] EXCEPT !.lease = "expired"].attempts = task[x].attempts
      BY <2>1 DEF TaskRow
    <3> QED BY <2>1, <3>1, <3>2
  <2> QED BY <2>2, <2>3
<1>4. TypeOK' /\ OpSound' /\ OneJoiner' /\ ServingIsJoined'
  BY <1>1, <1>2, <1>3 DEF IInv, TypeOK, OpSound, OneJoiner, ServingIsJoined
<1>5. ASSUME NEW t \in Targets PROVE TaskSound(t)' /\ PlatformSound(t)'
  <2>1. SameTarget(t) /\ target'[t].status = target[t].status
    BY <1>1 DEF SameTarget
  <2>2. SameTasks(t)
    BY <1>3, KindFacts DEF SameTasks, Tasks
  <2> QED BY <2>1, <2>2, TargetKept DEF IInv
<1>6. ASSUME NEW w \in Workers PROVE WorkSound(worker[w])'
  <2>1. SameTarget(worker[w].task[2])
    BY <1>1 DEF SameTarget
  <2>2. worker[w].pc # "idle" /\ IsJoin(worker[w].task) =>
          /\ worker[w].task \in Tasks
          /\ task[worker[w].task].status \in {"running", "interrupted"}
    BY BusyFacts DEF At, Job, JoinSound
  <2> QED BY <1>1, <1>3, <2>1, <2>2, WorkerKept
<1> QED BY <1>4, <1>5, <1>6 DEF IInv

\* The platform only handles what was sent, and never changes a target that
\* has been reported as failed.
LEMMA PlatformActions ==
  ASSUME IInv, NEW p \in Stages \X Targets, PlatformApplies(p) \/ PlatformDrops(p)
  PROVE  IInv'
<1>1. /\ UNCHANGED <<op, batch, target, confirmed, task, worker, posts>>
      /\ p \in inflight /\ inflight' = inflight \ {p}
      /\ member \subseteq member' /\ member' \subseteq member \cup {p[2]}
  BY DEF PlatformApplies, PlatformDrops
<1>2. /\ p = <<p[1], p[2]>> /\ p[1] \in Stages /\ p[2] \in Targets
      /\ posts[p] > 0 /\ target[p[2]].reached
  <2>1. p = <<p[1], p[2]>> /\ p[1] \in Stages /\ p[2] \in Targets
    OBVIOUS
  <2>2. PlatformSound(p[2])
    BY <2>1 DEF IInv
  <2> QED BY <1>1, <2>1, <2>2 DEF PlatformSound
<1>3. TypeOK' /\ OpSound' /\ OneJoiner' /\ ServingIsJoined'
  BY <1>1, <1>2 DEF IInv, TypeOK, OpSound, OneJoiner, ServingIsJoined
<1>4. \A t \in Targets : Quiet(t) => Quiet(t)'
  BY <1>1, <1>2 DEF Quiet
<1>5. ASSUME NEW t \in Targets PROVE TaskSound(t)' /\ PlatformSound(t)'
  <2>1. TaskSound(t) /\ PlatformSound(t)
    BY DEF IInv
  <2> QED BY <1>1, <1>2, <1>4, <2>1 DEF TaskSound, PlatformSound
<1>6. ASSUME NEW w \in Workers PROVE WorkSound(worker[w])'
  <2>1. WorkSound(worker[w])
    BY DEF IInv
  <2>2. CASE ~(worker[w].pc # "idle" /\ IsJoin(worker[w].task))
    BY <1>1, <2>1, <2>2 DEF WorkSound
  <2>3. CASE worker[w].pc # "idle" /\ IsJoin(worker[w].task)
    <3>1. JoinSound(worker[w]) /\ TargetOf(w) \in Targets
      BY <2>3, BusyFacts DEF At, Job
    <3>2. TargetOf(w) = p[2] /\ p[1] = "accept_join" /\ p \in inflight
            => posts[<<"accept_join", TargetOf(w)>>] > 0
      BY <1>2
    <3>3. /\ worker[w].pc = "await_request"
          /\ <<"request_join", TargetOf(w)>> \in inflight'
          => TargetOf(w) \notin member'
      <4>1. SUFFICES ASSUME worker[w].pc = "await_request",
                            <<"request_join", TargetOf(w)>> \in inflight',
                            TargetOf(w) \in member'
                     PROVE  FALSE
        OBVIOUS
      <4>2. /\ <<"request_join", TargetOf(w)>> \in inflight
            /\ TargetOf(w) \notin member
            /\ posts[<<"accept_join", TargetOf(w)>>] = 0
        BY <1>1, <3>1, <4>1 DEF JoinSound, TargetOf, Job
      <4>3. TargetOf(w) = p[2] /\ p[1] # "request_join"
        BY <1>1, <1>2, <4>1, <4>2
      <4>4. p[1] = "accept_join"
        BY <1>2, <4>3 DEF Stages
      <4> QED BY <1>1, <3>2, <4>2, <4>3, <4>4
    <3>4. JoinSound(worker[w])'
      BY <1>1, <1>4, <3>1, <3>3 DEF JoinSound, TargetOf, Job
    <3> QED BY <1>1, <2>1, <2>3, <3>4 DEF WorkSound
  <2> QED BY <2>2, <2>3
<1> QED BY <1>3, <1>5, <1>6 DEF IInv

LEMMA CreatePreserves ==
  ASSUME IInv, CreateJoinOperation
  PROVE  IInv'
<1>1. /\ op.status = "none" /\ op' = [op EXCEPT !.status = "queued"]
      /\ batch' = "joining"
      /\ task' = [x \in Tasks |-> IF IsJoin(x) THEN NewTask ELSE task[x]]
      /\ UNCHANGED <<target, confirmed, worker, member, inflight, posts>>
  BY DEF CreateJoinOperation
<1>2. \A x \in Tasks : task[x].status = "none"
  BY <1>1 DEF IInv, OpSound
<1>3. NewTask \in TaskRow /\ NewTask.status = "queued" /\ NewTask.attempts = 0
  BY AttemptsAssumption DEF NewTask, TaskRow
<1>4. op' \in OpRow /\ op'.status = "queued"
  BY <1>1 DEF IInv, TypeOK, OpRow
<1>5. TypeOK' /\ OpSound' /\ OneJoiner' /\ ServingIsJoined'
  BY <1>1, <1>3, <1>4 DEF IInv, TypeOK, OpSound, OneJoiner, ServingIsJoined
<1>6. ASSUME NEW t \in Targets PROVE TaskSound(t)' /\ PlatformSound(t)'
  <2>1. TaskSound(t) /\ PlatformSound(t) /\ SameTarget(t)
    BY <1>1 DEF IInv, SameTarget
  <2>2. task[Join(t)].status = "none" /\ task'[Join(t)] = NewTask
    BY <1>1, <1>2, KindFacts
  <2>3. \A k \in Kinds \ {"join"} : task'[<<k, t>>].status = "none"
    BY <1>1, <1>2 DEF Tasks, IsJoin
  <2>4. TaskSound(t)'
    BY <1>1, <1>3, <2>1, <2>2, <2>3 DEF TaskSound
  <2> QED BY <2>1, <2>4, TargetKept
<1>7. ASSUME NEW w \in Workers PROVE WorkSound(worker[w])'
  <2>1. ~(worker[w].pc # "idle" /\ IsJoin(worker[w].task))
    BY <1>2, BusyFacts DEF JoinSound, At, Job
  <2> QED BY <1>1, <2>1, WorkerKept
<1> QED BY <1>5, <1>6, <1>7 DEF IInv

\* An uncertain target has a finished join, so a new reconciliation beside it
\* changes nothing the workers rely on.
LEMMA EnqueuePreserves ==
  ASSUME IInv, NEW k \in OwnerKeys, NEW u \in Targets, EnqueueJoinReconciliation(k, u)
  PROVE  IInv'
<1>1. /\ op.status = "blocked" /\ target[u].status \in {"blocked", "unknown"}
      /\ task' = Inserted(task, <<k, u>>)
      /\ UNCHANGED <<op, batch, target, confirmed, worker, member, inflight, posts>>
  BY DEF EnqueueJoinReconciliation
<1>2. k \in Kinds \ {"join"} /\ <<k, u>> \in Tasks /\ ~IsJoin(<<k, u>>)
  BY KeyAssumption DEF Kinds, Tasks, IsJoin
<1>3. /\ task' \in [Tasks -> TaskRow] /\ task'[<<k, u>>].status # "none"
      /\ \A y \in Tasks : y # <<k, u>> => task'[y] = task[y]
  <2> DEFINE x == <<k, u>>
  <2>1. x \in Tasks /\ task \in [Tasks -> TaskRow]
    BY <1>2 DEF IInv, TypeOK
  <2>2. task' = Inserted(task, x)
    BY <1>1
  <2> HIDE DEF x
  <2>3. /\ task' \in [Tasks -> TaskRow] /\ task'[x].status # "none"
        /\ \A y \in Tasks : y # x => task'[y] = task[y]
    BY <2>1, <2>2, InsertedFacts
  <2> QED BY <2>3 DEF x
<1>4. TypeOK' /\ OpSound' /\ OneJoiner' /\ ServingIsJoined'
  BY <1>1, <1>3 DEF IInv, TypeOK, OpSound, OneJoiner, ServingIsJoined
<1>5. ASSUME NEW t \in Targets PROVE TaskSound(t)' /\ PlatformSound(t)'
  <2>1. TaskSound(t) /\ PlatformSound(t) /\ SameTarget(t)
    BY <1>1 DEF IInv, SameTarget
  <2>2. task'[Join(t)] = task[Join(t)]
    BY <1>2, <1>3, KindFacts
  <2>3. CASE t # u
    <3>1. SameTasks(t)
      BY <1>3, <2>2, <2>3 DEF SameTasks, Tasks
    <3> QED BY <1>1, <2>1, <3>1, TargetKept
  <2>4. CASE t = u
    <3>1. task[Join(t)].status \notin {"none", "queued", "running"}
      BY <1>1, <2>1, <2>4 DEF TaskSound
    <3>2. "recovery" \in Kinds /\ \A j \in Kinds : <<j, t>> \in Tasks
      BY DEF Kinds, Tasks
    <3>3. \A j \in Kinds : task'[<<j, t>>].status = "none" => task[<<j, t>>].status = "none"
      BY <1>3, <3>2
    <3>4. TaskSound(t)'
      BY <1>1, <1>2, <1>3, <2>1, <2>2, <2>4, <3>1, <3>2, <3>3 DEF TaskSound, Quiet
    <3> QED BY <2>1, <3>4, TargetKept
  <2> QED BY <2>3, <2>4
<1>6. ASSUME NEW w \in Workers PROVE WorkSound(worker[w])'
  <2>1. worker[w].pc # "idle" /\ IsJoin(worker[w].task) =>
          /\ worker[w].task \in Tasks /\ worker[w].task # <<k, u>>
          /\ task[worker[w].task].status \in {"running", "interrupted"}
    BY <1>2, BusyFacts DEF JoinSound, At, Job
  <2>2. SameTarget(worker[w].task[2])
    BY <1>1 DEF SameTarget
  <2> QED BY <1>1, <1>3, <2>1, <2>2, WorkerKept
<1> QED BY <1>4, <1>5, <1>6 DEF IInv

-----------------------------------------------------------------------------
(* One tick: what is found expired, exhausted or claimable *)

\* The operation and the batch after a target was settled.
LEMMA AggregateFacts ==
  ASSUME TypeOK, NEW rows
  PROVE  /\ [op EXCEPT !.status = OperationStatus(rows)] \in OpRow
         /\ [op EXCEPT !.status = OperationStatus(rows)].status # "none"
         /\ [Cleared(op) EXCEPT !.status = OperationStatus(rows)] \in OpRow
         /\ [Cleared(op) EXCEPT !.status = OperationStatus(rows)].status # "none"
         /\ SettleJoinAggregate(rows) =>
              /\ batch' \in {"joining", "serving"}
              /\ batch' = "serving" => \A t \in Targets : rows[t].status = "succeeded"
<1>1. OperationStatus(rows) \in {"running", "succeeded", "failed", "blocked"}
  BY OperationStatusFacts
<1>2. op \in OpRow /\ 0 \in 0..MaxAttempts
  BY AttemptsAssumption DEF TypeOK
<1>3. Cleared(op) \in OpRow
  BY <1>2 DEF Cleared, OpRow
<1>4. \A o \in OpRow, s \in {"running", "succeeded", "failed", "blocked"} :
        [o EXCEPT !.status = s] \in OpRow /\ [o EXCEPT !.status = s].status # "none"
  BY DEF OpRow
<1>5. SettleJoinAggregate(rows) =>
        /\ batch' \in {"joining", "serving"}
        /\ batch' = "serving" => OperationStatus(rows) = "succeeded"
  BY DEF SettleJoinAggregate
<1> QED BY <1>1, <1>2, <1>3, <1>4, <1>5, OperationStatusFacts

LEMMA TargetFacts ==
  ASSUME TypeOK, NEW t \in Targets,
         NEW status \in {"queued", "running"} \cup Settled
  PROVE  /\ WithStatus(t, status) \in [Targets -> TargetRow]
         /\ WithStatus(t, status)[t].status = status
         /\ \A u \in Targets :
              /\ WithStatus(t, status)[u].reached = target[u].reached
              /\ u # t => WithStatus(t, status)[u] = target[u]
<1>1. target \in [Targets -> TargetRow]
  BY DEF TypeOK
<1>2. WithStatus(t, status) = [target EXCEPT ![t] = [target[t] EXCEPT !.status = status]]
  BY DEF WithStatus
<1>3. /\ [target[t] EXCEPT !.status = status] \in TargetRow
      /\ [target[t] EXCEPT !.status = status].status = status
      /\ [target[t] EXCEPT !.status = status].reached = target[t].reached
  BY <1>1 DEF TargetRow
<1> QED BY <1>1, <1>2, <1>3

LEMMA EndedFacts ==
  ASSUME TypeOK, NEW x \in Tasks,
         NEW status \in {"succeeded", "failed", "interrupted", "retry_wait"}
  PROVE  LET rows == [task EXCEPT ![x] = Ended(@, status)] IN
         /\ rows \in [Tasks -> TaskRow]
         /\ rows[x].status = status /\ rows[x].attempts = task[x].attempts
         /\ \A y \in Tasks : y # x => rows[y] = task[y]
<1>1. task \in [Tasks -> TaskRow]
  BY DEF TypeOK
<1>2. /\ Ended(task[x], status) \in TaskRow
      /\ Ended(task[x], status).status = status
      /\ Ended(task[x], status).attempts = task[x].attempts
  BY <1>1 DEF Ended, TaskRow
<1> QED BY <1>1, <1>2

\* The only worker of an expired join keeps what it knows.
LEMMA RecoverPreserves ==
  ASSUME IInv, NEW w \in Workers, NEW u \in Targets, RecoverExpiredJoin(w, u)
  PROVE  IInv'
<1> DEFINE x == Join(u)
           y == <<"recovery", u>>
           rows == WithStatus(u, "unknown")
           ended == [task EXCEPT ![x] = Ended(@, "interrupted")]
<1>1. /\ task[x].status = "running"
      /\ task' = Inserted(ended, y) /\ target' = rows
      /\ op' = [(IF op.holder = x THEN Cleared(op) ELSE op)
                  EXCEPT !.status = OperationStatus(rows)]
      /\ SettleJoinAggregate(rows)
      /\ UNCHANGED <<confirmed, worker, member, inflight, posts>>
  BY DEF RecoverExpiredJoin, RecoveredTasks, Join
<1>2. /\ x \in Tasks /\ y \in Tasks /\ ~IsJoin(y) /\ x # y
      /\ "recovery" \in Kinds \ {"join"} /\ "unknown" \in Settled
  BY DEF Kinds, Tasks, IsJoin, Join, Settled
<1>3. /\ ended \in [Tasks -> TaskRow]
      /\ ended[x].status = "interrupted" /\ ended[x].attempts = task[x].attempts
      /\ \A z \in Tasks : z # x => ended[z] = task[z]
  BY <1>2, EndedFacts DEF IInv
<1>4. /\ task' \in [Tasks -> TaskRow]
      /\ task'[x].status = "interrupted" /\ task'[x].attempts = task[x].attempts
      /\ task'[y].status # "none"
      /\ \A z \in Tasks : z \notin {x, y} => task'[z] = task[z]
  <2> HIDE DEF ended, x, y
  <2> QED BY <1>1, <1>2, <1>3, InsertedFacts
<1>5. /\ target' \in [Targets -> TargetRow] /\ target'[u].status = "unknown"
      /\ \A t \in Targets : /\ target'[t].reached = target[t].reached
                            /\ t # u => target'[t] = target[t]
  BY <1>1, <1>2, TargetFacts DEF IInv
<1>6. /\ op' \in OpRow /\ op'.status # "none"
      /\ batch' \in {"joining", "serving"}
      /\ batch' = "serving" => \A t \in Targets : target'[t].status = "succeeded"
  <2> HIDE DEF rows, x
  <2> QED BY <1>1, AggregateFacts DEF IInv
<1>7. TypeOK' /\ OpSound' /\ OneJoiner' /\ ServingIsJoined'
  BY <1>1, <1>4, <1>5, <1>6 DEF IInv, TypeOK, OpSound, OneJoiner, ServingIsJoined
<1>8. ASSUME NEW t \in Targets PROVE TaskSound(t)' /\ PlatformSound(t)'
  <2>1. TaskSound(t) /\ PlatformSound(t) /\ SameTarget(t)
    BY <1>1, <1>5 DEF IInv, SameTarget
  <2>2. CASE t # u
    <3>1. /\ Join(t) \notin {x, y} /\ Join(t) \in Tasks
          /\ \A k \in Kinds : <<k, t>> \in Tasks /\ <<k, t>> \notin {x, y}
      BY <2>2 DEF Join, Tasks, Kinds
    <3>2. SameTasks(t)
      BY <1>4, <3>1 DEF SameTasks
    <3> QED BY <1>5, <2>1, <2>2, <3>2, TargetKept
  <2>3. CASE t = u
    <3>1. TaskSound(t)'
      BY <1>1, <1>4, <1>5, <2>1, <2>3 DEF TaskSound
    <3> QED BY <2>1, <3>1, TargetKept
  <2> QED BY <2>2, <2>3
<1>9. ASSUME NEW v \in Workers PROVE WorkSound(worker[v])'
  <2>1. worker[v].pc # "idle" /\ IsJoin(worker[v].task) =>
          /\ worker[v].task \in Tasks /\ worker[v].task # y
          /\ task[worker[v].task].status \in {"running", "interrupted"}
          /\ worker[v].task[2] \in Targets
    BY <1>2, BusyFacts DEF JoinSound, At, Job, TargetOf
  <2>2. worker[v].task[2] \in Targets => SameTarget(worker[v].task[2])
    BY <1>1, <1>5 DEF SameTarget
  <2> QED BY <1>1, <1>4, <2>1, <2>2, WorkerKept
<1> QED BY <1>7, <1>8, <1>9 DEF IInv

\* Only reconciliations run out of attempts.
LEMMA ExhaustPreserves ==
  ASSUME IInv, NEW w \in Workers, NEW x \in Tasks, SettleExhausted(w, x)
  PROVE  IInv'
<1> DEFINE u == x[2]
           rows == WithStatus(u, "unknown")
<1>1. /\ task[x].status = "running" /\ task[x].attempts >= MaxAttempts
      /\ task' = [task EXCEPT ![x] = Ended(@, "interrupted")] /\ target' = rows
      /\ op' = [op EXCEPT !.status = OperationStatus(rows)]
      /\ SettleJoinAggregate(rows)
      /\ UNCHANGED <<confirmed, worker, member, inflight, posts>>
  BY DEF SettleExhausted
<1>2. /\ u \in Targets /\ x = <<x[1], u>> /\ x[1] \in Kinds /\ "unknown" \in Settled
      /\ IsJoin(x) => x = Join(u)
  BY KindFacts DEF Settled
<1>3. ~IsJoin(x) /\ x[1] \in Kinds \ {"join"}
  <2>1. TaskSound(u) /\ task[x].attempts \in 0..MaxAttempts
    BY <1>2 DEF IInv, TypeOK, TaskRow
  <2>2. ~IsJoin(x)
    BY <1>1, <1>2, <2>1, AttemptsAssumption DEF TaskSound
  <2> QED BY <1>2, <2>2 DEF IsJoin
<1>4. /\ task' \in [Tasks -> TaskRow] /\ task'[x].status = "interrupted"
      /\ \A z \in Tasks : z # x => task'[z] = task[z]
  BY <1>1, EndedFacts DEF IInv
<1>5. /\ target' \in [Targets -> TargetRow] /\ target'[u].status = "unknown"
      /\ \A t \in Targets : /\ target'[t].reached = target[t].reached
                            /\ t # u => target'[t] = target[t]
  BY <1>1, <1>2, TargetFacts DEF IInv
<1>6. /\ op' \in OpRow /\ op'.status # "none"
      /\ batch' \in {"joining", "serving"}
      /\ batch' = "serving" => \A t \in Targets : target'[t].status = "succeeded"
  <2> HIDE DEF rows
  <2> QED BY <1>1, AggregateFacts DEF IInv
<1>7. TypeOK' /\ OpSound' /\ OneJoiner' /\ ServingIsJoined'
  BY <1>1, <1>4, <1>5, <1>6 DEF IInv, TypeOK, OpSound, OneJoiner, ServingIsJoined
<1>8. ASSUME NEW t \in Targets PROVE TaskSound(t)' /\ PlatformSound(t)'
  <2>1. TaskSound(t) /\ PlatformSound(t) /\ SameTarget(t)
    BY <1>1, <1>5 DEF IInv, SameTarget
  <2>2. Join(t) \in Tasks /\ Join(t) # x /\ \A k \in Kinds : <<k, t>> \in Tasks
    BY <1>3, KindFacts DEF Tasks
  <2>3. SameTasks(t)
    BY <1>1, <1>4, <2>2 DEF SameTasks
  <2>4. CASE t # u
    BY <1>5, <2>1, <2>3, <2>4, TargetKept
  <2>5. CASE t = u
    <3>1. task[Join(t)].status \notin {"none", "queued", "running"}
      BY <1>1, <1>2, <1>3, <2>1, <2>5 DEF TaskSound
    <3>2. "recovery" \in Kinds \ {"join"}
      BY DEF Kinds
    <3>3. \E k \in Kinds \ {"join"} : task'[<<k, t>>].status # "none"
      BY <1>2, <1>3, <1>4, <2>5
    <3>4. TaskSound(t)'
      BY <1>5, <2>1, <2>3, <2>5, <3>1, <3>2, <3>3 DEF TaskSound, SameTasks
    <3> QED BY <2>1, <3>4, TargetKept
  <2> QED BY <2>4, <2>5
<1>9. ASSUME NEW v \in Workers PROVE WorkSound(worker[v])'
  <2>1. worker[v].pc # "idle" /\ IsJoin(worker[v].task) =>
          /\ worker[v].task \in Tasks /\ worker[v].task # x
          /\ task[worker[v].task].status \in {"running", "interrupted"}
          /\ worker[v].task[2] \in Targets
    BY <1>3, BusyFacts DEF JoinSound, At, Job, TargetOf
  <2>2. worker[v].task[2] \in Targets => SameTarget(worker[v].task[2])
    BY <1>1, <1>5 DEF SameTarget
  <2> QED BY <1>1, <1>4, <2>1, <2>2, WorkerKept
<1> QED BY <1>7, <1>8, <1>9 DEF IInv

\* A join that can be claimed has never been claimed: it has no marker and no
\* worker.
LEMMA ClaimPreserves ==
  ASSUME IInv, NEW w \in Workers, NEW x \in Tasks, ClaimTask(w, x) \/ ClaimRejected(w, x)
  PROVE  IInv'
<1> DEFINE u == x[2]
           claimed == [status |-> "running", lease |-> "live",
                       attempts |-> task[x].attempts + 1]
<1>1. /\ At(w, "idle") /\ Claimable(x) /\ task' = [task EXCEPT ![x] = claimed]
      /\ UNCHANGED <<op, batch, target, confirmed, member, inflight, posts>>
  BY DEF ClaimTask, ClaimRejected, Claimed
<1>2. /\ task[x].attempts < MaxAttempts
      /\ task[x].status \in {"queued", "retry_wait", "running"}
      /\ task[x].status = "running" => ~IsJoin(x)
  BY <1>1 DEF Claimable
<1>3. /\ u \in Targets /\ x = <<x[1], u>> /\ x[1] \in Kinds /\ x # NoTask
      /\ IsJoin(x) => x = Join(u)
      /\ ~IsJoin(x) => x[1] \in Kinds \ {"join"}
  BY KindFacts, KeyAssumption DEF IsJoin
<1>4. IsJoin(x) => /\ task[x].status = "queued" /\ task[x].attempts = 0
                   /\ ~target[u].reached
  <2>1. TaskSound(u)
    BY <1>3 DEF IInv
  <2> QED BY <1>2, <1>3, <2>1 DEF TaskSound
<1>5. /\ task' \in [Tasks -> TaskRow] /\ task'[x] = claimed
      /\ claimed.status = "running" /\ claimed.attempts = task[x].attempts + 1
      /\ claimed.attempts \in 0..MaxAttempts
      /\ \A y \in Tasks : y # x => task'[y] = task[y]
  <2>1. task \in [Tasks -> TaskRow] /\ task[x].attempts \in 0..MaxAttempts
    BY DEF IInv, TypeOK, TaskRow
  <2>2. claimed.attempts \in 0..MaxAttempts /\ claimed \in TaskRow
    BY <1>2, <2>1, AttemptsAssumption DEF TaskRow
  <2> QED BY <1>1, <2>1, <2>2
<1>6. PICK r : worker' = [worker EXCEPT ![w] = r] /\ r \in Work /\ r.task = x
               /\ \/ r.pc = "begin"
                  \/ r.pc = "reconciled" /\ ~IsJoin(x) /\ r.outcome = "incomplete"
                  \/ /\ r.pc = "finish" /\ IsJoin(x) /\ ~target[u].reached
                     /\ r.outcome = "blocked"
  <2>1. \A pc \in {"begin", "reconciled", "finish"},
           outcome \in {"none", "incomplete", "blocked"} :
          LET q == ClaimedWork(x, pc, outcome, FALSE) IN
          q \in Work /\ q.task = x /\ q.pc = pc /\ q.outcome = outcome
    BY <1>5 DEF ClaimedWork, Work, Settled
  <2>2. CASE ClaimTask(w, x)
    BY <2>1, <2>2 DEF ClaimTask
  <2>3. CASE ClaimRejected(w, x) /\ ~IsJoin(x)
    BY <2>1, <2>3 DEF ClaimRejected
  <2>4. CASE ClaimRejected(w, x) /\ IsJoin(x)
    <3>1. target[u].reached = FALSE
      BY <1>3, <1>4, <2>4 DEF IInv, TypeOK, TargetRow
    <3>2. worker' = [worker EXCEPT ![w] = ClaimedWork(x, "finish", "blocked", FALSE)]
      BY <2>4, <3>1 DEF ClaimRejected
    <3> QED BY <1>4, <2>1, <2>4, <3>2
  <2> QED BY <2>2, <2>3, <2>4
<1>7. ASSUME NEW v \in Workers, IsJoin(x)
      PROVE  worker[v].task # x
  <2>1. worker[v] \in Work /\ WorkSound(worker[v])
    BY DEF IInv, TypeOK
  <2> QED BY <1>3, <1>4, <1>7, <2>1 DEF WorkSound, JoinSound
<1>8. TypeOK' /\ OpSound' /\ ServingIsJoined'
  BY <1>1, <1>2, <1>5, <1>6 DEF IInv, TypeOK, OpSound, ServingIsJoined
<1>9. OneJoiner'
  BY <1>6, <1>7 DEF IInv, TypeOK, OneJoiner
<1>10. ASSUME NEW t \in Targets PROVE TaskSound(t)' /\ PlatformSound(t)'
  <2>1. TaskSound(t) /\ PlatformSound(t) /\ SameTarget(t)
    BY <1>1 DEF IInv, SameTarget
  <2>2. CASE x = Join(t)
    <3>1. IsJoin(x) /\ t = u /\ \A k \in Kinds \ {"join"} : <<k, t>> \in Tasks /\ <<k, t>> # x
      BY <1>3, <2>2, KindFacts DEF Tasks, IsJoin
    <3>2. TaskSound(t)'
      BY <1>1, <1>4, <1>5, <2>1, <2>2, <3>1 DEF TaskSound
    <3> QED BY <2>1, <3>2, TargetKept
  <2>3. CASE x # Join(t)
    <3>1. SameTasks(t)
      BY <1>2, <1>5, <2>3, KindFacts DEF SameTasks, Tasks
    <3> QED BY <1>1, <2>1, <3>1, TargetKept
  <2> QED BY <2>2, <2>3
<1>11. ASSUME NEW v \in Workers PROVE WorkSound(worker[v])'
  <2>1. CASE v # w
    <3>1. worker'[v] = worker[v]
      BY <1>6, <2>1 DEF IInv, TypeOK
    <3>2. worker[v].pc # "idle" /\ IsJoin(worker[v].task) =>
            /\ worker[v].task \in Tasks /\ worker[v].task # x
            /\ task[worker[v].task].status \in {"running", "interrupted"}
      BY <1>7, BusyFacts DEF JoinSound, At, Job
    <3>3. SameTarget(worker[v].task[2])
      BY <1>1 DEF SameTarget
    <3> QED BY <1>1, <1>5, <3>1, <3>2, <3>3, WorkerKept
  <2>2. CASE v = w
    <3>1. worker'[v] = r
      BY <1>6, <2>2 DEF IInv, TypeOK
    <3>2. IsJoin(x) => JoinSound(r)'
      BY <1>1, <1>4, <1>5, <1>6, KindFacts DEF JoinSound, Settled
    <3>3. WorkSound(r)'
      BY <1>3, <1>6, <3>2 DEF WorkSound
    <3> QED BY <3>1, <3>3 DEF WorkSound, JoinSound, Quiet
  <2> QED BY <2>1, <2>2
<1> QED BY <1>8, <1>9, <1>10, <1>11 DEF IInv

-----------------------------------------------------------------------------
(* runJoin: the transactions and the POSTs *)

\* The target of a running join is not settled yet, nor is the batch served.
LEMMA RunningFacts ==
  ASSUME IInv, NEW w \in Workers, ~At(w, "idle"), IsJoin(Job(w)),
         task[Job(w)].status = "running"
  PROVE  /\ target[TargetOf(w)].status \in {"queued", "running"}
         /\ batch # "serving"
         /\ TaskSound(TargetOf(w)) /\ PlatformSound(TargetOf(w))
         /\ Job(w) = Join(TargetOf(w)) /\ TargetOf(w) \in Targets /\ Job(w) \in Tasks
<1>1. TargetOf(w) \in Targets /\ Job(w) = Join(TargetOf(w)) /\ Job(w) \in Tasks
  BY BusyFacts
<1>2. TaskSound(TargetOf(w)) /\ PlatformSound(TargetOf(w))
  BY <1>1 DEF IInv
<1>3. target[TargetOf(w)].status \in {"queued", "running"}
  BY <1>1, <1>2 DEF TaskSound
<1> QED BY <1>1, <1>2, <1>3 DEF IInv, ServingIsJoined

LEMMA PreflightPreserves ==
  ASSUME IInv, NEW w \in Workers, RecordJoinPreflight(w)
  PROVE  IInv'
<1> DEFINE u == TargetOf(w)
<1>1. /\ At(w, "begin") /\ IsJoin(Job(w)) /\ ~target[u].reached
      /\ task[Job(w)].status = "running"
      /\ target' = WithStatus(u, "running")
      /\ UNCHANGED <<op, batch, confirmed, task, member, inflight, posts>>
  BY DEF RecordJoinPreflight, Fresh, HoldsLease
<1>2. /\ target[u].status \in {"queued", "running"} /\ batch # "serving"
      /\ TaskSound(u) /\ Job(w) = Join(u) /\ u \in Targets /\ Job(w) \in Tasks
      /\ Job(w) # NoTask /\ worker[w] \in Work /\ WorkSound(worker[w])
  BY <1>1, RunningFacts, BusyFacts DEF At
<1>3. /\ target' \in [Targets -> TargetRow] /\ target'[u].status = "running"
      /\ \A t \in Targets : /\ target'[t].reached = target[t].reached
                            /\ t # u => target'[t] = target[t]
  BY <1>1, <1>2, TargetFacts DEF IInv
<1>4. Quiet(u)
  BY <1>1, <1>2, UnreachedIsQuiet
<1>5. PICK r : MovesTo(w, r)
  <2>1. CASE Goto(w, "admit")
    <3>1. WorkSound([worker[w] EXCEPT !.pc = "admit"])
      BY <1>1, <1>2 DEF WorkSound, JoinSound, Work, Job, TargetOf
    <3> QED BY <2>1, <3>1, GotoMoves DEF IInv
  <2>2. ASSUME NEW status \in {"failed", "blocked"}, Conclude(w, status, "preflight")
        PROVE  \E r : MovesTo(w, r)
    BY <1>1, <1>2, <1>4, <2>2, ConcludeMoves DEF IInv, Settled
  <2> QED BY <2>1, <2>2 DEF RecordJoinPreflight
<1>6. TypeOK' /\ OpSound' /\ ServingIsJoined'
  BY <1>1, <1>2, <1>3, <1>5 DEF IInv, TypeOK, OpSound, ServingIsJoined, MovesTo
<1>7. OneJoiner'
  BY <1>5, OneJoinerKept DEF MovesTo, Job
<1>8. ASSUME NEW t \in Targets PROVE TaskSound(t)' /\ PlatformSound(t)'
  <2>1. TaskSound(t) /\ PlatformSound(t) /\ SameTarget(t) /\ SameTasks(t)
    BY <1>1, <1>3 DEF IInv, SameTarget, SameTasks
  <2>2. CASE t # u
    BY <1>3, <2>1, <2>2, TargetKept
  <2>3. CASE t = u
    <3>1. TaskSound(t)'
      BY <1>1, <1>2, <1>3, <2>1, <2>3 DEF TaskSound
    <3> QED BY <2>1, <3>1, TargetKept
  <2> QED BY <2>2, <2>3
<1>9. ASSUME NEW v \in Workers PROVE WorkSound(worker[v])'
  <2>1. \A t \in Targets : SameTarget(t)
    BY <1>1, <1>3 DEF SameTarget
  <2>2. CASE v # w
    <3>1. worker'[v] = worker[v]
      BY <1>5, <2>2 DEF IInv, TypeOK, MovesTo
    <3> QED BY <1>1, <2>1, <2>2, <3>1, ApartFacts, WorkerKept
  <2>3. CASE v = w
    <3>1. worker'[v] = r /\ WorkSound(r) /\ r.task \in {Job(w), NoTask}
      BY <1>5, <2>3 DEF IInv, TypeOK, MovesTo, Job
    <3>2. r.pc # "idle" => r.task = Job(w)
      BY <3>1 DEF WorkSound
    <3>3. WorkSound(r)'
      BY <1>1, <1>2, <2>1, <3>1, <3>2, WorkKept DEF TargetOf
    <3> QED BY <3>1, <3>3
  <2> QED BY <2>2, <2>3
<1> QED BY <1>6, <1>7, <1>8, <1>9 DEF IInv

\* The marker is set while nothing of this target has been sent at this stage.
LEMMA MarkPreserves ==
  ASSUME IInv, NEW w \in Workers, MarkJoinSideEffectStarted(w)
  PROVE  IInv'
<1> DEFINE u == TargetOf(w)
           next == IF At(w, "mark_request") THEN "request_join" ELSE "accept_join"
           r == [worker[w] EXCEPT !.pc = next]
<1>1. /\ worker[w].pc \in {"mark_request", "mark_accept"}
      /\ task[Job(w)].status = "running"
      /\ op' = [op EXCEPT !.holder = Job(w), !.token = worker[w].token, !.live = TRUE]
      /\ target' = [target EXCEPT ![u] = [status |-> "running", reached |-> TRUE]]
      /\ worker' = [worker EXCEPT ![w] = r]
      /\ UNCHANGED <<batch, confirmed, task, member, inflight, posts>>
  BY DEF MarkJoinSideEffectStarted, HoldsLease, Goto
<1>2. IsJoin(Job(w)) /\ JoinSound(worker[w]) /\ worker[w] \in Work /\ Job(w) # NoTask
  BY <1>1, BusyFacts DEF At
<1>3. /\ target[u].status \in {"queued", "running"} /\ batch # "serving"
      /\ TaskSound(u) /\ PlatformSound(u)
      /\ Job(w) = Join(u) /\ u \in Targets /\ Job(w) \in Tasks
  BY <1>1, <1>2, RunningFacts DEF At
<1>4. /\ target' \in [Targets -> TargetRow]
      /\ target'[u].status = "running" /\ target'[u].reached
      /\ \A t \in Targets : t # u => target'[t] = target[t]
  BY <1>1, <1>3 DEF IInv, TypeOK, TargetRow
<1>5. op' \in OpRow /\ op'.status = op.status
  BY <1>1, <1>2, <1>3 DEF IInv, TypeOK, OpRow, Work
<1>6. r \in Work /\ r.task = Job(w) /\ r.pc = next
      /\ next \in {"request_join", "accept_join"}
  BY <1>1, <1>2 DEF Work, Job
<1>7. TypeOK' /\ OpSound' /\ ServingIsJoined'
  BY <1>1, <1>3, <1>4, <1>5, <1>6 DEF IInv, TypeOK, OpSound, ServingIsJoined
<1>8. OneJoiner'
  BY <1>1, <1>6, OneJoinerKept DEF Job
<1>9. ASSUME NEW t \in Targets PROVE TaskSound(t)' /\ PlatformSound(t)'
  <2>1. TaskSound(t) /\ PlatformSound(t) /\ SameTasks(t)
    BY <1>1 DEF IInv, SameTasks
  <2>2. CASE t # u
    BY <1>1, <1>4, <2>1, <2>2, TargetKept DEF SameTarget
  <2>3. CASE t = u
    BY <1>1, <1>3, <1>4, <2>1, <2>3 DEF TaskSound, PlatformSound
  <2> QED BY <2>2, <2>3
<1>10. ASSUME NEW v \in Workers PROVE WorkSound(worker[v])'
  <2>1. CASE v # w
    <3>1. worker'[v] = worker[v]
      BY <1>1, <2>1 DEF IInv, TypeOK
    <3>2. \A t \in Targets : t # u => SameTarget(t)
      BY <1>1, <1>4 DEF SameTarget
    <3> QED BY <1>1, <1>2, <2>1, <3>1, <3>2, ApartFacts, WorkerKept DEF At
  <2>2. CASE v = w
    <3>1. next = "request_join" => Quiet(u) /\ \A s \in Stages : posts[<<s, u>>] = 0
      BY <1>1, <1>2, <1>3, UnreachedIsQuiet DEF JoinSound, At, TargetOf, Job
    <3>2. next = "accept_join" => posts[<<"accept_join", u>>] = 0
      BY <1>1, <1>2 DEF JoinSound, At, TargetOf, Job
    <3>3. "request_join" \in Stages /\ "accept_join" \in Stages
      BY DEF Stages
    <3>4. \A q : q = r => WorkSound(q)'
      BY <1>1, <1>2, <1>3, <1>4, <1>6, <3>1, <3>2, <3>3
         DEF WorkSound, JoinSound, Quiet, TargetOf
    <3>5. worker'[v] = r
      BY <1>1, <2>2 DEF IInv, TypeOK
    <3> QED BY <3>4, <3>5
  <2> QED BY <2>1, <2>2
<1> QED BY <1>7, <1>8, <1>9, <1>10 DEF IInv

\* Each position sends the POST of its own stage, and only once.
LEMMA SendPreserves ==
  ASSUME IInv, NEW w \in Workers, SendPost(w)
  PROVE  IInv'
<1> DEFINE u == TargetOf(w)
           p == <<worker[w].pc, u>>
           next == IF At(w, "request_join") THEN "await_request" ELSE "await_accept"
           r == [worker[w] EXCEPT !.pc = next]
<1>1. /\ worker[w].pc \in Stages
      /\ inflight' = inflight \cup {p} /\ posts' = [posts EXCEPT ![p] = posts[p] + 1]
      /\ worker' = [worker EXCEPT ![w] = r]
      /\ UNCHANGED <<op, batch, target, confirmed, task, member>>
  BY DEF SendPost, Goto
<1>2. IsJoin(Job(w)) /\ JoinSound(worker[w]) /\ worker[w] \in Work /\ Job(w) # NoTask
      /\ Job(w) = Join(u) /\ u \in Targets /\ p \in Stages \X Targets
  BY <1>1, BusyFacts DEF At, Stages
<1>3. /\ target[u].reached /\ posts[p] = 0
      /\ At(w, "request_join") => Quiet(u)
      /\ posts[<<"accept_join", u>>] = 0
      /\ task[Job(w)].status \in {"running", "interrupted"}
  BY <1>1, <1>2 DEF JoinSound, Stages, At, Job, TargetOf
<1>4. /\ posts' \in [Stages \X Targets -> Nat] /\ posts'[p] = 1
      /\ \A q \in Stages \X Targets : q # p => posts'[q] = posts[q]
  BY <1>1, <1>2, <1>3 DEF IInv, TypeOK
<1>5. r \in Work /\ r.task = Job(w) /\ r.pc = next
      /\ next \in {"await_request", "await_accept"}
  BY <1>1, <1>2 DEF Work, Job
<1>6. TypeOK' /\ OpSound' /\ ServingIsJoined'
  BY <1>1, <1>2, <1>4, <1>5 DEF IInv, TypeOK, OpSound, ServingIsJoined
<1>7. OneJoiner'
  BY <1>1, <1>5, OneJoinerKept DEF Job
<1>8. \A t \in Targets : t # u => SameTarget(t)
  BY <1>1, <1>4 DEF SameTarget
<1>9. ASSUME NEW t \in Targets PROVE TaskSound(t)' /\ PlatformSound(t)'
  <2>1. TaskSound(t) /\ PlatformSound(t) /\ SameTasks(t)
    BY <1>1 DEF IInv, SameTasks
  <2>2. CASE t # u
    BY <1>1, <1>8, <2>1, <2>2, TargetKept
  <2>3. CASE t = u
    <3>1. task[Join(t)].status \in {"running", "interrupted"}
      BY <1>2, <1>3, <2>3
    <3>2. TaskSound(t)'
      BY <1>1, <2>1, <3>1 DEF TaskSound
    <3>3. \A s \in Stages : <<s, t>> # p =>
            /\ posts'[<<s, t>>] = posts[<<s, t>>]
            /\ <<s, t>> \in inflight' <=> <<s, t>> \in inflight
      BY <1>1, <1>4
    <3>4. PlatformSound(t)'
      BY <1>1, <1>3, <1>4, <2>1, <2>3, <3>3 DEF PlatformSound
    <3> QED BY <3>2, <3>4
  <2> QED BY <2>2, <2>3
<1>10. ASSUME NEW v \in Workers PROVE WorkSound(worker[v])'
  <2>1. CASE v # w
    <3>1. worker'[v] = worker[v]
      BY <1>1, <2>1 DEF IInv, TypeOK
    <3> QED BY <1>1, <1>2, <1>8, <2>1, <3>1, ApartFacts, WorkerKept DEF At, Stages
  <2>2. CASE v = w
    <3>1. next = "await_request" =>
            u \notin member /\ posts'[<<"accept_join", u>>] = 0
      <4>1. next = "await_request" => worker[w].pc = "request_join"
        BY DEF At
      <4>2. <<"request_join", u>> # <<"accept_join", u>>
        OBVIOUS
      <4>3. <<"accept_join", u>> \in Stages \X Targets
        BY <1>2 DEF Stages
      <4> QED BY <1>3, <1>4, <4>1, <4>2, <4>3 DEF Quiet, At
    <3>2. \A q : q = r => WorkSound(q)'
      BY <1>1, <1>2, <1>3, <1>5, <3>1 DEF WorkSound, JoinSound, TargetOf
    <3>3. worker'[v] = r
      BY <1>1, <2>2 DEF IInv, TypeOK
    <3> QED BY <3>2, <3>3
  <2> QED BY <2>1, <2>2
<1> QED BY <1>6, <1>7, <1>9, <1>10 DEF IInv

\* A refused request was the only thing sent for its target.
LEMMA RefusedPreserves ==
  ASSUME IInv, NEW w \in Workers, RequestRefused(w)
  PROVE  IInv'
<1> DEFINE u == TargetOf(w)
           p == <<"request_join", u>>
           r == [worker[w] EXCEPT !.pc = "finish", !.outcome = "failed",
                   !.reconcile = NeedsReconciliation("failed", "join_request")]
<1>1. /\ At(w, "await_request") /\ p \in inflight /\ inflight' = inflight \ {p}
      /\ worker' = [worker EXCEPT ![w] = r]
      /\ UNCHANGED <<op, batch, target, confirmed, task, member, posts>>
  BY DEF RequestRefused, Conclude
<1>2. IsJoin(Job(w)) /\ JoinSound(worker[w]) /\ worker[w] \in Work /\ Job(w) # NoTask
      /\ Job(w) = Join(u) /\ u \in Targets
  BY <1>1, BusyFacts DEF At
<1>3. /\ u \notin member /\ posts[<<"accept_join", u>>] = 0
      /\ task[Job(w)].status \in {"running", "interrupted"}
  BY <1>1, <1>2 DEF JoinSound, At, Job, TargetOf
<1>4. u \notin member' /\ \A s \in Stages : <<s, u>> \notin inflight'
  <2>1. PlatformSound(u) /\ "accept_join" \in Stages
    BY <1>2 DEF IInv, Stages
  <2>2. <<"accept_join", u>> \notin inflight
    BY <1>3, <2>1 DEF PlatformSound
  <2>3. \A s \in Stages : <<s, u>> = p \/ <<s, u>> = <<"accept_join", u>>
    BY DEF Stages
  <2> QED BY <1>1, <1>3, <2>2, <2>3
<1>5. r \in Work /\ r.task = Job(w) /\ r.pc = "finish" /\ r.outcome = "failed"
  <2>1. \A status, stage : NeedsReconciliation(status, stage) \in BOOLEAN
    BY DEF NeedsReconciliation
  <2>2. "failed" \in Settled
    BY DEF Settled
  <2> QED BY <1>2, <2>1, <2>2 DEF Work, Job
<1>6. TypeOK' /\ OpSound' /\ ServingIsJoined'
  BY <1>1, <1>5 DEF IInv, TypeOK, OpSound, ServingIsJoined
<1>7. OneJoiner'
  BY <1>1, <1>5, OneJoinerKept DEF Job
<1>8. \A t \in Targets : t # u => SameTarget(t)
  BY <1>1 DEF SameTarget
<1>9. ASSUME NEW t \in Targets PROVE TaskSound(t)' /\ PlatformSound(t)'
  <2>1. TaskSound(t) /\ PlatformSound(t) /\ SameTasks(t)
    BY <1>1 DEF IInv, SameTasks
  <2>2. CASE t # u
    BY <1>1, <1>8, <2>1, <2>2, TargetKept
  <2>3. CASE t = u
    <3>1. task[Join(t)].status \in {"running", "interrupted"}
      BY <1>2, <1>3, <2>3
    <3> QED BY <1>1, <2>1, <3>1 DEF TaskSound, PlatformSound
  <2> QED BY <2>2, <2>3
<1>10. ASSUME NEW v \in Workers PROVE WorkSound(worker[v])'
  <2>1. CASE v # w
    <3>1. worker'[v] = worker[v]
      BY <1>1, <2>1 DEF IInv, TypeOK
    <3> QED BY <1>1, <1>2, <1>8, <2>1, <3>1, ApartFacts, WorkerKept DEF At
  <2>2. CASE v = w
    <3>1. SUFFICES ASSUME NEW q, q = r PROVE WorkSound(q)'
      BY <1>1, <2>2 DEF IInv, TypeOK
    <3>2. /\ q.task = Job(w) /\ q.pc = "finish" /\ q.outcome = "failed"
          /\ task'[q.task].status \in {"running", "interrupted"}
      BY <1>1, <1>3, <1>5, <3>1
    <3>3. Quiet(q.task[2])' /\ "failed" \in Settled
      BY <1>4, <3>2 DEF Quiet, TargetOf, Settled
    <3>4. JoinSound(q)'
      BY <3>2, <3>3 DEF JoinSound
    <3> QED BY <1>2, <3>2, <3>4 DEF WorkSound
  <2> QED BY <2>1, <2>2
<1> QED BY <1>6, <1>7, <1>9, <1>10 DEF IInv

-----------------------------------------------------------------------------
(* Outcomes *)

\* FinishJoin is the end of the only worker of the join: what it reports is
\* true of everything that was sent.
LEMMA FinishPreserves ==
  ASSUME IInv, NEW w \in Workers, FinishJoin(w)
  PROVE  IInv'
<1> DEFINE u == TargetOf(w)
           x == Job(w)
           y == <<"auto", u>>
           rows == WithStatus(u, worker[w].outcome)
           ended == [task EXCEPT ![x] = Ended(@, "succeeded")]
<1>1. /\ At(w, "finish") /\ task[x].status = "running"
      /\ target' = rows
      /\ op' = [(IF op.holder = x /\ op.token = worker[w].token
                 THEN Cleared(op) ELSE op) EXCEPT !.status = OperationStatus(rows)]
      /\ task' = IF worker[w].reconcile THEN Inserted(ended, y) ELSE ended
      /\ worker' = [worker EXCEPT ![w] = Idle]
      /\ UNCHANGED <<member, inflight, posts>>
  BY DEF FinishJoin, HoldsLease
<1>2. /\ worker[w].outcome # "succeeded" => batch' = "joining" /\ confirmed' = confirmed
      /\ worker[w].outcome = "succeeded" =>
           /\ confirmed' = confirmed \cup {u}
           /\ batch' = IF OperationStatus(rows) = "succeeded" THEN "serving" ELSE batch
  BY DEF FinishJoin
<1>3. /\ IsJoin(x) /\ x # NoTask /\ JoinSound(worker[w]) /\ worker[w] \in Work
      /\ ~At(w, "idle")
  BY <1>1, BusyFacts DEF At
<1>4. /\ target[u].status \in {"queued", "running"} /\ batch # "serving"
      /\ TaskSound(u) /\ PlatformSound(u)
      /\ x = Join(u) /\ u \in Targets /\ x \in Tasks
  BY <1>1, <1>3, RunningFacts
<1>5. /\ worker[w].outcome \in Settled
      /\ worker[w].outcome = "failed" => Quiet(u)
      /\ worker[w].outcome = "succeeded" => u \in member
      /\ worker[w].outcome \in {"blocked", "unknown"} /\ target[u].reached
           => worker[w].reconcile
  BY <1>1, <1>3 DEF JoinSound, At, TargetOf, Job
<1>6. /\ y \in Tasks /\ x # y /\ "auto" \in Kinds \ {"join"}
  BY <1>4 DEF Kinds, Tasks, Join
<1>7. /\ ended \in [Tasks -> TaskRow]
      /\ ended[x].status = "succeeded" /\ ended[x].attempts = task[x].attempts
      /\ \A z \in Tasks : z # x => ended[z] = task[z]
  BY <1>4, EndedFacts DEF IInv
<1>8. /\ task' \in [Tasks -> TaskRow]
      /\ task'[x].status = "succeeded" /\ task'[x].attempts = task[x].attempts
      /\ worker[w].reconcile => task'[y].status # "none"
      /\ \A z \in Tasks : z \notin {x, y} => task'[z] = task[z]
  <2> HIDE DEF ended, x, y
  <2> QED BY <1>1, <1>4, <1>6, <1>7, InsertedFacts
<1>9. /\ target' \in [Targets -> TargetRow]
      /\ target'[u].status = worker[w].outcome
      /\ \A t \in Targets : /\ target'[t].reached = target[t].reached
                            /\ t # u => target'[t] = target[t]
  BY <1>1, <1>4, <1>5, TargetFacts DEF IInv
<1>10. op' \in OpRow /\ op'.status # "none"
  <2> HIDE DEF rows, x
  <2> QED BY <1>1, AggregateFacts DEF IInv
<1>11. /\ batch' \in {"planned", "joining", "serving"}
       /\ batch' = "serving" => \A t \in Targets : target'[t].status = "succeeded"
  <2> HIDE DEF rows
  <2> QED BY <1>1, <1>2, <1>4, OperationStatusFacts DEF IInv, TypeOK
<1>12. TypeOK' /\ OpSound'
  BY <1>1, <1>2, <1>4, <1>8, <1>9, <1>10, <1>11, IdleFacts DEF IInv, TypeOK, OpSound
<1>13. ServingIsJoined'
  <2>1. ASSUME NEW t \in Targets, target'[t].status = "succeeded" PROVE t \in confirmed'
    BY <1>2, <1>9, <2>1 DEF IInv, ServingIsJoined
  <2>2. confirmed' \subseteq member'
    BY <1>1, <1>2, <1>5 DEF IInv, ServingIsJoined
  <2> QED BY <1>11, <2>1, <2>2 DEF ServingIsJoined
<1>14. OneJoiner'
  BY <1>1, IdleFacts, OneJoinerKept
<1>15. \A t \in Targets : SameTarget(t)
  BY <1>1, <1>9 DEF SameTarget
<1>16. ASSUME NEW t \in Targets PROVE TaskSound(t)' /\ PlatformSound(t)'
  <2>1. TaskSound(t) /\ PlatformSound(t) /\ SameTarget(t)
    BY <1>15 DEF IInv
  <2>2. CASE t # u
    <3>1. \A k \in Kinds : <<k, t>> \in Tasks /\ <<k, t>> \notin {x, y}
      BY <1>4, <2>2 DEF Join, Tasks
    <3>2. Join(t) \in Tasks /\ Join(t) \notin {x, y}
      BY <3>1, KindFacts DEF Join
    <3>3. SameTasks(t)
      BY <1>8, <3>1, <3>2 DEF SameTasks
    <3> QED BY <1>9, <2>1, <2>2, <3>3, TargetKept
  <2>3. CASE t = u
    <3>1. worker[w].outcome = "failed" => Quiet(t)'
      BY <1>1, <1>5, <2>3 DEF Quiet
    <3>2. /\ task'[Join(t)].status = "succeeded"
          /\ task'[Join(t)].attempts = task[Join(t)].attempts
          /\ worker[w].reconcile => task'[<<"auto", t>>].status # "none"
      BY <1>4, <1>8, <2>3
    <3>3. TaskSound(t)'
      BY <1>5, <1>6, <1>9, <2>1, <2>3, <3>1, <3>2 DEF TaskSound, Settled
    <3> QED BY <2>1, <3>3, TargetKept
  <2> QED BY <2>2, <2>3
<1>17. ASSUME NEW v \in Workers PROVE WorkSound(worker[v])'
  <2>1. CASE v # w
    <3>1. worker'[v] = worker[v]
      BY <1>1, <2>1 DEF IInv, TypeOK
    <3>2. worker[v].pc # "idle" /\ IsJoin(worker[v].task) =>
            worker[v].task \notin {x, y} /\ worker[v].task \in Tasks
      BY <1>3, <2>1, ApartFacts DEF IsJoin
    <3> QED BY <1>1, <1>8, <1>15, <2>1, <3>1, <3>2, ApartFacts, WorkerKept
  <2>2. CASE v = w
    <3>1. worker'[v] = Idle
      BY <1>1, <2>2 DEF IInv, TypeOK
    <3> QED BY <3>1, IdleFacts DEF WorkSound
  <2> QED BY <2>1, <2>2
<1> QED BY <1>12, <1>13, <1>14, <1>16, <1>17 DEF IInv

\* A reconciliation ends, or waits, without undoing what its join left.
LEMMA ReconcilePreserves ==
  ASSUME IInv, NEW w \in Workers, FinishJoinReconciliation(w)
  PROVE  IInv'
<1> DEFINE u == TargetOf(w)
           x == Job(w)
           present == worker[w].outcome = "present"
           rows == WithStatus(u, IF present THEN "succeeded" ELSE "unknown")
<1>1. /\ At(w, "reconciled") /\ task[x].status = "running"
      /\ target' = rows
      /\ confirmed' = (IF present THEN confirmed \cup {u} ELSE confirmed)
      /\ op' = [op EXCEPT !.status = OperationStatus(rows)]
      /\ SettleJoinAggregate(rows)
      /\ task' = [task EXCEPT ![x] = Ended(@, ReconcileStatus(w))]
      /\ worker' = [worker EXCEPT ![w] = Idle]
      /\ UNCHANGED <<member, inflight, posts>>
  BY DEF FinishJoinReconciliation, HoldsLease
<1>2. /\ x \in Tasks /\ ~IsJoin(x) /\ u \in Targets
      /\ x = <<x[1], u>> /\ x[1] \in Kinds \ {"join"}
      /\ present => u \in member
  BY <1>1, BusyFacts, KindFacts DEF WorkSound, At, IsJoin, Job, TargetOf
<1>3. ReconcileStatus(w) \in {"succeeded", "failed", "retry_wait"}
  BY DEF ReconcileStatus
<1>4. /\ task' \in [Tasks -> TaskRow]
      /\ task'[x].status # "none"
      /\ \A z \in Tasks : z # x => task'[z] = task[z]
  <2> HIDE DEF x
  <2> QED BY <1>1, <1>2, <1>3, EndedFacts DEF IInv
<1>5. /\ target' \in [Targets -> TargetRow]
      /\ target'[u].status \in {"succeeded", "unknown"}
      /\ target'[u].status = "succeeded" => present
      /\ \A t \in Targets : /\ target'[t].reached = target[t].reached
                            /\ t # u => target'[t] = target[t]
  <2>1. "succeeded" \in Settled /\ "unknown" \in Settled
    BY DEF Settled
  <2> QED BY <1>1, <1>2, <2>1, TargetFacts DEF IInv
<1>6. /\ op' \in OpRow /\ op'.status # "none"
      /\ batch' \in {"joining", "serving"}
      /\ batch' = "serving" => \A t \in Targets : target'[t].status = "succeeded"
  <2> HIDE DEF rows
  <2> QED BY <1>1, AggregateFacts DEF IInv
<1>7. TypeOK' /\ OpSound'
  BY <1>1, <1>2, <1>4, <1>5, <1>6, IdleFacts DEF IInv, TypeOK, OpSound
<1>8. ServingIsJoined'
  BY <1>1, <1>2, <1>5, <1>6 DEF IInv, ServingIsJoined
<1>9. OneJoiner'
  BY <1>1, IdleFacts, OneJoinerKept
<1>10. \A t \in Targets : SameTarget(t)
  BY <1>1, <1>5 DEF SameTarget
<1>11. ASSUME NEW t \in Targets PROVE TaskSound(t)' /\ PlatformSound(t)'
  <2>1. TaskSound(t) /\ PlatformSound(t) /\ SameTarget(t)
    BY <1>10 DEF IInv
  <2>2. Join(t) \in Tasks /\ Join(t) # x /\ \A k \in Kinds : <<k, t>> \in Tasks
    BY <1>2, KindFacts DEF Tasks
  <2>3. SameTasks(t)
    BY <1>1, <1>4, <2>2 DEF SameTasks
  <2>4. CASE t # u
    BY <1>5, <2>1, <2>3, <2>4, TargetKept
  <2>5. CASE t = u
    <3>1. task[Join(t)].status \notin {"none", "queued", "running"}
      BY <1>1, <1>2, <2>1, <2>5 DEF TaskSound
    <3>2. "recovery" \in Kinds \ {"join"}
      BY DEF Kinds
    <3>3. \E k \in Kinds \ {"join"} : task'[<<k, t>>].status # "none"
      BY <1>2, <1>4, <2>5
    <3>4. TaskSound(t)'
      BY <1>5, <2>1, <2>3, <2>5, <3>1, <3>2, <3>3 DEF TaskSound, SameTasks
    <3> QED BY <2>1, <3>4, TargetKept
  <2> QED BY <2>4, <2>5
<1>12. ASSUME NEW v \in Workers PROVE WorkSound(worker[v])'
  <2>1. CASE v # w
    <3>1. worker'[v] = worker[v]
      BY <1>1, <2>1 DEF IInv, TypeOK
    <3>2. worker[v].pc # "idle" /\ IsJoin(worker[v].task) =>
            worker[v].task # x /\ worker[v].task \in Tasks
      BY <1>2, <2>1, ApartFacts
    <3> QED BY <1>1, <1>4, <1>10, <2>1, <3>1, <3>2, ApartFacts, WorkerKept
  <2>2. CASE v = w
    <3>1. worker'[v] = Idle
      BY <1>1, <2>2 DEF IInv, TypeOK
    <3> QED BY <3>1, IdleFacts DEF WorkSound
  <2> QED BY <2>1, <2>2
<1> QED BY <1>7, <1>8, <1>9, <1>11, <1>12 DEF IInv

-----------------------------------------------------------------------------
(* The invariant *)

LEMMA InitSound == Init => IInv
<1> SUFFICES ASSUME Init PROVE IInv
  OBVIOUS
<1>1. \A x \in Tasks : task[x].status = "none" /\ task[x].attempts = 0
  BY DEF Init, Absent, NewTask
<1>2. TypeOK
  <2>1. Absent \in TaskRow /\ 0 \in 0..MaxAttempts
    BY AttemptsAssumption DEF Absent, NewTask, TaskRow
  <2> QED BY <2>1, IdleFacts DEF Init, TypeOK, OpRow, TargetRow
<1>3. \A t \in Targets : TaskSound(t) /\ PlatformSound(t)
  <2> SUFFICES ASSUME NEW t \in Targets PROVE TaskSound(t) /\ PlatformSound(t)
    OBVIOUS
  <2>1. \A k \in Kinds : task[<<k, t>>].status = "none"
    BY <1>1 DEF Tasks
  <2>2. task[Join(t)].status = "none" /\ task[Join(t)].attempts = 0
    BY <1>1, KindFacts
  <2>3. TaskSound(t)
    BY <2>1, <2>2 DEF Init, TaskSound
  <2> QED BY <2>3 DEF Init, PlatformSound
<1>4. /\ \A w \in Workers : WorkSound(worker[w])
      /\ OneJoiner /\ OpSound /\ ServingIsJoined
  BY <1>1, IdleFacts DEF Init, OneJoiner, OpSound, ServingIsJoined
<1> QED BY <1>2, <1>3, <1>4 DEF IInv

LEMMA NextPreserves == IInv /\ [Next]_vars => IInv'
<1> SUFFICES ASSUME IInv, [Next]_vars PROVE IInv'
  OBVIOUS
<1>1. CASE UNCHANGED vars
  <2>1. TypeOK' /\ OpSound' /\ OneJoiner' /\ ServingIsJoined'
    BY <1>1 DEF vars, IInv, TypeOK, OpSound, OneJoiner, ServingIsJoined
  <2>2. \A t \in Targets : (TaskSound(t) /\ PlatformSound(t))'
    BY <1>1 DEF vars, IInv, TaskSound, PlatformSound, Quiet
  <2>3. \A w \in Workers : WorkSound(worker[w])'
    <3> SUFFICES ASSUME NEW w \in Workers PROVE WorkSound(worker[w])'
      OBVIOUS
    <3>1. WorkSound(worker[w])
      BY DEF IInv
    <3>2. UNCHANGED <<op, batch, target, confirmed, task, worker, member, inflight, posts>>
      BY <1>1 DEF vars
    <3> QED BY <3>1, <3>2 DEF WorkSound, JoinSound, Quiet
  <2> QED BY <2>1, <2>2, <2>3 DEF IInv
<1>2. CASE CreateJoinOperation
  BY <1>2, CreatePreserves
<1>3. CASE \E k \in OwnerKeys, t \in Targets : EnqueueJoinReconciliation(k, t)
  BY <1>3, EnqueuePreserves
<1>4. ASSUME NEW w \in Workers, TickStep(w) PROVE IInv'
  BY <1>4, RecoverPreserves, ExhaustPreserves, ClaimPreserves DEF TickStep
<1>5. ASSUME NEW w \in Workers, JoinStep(w) PROVE IInv'
  BY <1>5, LocalActions, PreflightPreserves, MarkPreserves, SendPreserves,
     RefusedPreserves, FinishPreserves DEF JoinStep
<1>6. ASSUME NEW w \in Workers, ReconcileStep(w) PROVE IInv'
  BY <1>6, LocalActions, ReconcilePreserves DEF ReconcileStep
<1>7. ASSUME NEW w \in Workers, LeaseLost(w) \/ Abandon(w) PROVE IInv'
  BY <1>7, LocalActions DEF LeaseLost
<1>8. CASE MutationLeaseExpires \/ \E x \in Tasks : LeaseExpires(x)
  BY <1>8, ClockActions
<1>9. CASE \E p \in Stages \X Targets : PlatformApplies(p) \/ PlatformDrops(p)
  BY <1>9, PlatformActions
<1> QED
  BY <1>1, <1>2, <1>3, <1>4, <1>5, <1>6, <1>7, <1>8, <1>9 DEF Next, RunOnce

\* Everything the positions, rows and effects say about each other is kept by
\* every step of every actor.
THEOREM JoinSoundness == Spec => []IInv
<1> QED BY InitSound, NextPreserves, PTL DEF Spec

\* Every row holds a value its CHECK constraints allow.
THEOREM JoinTypeCorrect == Spec => []TypeOK
<1>1. IInv => TypeOK
  BY DEF IInv
<1> QED BY <1>1, JoinSoundness, PTL

\* Whatever crashes, takeovers and reconciliations follow, each POST is sent at
\* most once for a target and never before its marker (join_worker.go:55).
THEOREM JoinNeverReplayed == Spec => []NeverReplayed
<1>1. IInv => NeverReplayed
  BY DEF IInv, PlatformSound, NeverReplayed
<1> QED BY <1>1, JoinSoundness, PTL

\* The steps that write the operation or a target, and what they leave.
LEMMA WritesFacts ==
  ASSUME IInv, [Next]_vars
  PROVE  /\ op.status # "none" => op'.status # "none"
         /\ \/ \E w \in Workers : MarkJoinSideEffectStarted(w) \/ SendPost(w)
            \/ posts' = posts /\ \A t \in Targets : target'[t].reached = target[t].reached
<1>1. TypeOK /\ op \in OpRow
  BY DEF IInv, TypeOK
<1> DEFINE Reaches == \A t \in Targets : target'[t].reached = target[t].reached
           Stays == op.status # "none" => op'.status # "none"
<1>2. ASSUME NEW t \in Targets, NEW status \in {"queued", "running"} \cup Settled,
             target' = WithStatus(t, status)
      PROVE  Reaches
  BY <1>1, <1>2, TargetFacts
<1>3. ASSUME NEW rows, \/ op' = [op EXCEPT !.status = OperationStatus(rows)]
                       \/ op' = [Cleared(op) EXCEPT !.status = OperationStatus(rows)]
      PROVE  Stays
  BY <1>1, <1>3, AggregateFacts
<1>4. CASE CreateJoinOperation
  BY <1>1, <1>4 DEF CreateJoinOperation, OpRow
<1>5. CASE UNCHANGED <<op, target, posts>>
  BY <1>5
<1>6. ASSUME NEW w \in Workers, TickStep(w) PROVE Stays /\ posts' = posts /\ Reaches
  <2>1. ASSUME NEW t \in Targets, RecoverExpiredJoin(w, t)
        PROVE  Stays /\ posts' = posts /\ Reaches
    <3>1. posts' = posts /\ target' = WithStatus(t, "unknown")
      BY <2>1 DEF RecoverExpiredJoin
    <3>2. \E rows : \/ op' = [op EXCEPT !.status = OperationStatus(rows)]
                    \/ op' = [Cleared(op) EXCEPT !.status = OperationStatus(rows)]
      BY <2>1 DEF RecoverExpiredJoin
    <3> QED BY <1>2, <1>3, <3>1, <3>2 DEF Settled
  <2>2. ASSUME NEW x \in Tasks, SettleExhausted(w, x)
        PROVE  Stays /\ posts' = posts /\ Reaches
    <3>1. posts' = posts /\ target' = WithStatus(x[2], "unknown") /\ x[2] \in Targets
      BY <2>2, KindFacts DEF SettleExhausted
    <3>2. Stays
      BY <1>3, <2>2 DEF SettleExhausted
    <3> QED BY <1>2, <3>1, <3>2 DEF Settled
  <2> QED BY <1>6, <2>1, <2>2 DEF TickStep, ClaimTask, ClaimRejected
<1>7. ASSUME NEW w \in Workers, MarkJoinSideEffectStarted(w) \/ SendPost(w) PROVE Stays
  BY <1>1, <1>7 DEF MarkJoinSideEffectStarted, SendPost, OpRow
<1>8. ASSUME NEW w \in Workers, RecordJoinPreflight(w)
      PROVE  Stays /\ posts' = posts /\ Reaches
  <2>1. TargetOf(w) \in Targets
    BY <1>8, BusyFacts DEF RecordJoinPreflight, At
  <2> QED BY <1>2, <1>8, <2>1 DEF RecordJoinPreflight
<1>9. ASSUME NEW w \in Workers, FinishJoin(w) PROVE Stays /\ posts' = posts /\ Reaches
  <2>1. /\ TargetOf(w) \in Targets /\ worker[w].outcome \in Settled
        /\ posts' = posts /\ target' = WithStatus(TargetOf(w), worker[w].outcome)
    BY <1>9, BusyFacts DEF FinishJoin, At, JoinSound
  <2>2. \E rows : \/ op' = [op EXCEPT !.status = OperationStatus(rows)]
                  \/ op' = [Cleared(op) EXCEPT !.status = OperationStatus(rows)]
    BY <1>9 DEF FinishJoin
  <2> QED BY <1>2, <1>3, <2>1, <2>2
<1>10. ASSUME NEW w \in Workers, FinishJoinReconciliation(w)
       PROVE  Stays /\ posts' = posts /\ Reaches
  <2>1. /\ TargetOf(w) \in Targets /\ posts' = posts
        /\ \/ target' = WithStatus(TargetOf(w), "succeeded")
           \/ target' = WithStatus(TargetOf(w), "unknown")
    BY <1>10, BusyFacts DEF FinishJoinReconciliation, At
  <2>2. Stays
    BY <1>3, <1>10 DEF FinishJoinReconciliation
  <2> QED BY <1>2, <2>1, <2>2 DEF Settled
<1>11. ASSUME NEW w \in Workers, RunOnce(w) \/ Abandon(w)
       PROVE  Stays /\ \/ MarkJoinSideEffectStarted(w) \/ SendPost(w)
                       \/ posts' = posts /\ Reaches
  BY <1>5, <1>6, <1>7, <1>8, <1>9, <1>10, <1>11
     DEF RunOnce, JoinStep, ReconcileStep, LeaseLost, Abandon, PrepareFails, AdmitJoin,
         RequestUncertain, RequestRefused, RequestAccepted, AdmitAccept, AcceptUncertain,
         AcceptSucceeds, VerifyMembership, ObserveMembership, LocalStep
<1>12. CASE MutationLeaseExpires
  BY <1>1, <1>12 DEF MutationLeaseExpires, OpRow
<1> QED
  BY <1>4, <1>5, <1>11, <1>12
     DEF Next, vars, EnqueueJoinReconciliation, LeaseExpires, PlatformApplies, PlatformDrops

LEMMA EffectStep ==
  ASSUME IInv, [Next]_vars, NEW p \in Stages \X Targets
  PROVE  [PostEffect(p)!Next]_(PostEffect(p)!vars)
<1> DEFINE t == p[2]
           reserved == op.status # "none"
           marked == target[t].reached
<1>1. /\ t \in Targets /\ marked \in BOOLEAN /\ posts \in [Stages \X Targets -> Nat]
      /\ target \in [Targets -> TargetRow] /\ op \in OpRow
  BY DEF IInv, TypeOK, TargetRow
<1>2. reserved => reserved'
  BY WritesFacts
<1>3. CASE \E w \in Workers : MarkJoinSideEffectStarted(w)
  <2>1. PICK w \in Workers : MarkJoinSideEffectStarted(w)
    BY <1>3
  <2>2. Job(w) \in Tasks /\ task[Job(w)].status = "running"
    BY <2>1, BusyFacts DEF MarkJoinSideEffectStarted, At, HoldsLease
  <2>3. reserved /\ reserved'
    BY <1>2, <2>2 DEF IInv, OpSound
  <2>4. posts' = posts /\ (target'[t] = target[t] \/ target'[t].reached)
    BY <1>1, <2>1 DEF MarkJoinSideEffectStarted
  <2>5. CASE marked' = marked
    BY <1>1, <2>3, <2>4, <2>5 DEF PostEffect!vars
  <2>6. CASE ~marked /\ marked'
    BY <2>3, <2>4, <2>6 DEF PostEffect!Next, PostEffect!Mark
  <2> QED BY <1>1, <2>4, <2>5, <2>6
<1>4. CASE \E w \in Workers : SendPost(w)
  <2>1. PICK w \in Workers : SendPost(w)
    BY <1>4
  <2> DEFINE q == <<worker[w].pc, TargetOf(w)>>
  <2>2. /\ worker[w].pc \in Stages /\ posts' = [posts EXCEPT ![q] = @ + 1]
        /\ UNCHANGED <<op, target>>
    BY <2>1 DEF SendPost
  <2>3. IsJoin(Job(w)) /\ JoinSound(worker[w])
    BY <2>2, BusyFacts DEF At, Stages
  <2>4. target[TargetOf(w)].reached /\ posts[q] = 0
    BY <2>2, <2>3 DEF JoinSound, Stages, Job, TargetOf
  <2> HIDE DEF q
  <2>5. CASE p = q
    <3>1. marked /\ posts[p] = 0 /\ posts'[p] = 1
      BY <1>1, <2>2, <2>4, <2>5 DEF q
    <3> QED BY <2>2, <3>1 DEF PostEffect!Next, PostEffect!Send
  <2>6. CASE p # q
    BY <1>1, <2>2, <2>6 DEF PostEffect!vars
  <2> QED BY <2>5, <2>6
<1>5. CASE posts' = posts /\ \A u \in Targets : target'[u].reached = target[u].reached
  <2>1. CASE reserved' = reserved
    BY <1>1, <1>5, <2>1 DEF PostEffect!vars
  <2>2. CASE reserved' /\ ~reserved
    BY <1>1, <1>5, <2>2 DEF PostEffect!Next, PostEffect!Reserve
  <2> QED BY <1>2, <2>1, <2>2
<1> QED BY <1>3, <1>4, <1>5, WritesFacts

\* Each of the two POSTs for a target implements the abstract promise: reserved
\* with its operation, behind a marker no step takes back, sent once at most
\* (MarkJoinSideEffectStarted, RequestJoin, AcceptJoin).
THEOREM PostsAreOnce == Spec => PostsOnce
<1>1. Init => \A p \in Stages \X Targets : PostEffect(p)!Init
  BY DEF Init, PostEffect!Init
<1>2. IInv /\ [Next]_vars =>
        [\A p \in Stages \X Targets : [PostEffect(p)!Next]_(PostEffect(p)!vars)]_vars
  BY EffectStep
<1> QED BY <1>1, <1>2, JoinSoundness, PTL DEF Spec, PostsOnce

\* A target reported as failed is not, and will not become, a member by
\* anything that was sent for it.
THEOREM FailuresStand == Spec => []FailedNeverJoins
<1>1. IInv => FailedNeverJoins
  BY DEF IInv, TaskSound, Quiet, FailedNeverJoins
<1> QED BY <1>1, JoinSoundness, PTL

\* An uncertain join that is over has been handed to a reconciliation.
THEOREM UncertainHandedOn == Spec => []UncertainIsReconciled
<1>1. IInv => UncertainIsReconciled
  <2> SUFFICES ASSUME IInv, NEW t \in Targets,
                      \E s \in Stages : posts[<<s, t>>] > 0,
                      task[<<"join", t>>].status \in {"succeeded", "failed", "interrupted"},
                      target[t].status \notin {"succeeded", "failed"}
               PROVE  \E k \in Kinds \ {"join"} : task[<<k, t>>].status # "none"
    BY DEF UncertainIsReconciled
  <2>1. TaskSound(t) /\ PlatformSound(t)
    BY DEF IInv
  <2>2. target[t].reached
    BY <2>1 DEF PlatformSound
  <2>3. "recovery" \in Kinds \ {"join"}
    BY DEF Kinds
  <2> QED BY <2>1, <2>2, <2>3 DEF TaskSound, Join
<1> QED BY <1>1, JoinSoundness, PTL

\* A batch serves only accounts that were seen in the Workspace.
THEOREM ServesJoined == Spec => []ServingIsJoined
<1>1. IInv => ServingIsJoined
  BY DEF IInv
<1> QED BY <1>1, JoinSoundness, PTL

-----------------------------------------------------------------------------
(* The Workspace mutation lease *)

HoldsWorkspace(w) ==
  op.live /\ op.holder = Job(w) /\ op.token = worker[w].token

\* The positions of Mutating lie between MarkJoinSideEffectStarted and
\* FinishJoin of one task, and the lease row does not change hands in between.
MutationSound == \A w \in Workers : Mutating(w) => HoldsWorkspace(w)

SameHolder ==
  op'.live = op.live /\ op'.holder = op.holder /\ op'.token = op.token

SameLease(x) ==
  /\ task'[x].status = "running" => task[x].status = "running"
  /\ task'[x].lease = "live" => task[x].lease = "live"
  /\ task'[x].status = "running" => task'[x].attempts = task[x].attempts

LEMMA MutatingFacts ==
  ASSUME IInv, NEW w \in Workers, Mutating(w)
  PROVE  /\ IsJoin(Job(w)) /\ Job(w) \in Tasks /\ Job(w) # NoTask
         /\ task[Job(w)].status = "running"
BY BusyFacts DEF Mutating, HoldsLease, At

LEMMA HolderKept ==
  ASSUME MutationSound, NEW w \in Workers, worker'[w] = worker[w],
         SameLease(Job(w)), Mutating(w) => SameHolder, Mutating(w)'
  PROVE  HoldsWorkspace(w)'
<1>1. Mutating(w)
  BY DEF Mutating, HoldsLease, SameLease, Job
<1> QED BY <1>1 DEF MutationSound, HoldsWorkspace, SameHolder, Job

\* The holder's own steps keep its task and token.
LEMMA HolderMoves ==
  ASSUME MutationSound, NEW w \in Workers, Mutating(w)', Mutating(w) => SameHolder,
         UNCHANGED task, worker[w].pc \in {"request_join", "await_request",
           "admit_accept", "mark_accept", "accept_join", "await_accept", "verify"},
         worker'[w].task = worker[w].task, worker'[w].token = worker[w].token
  PROVE  HoldsWorkspace(w)'
<1>1. Mutating(w)
  BY DEF Mutating, HoldsLease, Job
<1> QED BY <1>1 DEF MutationSound, HoldsWorkspace, SameHolder, Job

LEMMA OwnMutation ==
  ASSUME IInv, MutationSound, NEW w \in Workers, Mutating(w)',
         JoinStep(w) \/ ReconcileStep(w) \/ Abandon(w)
  PROVE  HoldsWorkspace(w)'
<1> DEFINE Positions == {"request_join", "await_request", "admit_accept",
                         "mark_accept", "accept_join", "await_accept", "verify"}
<1>1. worker \in [Workers -> Work] /\ worker[w] \in Work
  BY DEF IInv, TypeOK
<1>2. worker'[w].pc \in Positions
  BY DEF Mutating
<1>3. \A status, stage : ~Conclude(w, status, stage)
  <2> SUFFICES ASSUME NEW status, NEW stage, Conclude(w, status, stage) PROVE FALSE
    OBVIOUS
  <2>1. worker'[w] = [worker[w] EXCEPT !.pc = "finish", !.outcome = status,
                        !.reconcile = NeedsReconciliation(status, stage)]
    BY <1>1 DEF Conclude
  <2>2. worker'[w].pc = "finish"
    BY <1>1, <2>1 DEF Work
  <2> QED BY <1>2, <2>2
<1>4. CASE MarkJoinSideEffectStarted(w)
  <2>1. op \in OpRow
    BY DEF IInv, TypeOK
  <2> QED BY <1>1, <1>4, <2>1
          DEF MarkJoinSideEffectStarted, Goto, HoldsWorkspace, Job, OpRow, Work
<1>5. CASE SendPost(w) \/ RequestAccepted(w) \/ AdmitAccept(w) \/ AcceptSucceeds(w)
  <2>1. /\ UNCHANGED <<op, task>> /\ worker[w].pc \in Positions
        /\ \E pc : Goto(w, pc)
    BY <1>3, <1>5 DEF SendPost, RequestAccepted, AdmitAccept, AcceptSucceeds,
                      LocalStep, At, Stages
  <2>2. worker'[w].task = worker[w].task /\ worker'[w].token = worker[w].token
    BY <1>1, <2>1 DEF Goto, Work
  <2> QED BY <2>1, <2>2, HolderMoves DEF SameHolder
<1>6. ~(PrepareFails(w) \/ RequestUncertain(w) \/ RequestRefused(w)
        \/ AcceptUncertain(w) \/ VerifyMembership(w))
  BY <1>3 DEF PrepareFails, RequestUncertain, RequestRefused, AcceptUncertain,
              VerifyMembership
<1>7. ~Goto(w, "admit") /\ ~Goto(w, "mark_request")
  BY <1>1, <1>2 DEF Goto, Work
<1>8. ~RecordJoinPreflight(w) /\ ~AdmitJoin(w)
  BY <1>3, <1>7 DEF RecordJoinPreflight, AdmitJoin
<1>9. worker' # [worker EXCEPT ![w] = Idle]
  BY <1>1, <1>2, IdleFacts
<1>10. ~ObserveMembership(w)
  <2> SUFFICES ASSUME ObserveMembership(w) PROVE FALSE
    OBVIOUS
  <2>1. PICK seen : worker' = [worker EXCEPT ![w] =
                                 [@ EXCEPT !.pc = "reconciled", !.outcome = seen]]
    BY DEF ObserveMembership, MembershipResults
  <2>2. worker'[w].pc = "reconciled"
    BY <1>1, <2>1 DEF Work
  <2> QED BY <1>2, <2>2
<1> QED BY <1>4, <1>5, <1>6, <1>8, <1>9, <1>10
        DEF JoinStep, ReconcileStep, Abandon, FinishJoin, FinishJoinReconciliation

\* Another worker cannot take the Workspace from a live holder: its marker
\* waits, and its outcome clears only its own lease.
LEMMA OthersMutation ==
  ASSUME IInv, MutationSound, NEW v \in Workers, NEW w \in Workers \ {v},
         Mutating(w)', JoinStep(v) \/ ReconcileStep(v) \/ Abandon(v)
  PROVE  HoldsWorkspace(w)'
<1>1. worker'[w] = worker[w]
  <2>1. /\ worker \in [Workers -> Work]
        /\ \A q, pc : worker' = [worker EXCEPT ![v] = q] => worker'[w] = worker[w]
    BY DEF IInv, TypeOK
  <2>2. \A pc : Goto(v, pc) => worker'[w] = worker[w]
    BY <2>1 DEF Goto
  <2>3. \A status, stage : Conclude(v, status, stage) => worker'[w] = worker[w]
    BY <2>1 DEF Conclude
  <2> QED BY <2>1, <2>2, <2>3
      DEF JoinStep, ReconcileStep, Abandon, PrepareFails, RecordJoinPreflight,
          AdmitJoin, MarkJoinSideEffectStarted, SendPost, RequestUncertain,
          RequestRefused, RequestAccepted, AdmitAccept, AcceptUncertain,
          AcceptSucceeds, VerifyMembership, FinishJoin, ObserveMembership,
          FinishJoinReconciliation
<1>2. Mutating(w) => /\ IsJoin(Job(w)) /\ Job(w) \in Tasks /\ Job(w) # NoTask
                     /\ HoldsWorkspace(w) /\ (IsJoin(Job(v)) => Job(w) # Job(v))
  BY MutatingFacts DEF MutationSound, IInv, OneJoiner, Job
<1>3. CASE MarkJoinSideEffectStarted(v)
  <2>1. IsJoin(Job(v)) /\ UNCHANGED task
    BY <1>3, BusyFacts DEF MarkJoinSideEffectStarted, At
  <2>2. Mutating(w)
    BY <1>1, <2>1 DEF Mutating, HoldsLease, Job
  <2> QED BY <1>2, <1>3, <2>1, <2>2
          DEF MarkJoinSideEffectStarted, MutationFree, HoldsWorkspace
<1>4. CASE FinishJoin(v)
  <2> DEFINE x == Job(v)
             y == <<"auto", TargetOf(v)>>
             ended == [task EXCEPT ![x] = Ended(@, "succeeded")]
  <2>1. /\ IsJoin(x) /\ x \in Tasks /\ y \in Tasks /\ ~IsJoin(y)
    BY <1>4, BusyFacts DEF FinishJoin, At, Tasks, Kinds, IsJoin
  <2>2. Mutating(w) => SameHolder
    <3>1. op \in OpRow
      BY DEF IInv, TypeOK
    <3> QED BY <1>2, <1>4, <2>1, <3>1 DEF FinishJoin, HoldsWorkspace, SameHolder, OpRow
  <2>3. SameLease(Job(w))
    <3>1. IsJoin(Job(w)) /\ Job(w) \in Tasks /\ Job(w) # x
      BY <1>1, <2>1, BusyFacts DEF IInv, OneJoiner, Mutating, At, Job
    <3>2. ended \in [Tasks -> TaskRow] /\ ended[Job(w)] = task[Job(w)]
      BY <2>1, <3>1, EndedFacts DEF IInv
    <3>3. task' = ended \/ task' = Inserted(ended, y)
      BY <1>4 DEF FinishJoin
    <3>4. Job(w) # y
      BY <2>1, <3>1
    <3>5. task'[Job(w)] = task[Job(w)]
      <4> HIDE DEF ended, x, y
      <4>1. Inserted(ended, y)[Job(w)] = ended[Job(w)]
        BY <2>1, <3>1, <3>2, <3>4, InsertedFacts
      <4> QED BY <3>2, <3>3, <4>1
    <3> QED BY <3>5 DEF SameLease
  <2> QED BY <1>1, <2>2, <2>3, HolderKept
<1>5. CASE FinishJoinReconciliation(v)
  <2>1. Job(v) \in Tasks /\ ~IsJoin(Job(v))
    BY <1>5, BusyFacts DEF FinishJoinReconciliation, At, WorkSound, Job
  <2>2. SameHolder
    BY <1>5 DEF FinishJoinReconciliation, SameHolder, IInv, TypeOK, OpRow
  <2>3. IsJoin(Job(w)) /\ Job(w) \in Tasks
    BY <1>1, BusyFacts DEF Mutating, At, Job
  <2>4. task'[Job(w)] = task[Job(w)]
    BY <1>5, <2>1, <2>3 DEF FinishJoinReconciliation, IInv, TypeOK
  <2> QED BY <1>1, <2>2, <2>4, HolderKept DEF SameLease
<1>6. CASE UNCHANGED <<op, task>>
  BY <1>1, <1>6, HolderKept DEF SameHolder, SameLease
<1> QED BY <1>3, <1>4, <1>5, <1>6
        DEF JoinStep, ReconcileStep, Abandon, PrepareFails, RecordJoinPreflight,
            AdmitJoin, SendPost, RequestUncertain, RequestRefused, RequestAccepted,
            AdmitAccept, AcceptUncertain, AcceptSucceeds, VerifyMembership,
            ObserveMembership, LocalStep

LEMMA TickMutation ==
  ASSUME IInv, MutationSound, NEW v \in Workers, NEW w \in Workers,
         Mutating(w)', TickStep(v)
  PROVE  HoldsWorkspace(w)'
<1>1. worker \in [Workers -> Work] /\ op \in OpRow /\ task \in [Tasks -> TaskRow]
  BY DEF IInv, TypeOK
<1>2. CASE \E t \in Targets : RecoverExpiredJoin(v, t)
  <2>1. PICK t \in Targets : RecoverExpiredJoin(v, t)
    BY <1>2
  <2> DEFINE x == Join(t)
             y == <<"recovery", t>>
             ended == [task EXCEPT ![x] = Ended(@, "interrupted")]
  <2>2. /\ task[x].lease = "expired" /\ task' = Inserted(ended, y)
        /\ op' = [(IF op.holder = x THEN Cleared(op) ELSE op)
                    EXCEPT !.status = OperationStatus(WithStatus(t, "unknown"))]
        /\ worker' = worker
    BY <2>1 DEF RecoverExpiredJoin, RecoveredTasks, Join
  <2>3. /\ x \in Tasks /\ y \in Tasks /\ ~IsJoin(y) /\ x # y
        /\ IsJoin(Job(w)) /\ Job(w) \in Tasks
    BY <2>2, BusyFacts, KindFacts DEF Mutating, At, Job, IsJoin, Tasks, Kinds
  <2>4. /\ ended \in [Tasks -> TaskRow] /\ ended[x].status = "interrupted"
        /\ \A z \in Tasks : z # x => ended[z] = task[z]
    BY <2>3, EndedFacts DEF IInv
  <2>5. task'[Job(w)] = ended[Job(w)]
    <3> HIDE DEF ended, x, y
    <3> QED BY <2>2, <2>3, <2>4, InsertedFacts
  <2>6. Job(w) # x /\ SameLease(Job(w))
    BY <2>2, <2>3, <2>4, <2>5 DEF SameLease, Mutating, HoldsLease, Job
  <2>7. Mutating(w) => SameHolder
    BY <1>1, <2>2, <2>6 DEF MutationSound, HoldsWorkspace, SameHolder, OpRow
  <2> QED BY <2>2, <2>6, <2>7, HolderKept
<1>3. CASE \E x \in Tasks : SettleExhausted(v, x)
  <2>1. PICK x \in Tasks : SettleExhausted(v, x)
    BY <1>3
  <2>2. SameHolder /\ worker' = worker
    BY <1>1, <2>1 DEF SettleExhausted, SameHolder, OpRow
  <2>3. /\ task'[x].status = "interrupted"
        /\ \A z \in Tasks : z # x => task'[z] = task[z]
    BY <2>1, EndedFacts DEF SettleExhausted, IInv
  <2>4. Job(w) \in Tasks /\ Job(w) # x
    BY <2>2, <2>3, BusyFacts DEF Mutating, HoldsLease, At, Job
  <2> QED BY <2>2, <2>3, <2>4, HolderKept DEF SameLease
<1>4. CASE \E x \in Tasks : ClaimTask(v, x) \/ ClaimRejected(v, x)
  <2>1. PICK x \in Tasks : ClaimTask(v, x) \/ ClaimRejected(v, x)
    BY <1>4
  <2>2. /\ Claimable(x) /\ UNCHANGED op
        /\ \A z \in Tasks : z # x => task'[z] = task[z]
    BY <1>1, <2>1 DEF ClaimTask, ClaimRejected, Claimed
  <2>3. /\ worker'[v].pc \in {"begin", "reconciled", "finish"}
        /\ \A z \in Workers \ {v} : worker'[z] = worker[z]
    BY <1>1, <2>1 DEF ClaimTask, ClaimRejected, ClaimedWork
  <2>4. worker'[w] = worker[w]
    BY <2>3 DEF Mutating
  <2>5. IsJoin(Job(w)) /\ Job(w) \in Tasks
        /\ task[Job(w)].status \in {"running", "interrupted"}
    <3>1. ~At(w, "idle") /\ worker[w].pc \notin {"begin", "reconciled"}
      BY <2>4 DEF Mutating, At
    <3> QED BY <3>1, BusyFacts DEF JoinSound, Job
  <2>6. Job(w) # x
    <3>1. TaskSound(Job(w)[2]) /\ Job(w) = Join(Job(w)[2])
      BY <2>5, KindFacts DEF IInv
    <3> QED BY <2>2, <2>5, <3>1 DEF Claimable
  <2> QED BY <2>2, <2>4, <2>5, <2>6, HolderKept DEF SameHolder, SameLease
<1> QED BY <1>2, <1>3, <1>4 DEF TickStep

LEMMA MutationPreserved ==
  IInv /\ MutationSound /\ [Next]_vars => MutationSound'
<1> SUFFICES ASSUME IInv, MutationSound, [Next]_vars, NEW w \in Workers, Mutating(w)'
             PROVE  HoldsWorkspace(w)'
  BY DEF MutationSound
<1>1. CASE UNCHANGED <<op, task, worker>>
  BY <1>1, HolderKept DEF SameHolder, SameLease
<1>2. CASE CreateJoinOperation
           \/ \E k \in OwnerKeys, t \in Targets : EnqueueJoinReconciliation(k, t)
  <2>0. worker' = worker
    BY <1>2 DEF CreateJoinOperation, EnqueueJoinReconciliation
  <2>1. IsJoin(Job(w)) /\ Job(w) \in Tasks
    BY <2>0, BusyFacts DEF Mutating, At, Job
  <2>2. CASE CreateJoinOperation
    <3>1. task'[Job(w)].status = "queued"
      BY <2>1, <2>2 DEF CreateJoinOperation, NewTask
    <3> QED BY <2>0, <3>1 DEF Mutating, HoldsLease, Job
  <2>3. ASSUME NEW k \in OwnerKeys, NEW t \in Targets, EnqueueJoinReconciliation(k, t)
        PROVE  HoldsWorkspace(w)'
    <3>1. <<k, t>> \in Tasks /\ ~IsJoin(<<k, t>>)
      BY KeyAssumption DEF Tasks, Kinds, IsJoin
    <3>2. task'[Job(w)] = task[Job(w)]
      BY <2>1, <2>3, <3>1, InsertedFacts DEF EnqueueJoinReconciliation, IInv, TypeOK
    <3> QED BY <2>0, <2>3, <3>2, HolderKept
            DEF EnqueueJoinReconciliation, SameHolder, SameLease
  <2> QED BY <1>2, <2>2, <2>3
<1>3. ASSUME NEW v \in Workers, TickStep(v) PROVE HoldsWorkspace(w)'
  BY <1>3, TickMutation
<1>4. ASSUME NEW v \in Workers, JoinStep(v) \/ ReconcileStep(v) \/ Abandon(v)
      PROVE  HoldsWorkspace(w)'
  BY <1>4, OwnMutation, OthersMutation
<1>5. ASSUME NEW x \in Tasks, LeaseExpires(x) PROVE HoldsWorkspace(w)'
  <2>1. task' = [task EXCEPT ![x] = [task[x] EXCEPT !.lease = "expired"]]
        /\ UNCHANGED <<op, worker>> /\ task \in [Tasks -> TaskRow]
    BY <1>5 DEF LeaseExpires, IInv, TypeOK
  <2>2. Job(w) \in Tasks
    BY <2>1, BusyFacts DEF Mutating, At
  <2>3. \A y \in Tasks : SameLease(y)
    BY <2>1 DEF SameLease, TaskRow
  <2> QED BY <2>1, <2>2, <2>3, HolderKept DEF SameHolder
<1>6. CASE MutationLeaseExpires
  <2>1. UNCHANGED <<task, worker>>
    BY <1>6 DEF MutationLeaseExpires
  <2>2. Mutating(w)
    BY <2>1 DEF Mutating, HoldsLease, Job
  <2> QED BY <1>6, <2>2 DEF MutationLeaseExpires, MutationSound, HoldsWorkspace,
                            Mutating, HoldsLease
<1>7. CASE \E p \in Stages \X Targets : PlatformApplies(p) \/ PlatformDrops(p)
  BY <1>1, <1>7 DEF PlatformApplies, PlatformDrops
<1> QED
  BY <1>1, <1>2, <1>3, <1>4, <1>5, <1>6, <1>7 DEF Next, RunOnce, LeaseLost, vars

\* Between its marker and its outcome a join whose lease is valid has the
\* Workspace for itself (MarkJoinSideEffectStarted, join.go:167-169).
THEOREM OneMutatorAtATime == Spec => []OneMutator
<1>1. Init => MutationSound
  BY DEF Init, Idle, MutationSound, Mutating
<1>2. Spec => []MutationSound
  BY <1>1, MutationPreserved, JoinSoundness, PTL DEF Spec
<1>3. IInv /\ MutationSound => OneMutator
  BY MutatingFacts DEF IInv, MutationSound, HoldsWorkspace, OneMutator, OneJoiner, Job
<1> QED BY <1>2, <1>3, JoinSoundness, PTL

-----------------------------------------------------------------------------
(* Without Owner refreshes: one task of a target at a time *)

Open(x) == task[x].status \in {"queued", "running", "retry_wait"}

Answered(t) == target[t].status \in {"succeeded", "failed"}

\* A reconciliation is only opened when the join is over.
OneOpen == \A x, y \in Tasks : x[2] = y[2] /\ Open(x) /\ Open(y) => x = y

AnsweredIsDone == \A x \in Tasks : Answered(x[2]) => ~Open(x)

\* Only a join without an answer asks for a reconciliation.
AskedSound ==
  \A w \in Workers : worker[w].pc = "finish" /\ worker[w].reconcile =>
    worker[w].outcome \in {"blocked", "unknown"}

SoleInv == IInv /\ OneOpen /\ AnsweredIsDone /\ AskedSound

LEMMA NothingOpens ==
  ASSUME OneOpen, AnsweredIsDone,
         \A x \in Tasks : Open(x)' => Open(x) /\ (Answered(x[2])' => Answered(x[2]))
  PROVE  OneOpen' /\ AnsweredIsDone'
BY DEF OneOpen, AnsweredIsDone

LEMMA OneOpens ==
  ASSUME OneOpen, AnsweredIsDone, NEW y \in Tasks, ~Answered(y[2])',
         \A x \in Tasks : x # y /\ Open(x)' =>
           x[2] # y[2] /\ Open(x) /\ (Answered(x[2])' => Answered(x[2]))
  PROVE  OneOpen' /\ AnsweredIsDone'
BY DEF OneOpen, AnsweredIsDone

\* The join of a target is over before any other task of it exists.
LEMMA JoinIsFirst ==
  ASSUME IInv, NEW t \in Targets, Open(Join(t))
  PROVE  /\ ~Answered(t)
         /\ \A x \in Tasks : x[2] = t /\ x # Join(t) => task[x].status = "none"
<1>1. TaskSound(t)
  BY DEF IInv
<1>2. /\ target[t].status \in {"queued", "running"}
      /\ \A k \in Kinds \ {"join"} : task[<<k, t>>].status = "none"
  BY <1>1 DEF TaskSound, Open
<1>3. \A x \in Tasks : x[2] = t /\ x # Join(t) => x[1] \in Kinds \ {"join"} /\ x = <<x[1], t>>
  BY KindFacts DEF Join
<1> QED BY <1>2, <1>3 DEF Answered

LEMMA AskedKept ==
  ASSUME IInv, AskedSound, NEW w \in Workers,
         TickStep(w) \/ JoinStep(w) \/ ReconcileStep(w) \/ Abandon(w)
  PROVE  AskedSound'
<1>1. worker \in [Workers -> Work]
  BY DEF IInv, TypeOK
<1>2. SUFFICES ASSUME worker'[w].pc = "finish", worker'[w].reconcile, worker' # worker
               PROVE  worker'[w].outcome \in {"blocked", "unknown"}
  <2>1. \A v \in Workers \ {w} : worker'[v] = worker[v]
    BY <1>1 DEF TickStep, RecoverExpiredJoin, SettleExhausted, ClaimTask, ClaimRejected,
       JoinStep, PrepareFails, RecordJoinPreflight, AdmitJoin, MarkJoinSideEffectStarted,
       SendPost, RequestUncertain, RequestRefused, RequestAccepted, AdmitAccept,
       AcceptUncertain, AcceptSucceeds, VerifyMembership, FinishJoin, Conclude, Goto,
       ReconcileStep, ObserveMembership, FinishJoinReconciliation, Abandon, LocalStep
  <2> QED BY <1>2, <2>1 DEF AskedSound
<1>3. ASSUME NEW status, NEW stage, Conclude(w, status, stage)
      PROVE  worker'[w].outcome \in {"blocked", "unknown"}
  <2> DEFINE asked == NeedsReconciliation(status, stage)
  <2>1. worker' = [worker EXCEPT ![w] =
          [worker[w] EXCEPT !.pc = "finish", !.outcome = status, !.reconcile = asked]]
    BY <1>3 DEF Conclude
  <2>2. worker'[w].outcome = status /\ worker'[w].reconcile = asked
    <3> HIDE DEF asked
    <3> QED BY <1>1, <2>1 DEF Work
  <2> QED BY <1>2, <2>2 DEF NeedsReconciliation
<1>4. ASSUME NEW pc, Goto(w, pc), pc # "finish" PROVE FALSE
  BY <1>1, <1>2, <1>4 DEF Goto, Work
<1>5. CASE TickStep(w)
  <2>1. PICK x \in Tasks : ClaimTask(w, x) \/ ClaimRejected(w, x)
    BY <1>2, <1>5 DEF TickStep, RecoverExpiredJoin, SettleExhausted
  <2> QED BY <1>1, <1>2, <2>1 DEF ClaimTask, ClaimRejected, ClaimedWork
<1>6. CASE JoinStep(w)
  <2>1. CASE FinishJoin(w)
    BY <1>1, <1>2, <2>1 DEF FinishJoin, Idle
  <2>2. CASE MarkJoinSideEffectStarted(w) \/ SendPost(w)
    BY <1>4, <2>2 DEF MarkJoinSideEffectStarted, SendPost
  <2>3. CASE PrepareFails(w) \/ RecordJoinPreflight(w) \/ AdmitJoin(w)
    BY <1>3, <1>4, <2>3 DEF PrepareFails, RecordJoinPreflight, AdmitJoin
  <2>4. CASE RequestUncertain(w) \/ RequestRefused(w) \/ RequestAccepted(w)
    BY <1>3, <1>4, <2>4 DEF RequestUncertain, RequestRefused, RequestAccepted
  <2>5. CASE AdmitAccept(w) \/ AcceptUncertain(w) \/ AcceptSucceeds(w)
    BY <1>3, <1>4, <2>5 DEF AdmitAccept, AcceptUncertain, AcceptSucceeds
  <2>6. CASE VerifyMembership(w)
    BY <1>3, <2>6 DEF VerifyMembership
  <2> QED BY <1>6, <2>1, <2>2, <2>3, <2>4, <2>5, <2>6 DEF JoinStep
<1>7. CASE ReconcileStep(w)
  <2>1. CASE ObserveMembership(w)
    <3>1. PICK seen : worker' =
            [worker EXCEPT ![w] = [@ EXCEPT !.pc = "reconciled", !.outcome = seen]]
      BY <2>1 DEF ObserveMembership
    <3> QED BY <1>1, <1>2, <3>1 DEF Work
  <2>2. CASE FinishJoinReconciliation(w)
    BY <1>1, <1>2, <2>2 DEF FinishJoinReconciliation, Idle
  <2> QED BY <1>7, <2>1, <2>2 DEF ReconcileStep
<1>8. CASE Abandon(w)
  BY <1>1, <1>2, <1>8 DEF Abandon, Idle
<1> QED BY <1>5, <1>6, <1>7, <1>8

\* What each step that writes tasks or targets leaves open.
LEMMA TickSole ==
  ASSUME OwnerKeys = {}, SoleInv, NEW w \in Workers, TickStep(w)
  PROVE  OneOpen' /\ AnsweredIsDone'
<1>1. /\ IInv /\ TypeOK /\ OneOpen /\ AnsweredIsDone
      /\ task \in [Tasks -> TaskRow] /\ target \in [Targets -> TargetRow]
      /\ \A x \in Tasks : x[2] \in Targets
  BY KindFacts DEF SoleInv, IInv, TypeOK
<1>2. ASSUME NEW t \in Targets, RecoverExpiredJoin(w, t) PROVE OneOpen' /\ AnsweredIsDone'
  <2> DEFINE y == <<"recovery", t>>
             ended == [task EXCEPT ![Join(t)] = Ended(@, "interrupted")]
  <2>1. /\ task' = Inserted(ended, y) /\ target' = WithStatus(t, "unknown")
        /\ Open(Join(t))
    BY <1>2 DEF RecoverExpiredJoin, RecoveredTasks, Join, Open
  <2>2. y \in Tasks /\ y[2] = t /\ y # Join(t) /\ Join(t) \in Tasks /\ Join(t)[2] = t
    BY KindFacts DEF Tasks, Kinds, Join
  <2>3. /\ ended \in [Tasks -> TaskRow] /\ ended[Join(t)].status = "interrupted"
        /\ \A x \in Tasks : x # Join(t) => ended[x] = task[x]
    BY <1>1, <2>2, EndedFacts
  <2> HIDE DEF ended, y
  <2>4. /\ \A x \in Tasks : x # y /\ x # Join(t) => task'[x] = task[x]
        /\ task'[Join(t)].status = "interrupted"
    BY <2>1, <2>2, <2>3, InsertedFacts
  <2>5. target'[t].status = "unknown" /\ \A u \in Targets \ {t} : target'[u] = target[u]
    BY <1>1, <2>1, TargetFacts DEF Settled
  <2>6. ASSUME NEW x \in Tasks, x # y, Open(x)'
        PROVE  x[2] # t /\ Open(x) /\ (Answered(x[2])' => Answered(x[2]))
    <3>1. x # Join(t) /\ Open(x)
      BY <2>4, <2>6 DEF Open
    <3>2. x[2] # t
      BY <1>1, <2>1, <3>1, JoinIsFirst DEF Open
    <3> QED BY <1>1, <2>5, <3>1, <3>2 DEF Answered
  <2> QED BY <1>1, <2>2, <2>5, <2>6, OneOpens DEF Answered
<1>3. ASSUME NEW x \in Tasks, SettleExhausted(w, x) PROVE OneOpen' /\ AnsweredIsDone'
  <2>1. /\ task' = [task EXCEPT ![x] = Ended(@, "interrupted")]
        /\ target' = WithStatus(x[2], "unknown")
    BY <1>3 DEF SettleExhausted
  <2>2. /\ task'[x].status = "interrupted"
        /\ \A y \in Tasks : y # x => task'[y] = task[y]
    BY <1>1, <2>1, EndedFacts
  <2>3. target'[x[2]].status = "unknown"
        /\ \A u \in Targets \ {x[2]} : target'[u] = target[u]
    BY <1>1, <2>1, TargetFacts DEF Settled
  <2> QED BY <1>1, <2>2, <2>3, NothingOpens DEF Open, Answered
<1>4. ASSUME NEW x \in Tasks, ClaimTask(w, x) \/ ClaimRejected(w, x)
      PROVE  OneOpen' /\ AnsweredIsDone'
  <2>1. target' = target /\ task' = Claimed(x) /\ Open(x)
    BY <1>4 DEF ClaimTask, ClaimRejected, Claimable, Open
  <2>2. \A y \in Tasks : y # x => task'[y] = task[y]
    BY <1>1, <2>1 DEF Claimed
  <2> QED BY <1>1, <2>1, <2>2, NothingOpens DEF Open, Answered
<1> QED BY <1>2, <1>3, <1>4 DEF TickStep

LEMMA FinishSole ==
  ASSUME OwnerKeys = {}, SoleInv, NEW w \in Workers, FinishJoin(w)
  PROVE  OneOpen' /\ AnsweredIsDone'
<1> DEFINE t == TargetOf(w)
           y == <<"auto", t>>
           ended == [task EXCEPT ![Job(w)] = Ended(@, "succeeded")]
<1>1. /\ IInv /\ TypeOK /\ OneOpen /\ AnsweredIsDone
      /\ \A x \in Tasks : x[2] \in Targets
  BY KindFacts DEF SoleInv, IInv, TypeOK
<1>2. /\ At(w, "finish") /\ target' = WithStatus(t, worker[w].outcome)
      /\ task[Job(w)].status = "running"
      /\ task' = IF worker[w].reconcile THEN Inserted(ended, y) ELSE ended
  BY DEF FinishJoin, HoldsLease
<1>3. /\ t \in Targets /\ Job(w) = Join(t) /\ Job(w) \in Tasks /\ Job(w)[2] = t
      /\ y \in Tasks /\ y[2] = t /\ y # Job(w)
      /\ worker[w].outcome \in Settled
  <2>1. worker[w].pc = "finish" /\ ~At(w, "idle")
    BY <1>2 DEF At
  <2>2. IsJoin(Job(w)) /\ t \in Targets /\ JoinSound(worker[w]) /\ Job(w) = Join(t)
    BY <1>1, <2>1, BusyFacts
  <2> QED BY <2>1, <2>2, KindFacts DEF JoinSound, Tasks, Kinds, Join
<1> HIDE DEF y, t
<1>4. /\ ended \in [Tasks -> TaskRow] /\ ended[Job(w)].status = "succeeded"
      /\ \A x \in Tasks : x # Job(w) => ended[x] = task[x]
  BY <1>1, <1>3, EndedFacts
<1>5. /\ target'[t].status = worker[w].outcome
      /\ \A u \in Targets \ {t} : target'[u] = target[u]
  <2>1. worker[w].outcome \in {"queued", "running"} \cup Settled
    BY <1>3
  <2>2. /\ WithStatus(t, worker[w].outcome)[t].status = worker[w].outcome
        /\ \A u \in Targets : u # t => WithStatus(t, worker[w].outcome)[u] = target[u]
    <3> DEFINE outcome == worker[w].outcome
    <3>1. TypeOK /\ t \in Targets /\ outcome \in {"queued", "running"} \cup Settled
      BY <1>1, <1>3, <2>1
    <3> HIDE DEF outcome
    <3>2. /\ WithStatus(t, outcome)[t].status = outcome
          /\ \A u \in Targets : u # t => WithStatus(t, outcome)[u] = target[u]
      BY <3>1, TargetFacts
    <3> QED BY <3>2 DEF outcome
  <2> QED BY <1>2, <2>2
<1> HIDE DEF ended
<1>6. \A x \in Tasks : x[2] = t /\ x # Job(w) => ~Open(x)
  BY <1>1, <1>2, <1>3, JoinIsFirst DEF Open
<1>7. CASE worker[w].reconcile
  <2>1. /\ task'[Job(w)].status = "succeeded"
        /\ \A x \in Tasks : x # y /\ x # Job(w) => task'[x] = task[x]
    BY <1>2, <1>3, <1>4, <1>7, InsertedFacts
  <2>2. target'[t].status \in {"blocked", "unknown"}
    BY <1>2, <1>5, <1>7 DEF SoleInv, AskedSound, At
  <2> QED BY <1>1, <1>3, <1>5, <1>6, <2>1, <2>2, OneOpens DEF Open, Answered
<1>8. CASE ~worker[w].reconcile
  <2>1. \A x \in Tasks : Open(x)' => Open(x) /\ x[2] # t
    BY <1>2, <1>3, <1>4, <1>6, <1>8 DEF Open
  <2> QED BY <1>1, <1>5, <2>1, NothingOpens DEF Answered
<1> QED BY <1>7, <1>8

LEMMA ReconcileSole ==
  ASSUME SoleInv, NEW w \in Workers, FinishJoinReconciliation(w)
  PROVE  OneOpen' /\ AnsweredIsDone'
<1> DEFINE t == TargetOf(w)
           status == IF worker[w].outcome = "present" THEN "succeeded" ELSE "unknown"
<1>1. /\ IInv /\ TypeOK /\ OneOpen /\ AnsweredIsDone
      /\ \A x \in Tasks : x[2] \in Targets
  BY KindFacts DEF SoleInv, IInv, TypeOK
<1>2. /\ ~At(w, "idle") /\ target' = WithStatus(t, status)
      /\ Open(Job(w))
      /\ task' = [task EXCEPT ![Job(w)] = Ended(@, ReconcileStatus(w))]
  BY DEF FinishJoinReconciliation, HoldsLease, Open, At
<1>3. t \in Targets /\ Job(w) \in Tasks /\ Job(w)[2] = t /\ status \in Settled
  BY <1>1, <1>2, BusyFacts DEF TargetOf, Settled
<1>4. ReconcileStatus(w) \in {"succeeded", "failed", "retry_wait"}
      /\ (status = "succeeded" => ReconcileStatus(w) = "succeeded")
  BY DEF ReconcileStatus
<1>5. /\ task'[Job(w)].status = ReconcileStatus(w)
      /\ \A x \in Tasks : x # Job(w) => task'[x] = task[x]
  BY <1>1, <1>2, <1>3, <1>4, EndedFacts
<1>6. /\ target'[t].status = status
      /\ \A u \in Targets \ {t} : target'[u] = target[u]
  BY <1>1, <1>2, <1>3, TargetFacts
<1> HIDE DEF t
<1>7. ASSUME NEW x \in Tasks, Open(x)'
      PROVE  Open(x) /\ (Answered(x[2])' => Answered(x[2]))
  <2>1. Open(x)
    BY <1>2, <1>5, <1>7 DEF Open
  <2>2. CASE x[2] = t
    <3>1. x = Job(w)
      BY <1>1, <1>2, <1>3, <2>1, <2>2 DEF OneOpen
    <3> QED BY <1>4, <1>5, <1>6, <1>7, <2>1, <2>2, <3>1 DEF Open, Answered
  <2> QED BY <1>1, <1>6, <2>1, <2>2 DEF Answered
<1> QED BY <1>1, <1>7, NothingOpens

\* Marker and preflight are of a join that runs.
LEMMA RunningSole ==
  ASSUME SoleInv, NEW w \in Workers, RecordJoinPreflight(w) \/ MarkJoinSideEffectStarted(w)
  PROVE  OneOpen' /\ AnsweredIsDone'
<1>1. /\ OneOpen /\ AnsweredIsDone /\ target \in [Targets -> TargetRow]
      /\ \A x \in Tasks : x[2] \in Targets
  BY KindFacts DEF SoleInv, IInv, TypeOK
<1>2. task' = task
  BY DEF RecordJoinPreflight, MarkJoinSideEffectStarted
<1>3. \A t \in Targets : target'[t].status \in {target[t].status, "running"}
  BY <1>1 DEF RecordJoinPreflight, MarkJoinSideEffectStarted, WithStatus, TargetRow
<1> QED BY <1>1, <1>2, <1>3, NothingOpens DEF Open, Answered

LEMMA SoleKept ==
  ASSUME OwnerKeys = {}, SoleInv, [Next]_vars
  PROVE  SoleInv'
<1>1. IInv'
  BY NextPreserves DEF SoleInv
<1>2. /\ IInv /\ OneOpen /\ AnsweredIsDone /\ AskedSound /\ task \in [Tasks -> TaskRow]
  BY DEF SoleInv, IInv, TypeOK
<1>3. ASSUME UNCHANGED target, \A x \in Tasks : Open(x)' => Open(x)
      PROVE  OneOpen' /\ AnsweredIsDone'
  BY <1>2, <1>3, NothingOpens DEF Answered
<1>4. CASE CreateJoinOperation
  <2>1. /\ op.status = "none" /\ UNCHANGED <<target, worker>>
        /\ \A x \in Tasks : ~IsJoin(x) => task'[x] = task[x]
    BY <1>2, <1>4 DEF CreateJoinOperation
  <2>2. \A x \in Tasks : task[x].status = "none"
    BY <1>2, <2>1 DEF IInv, OpSound
  <2>3. \A x \in Tasks : Open(x)' => x = Join(x[2]) /\ x[2] \in Targets
    BY <2>1, <2>2, KindFacts DEF Open
  <2>4. \A t \in Targets : ~Answered(t)
    <3>1. \A t \in Targets : TaskSound(t) /\ task[Join(t)].status = "none"
      BY <1>2, <2>2, KindFacts DEF IInv
    <3> QED BY <3>1 DEF TaskSound, Answered
  <2> QED BY <1>1, <1>2, <2>1, <2>3, <2>4
          DEF SoleInv, OneOpen, AnsweredIsDone, AskedSound, Answered
<1>5. ASSUME NEW w \in Workers, RunOnce(w) \/ Abandon(w) PROVE SoleInv'
  <2>1. TickStep(w) \/ JoinStep(w) \/ ReconcileStep(w) \/ Abandon(w)
    BY <1>5 DEF RunOnce, LeaseLost
  <2>2. AskedSound'
    BY <1>2, <2>1, AskedKept
  <2>3. OneOpen' /\ AnsweredIsDone'
    <3>1. CASE UNCHANGED <<target, task>>
      BY <1>3, <3>1 DEF Open
    <3> QED BY <2>1, <3>1, TickSole, FinishSole, ReconcileSole, RunningSole
            DEF JoinStep, PrepareFails, AdmitJoin, SendPost, RequestUncertain, RequestRefused,
                RequestAccepted, AdmitAccept, AcceptUncertain, AcceptSucceeds,
                VerifyMembership, ReconcileStep, ObserveMembership, Abandon, LocalStep
  <2> QED BY <1>1, <2>2, <2>3 DEF SoleInv
<1>6. CASE \E x \in Tasks : LeaseExpires(x)
  <2>1. UNCHANGED <<target, worker>> /\ \A x \in Tasks : Open(x)' => Open(x)
    BY <1>2, <1>6 DEF LeaseExpires, Open, TaskRow
  <2> QED BY <1>1, <1>2, <1>3, <2>1 DEF SoleInv, AskedSound
<1>7. CASE \/ MutationLeaseExpires \/ UNCHANGED vars
           \/ \E p \in Stages \X Targets : PlatformApplies(p) \/ PlatformDrops(p)
  <2>1. UNCHANGED <<target, worker, task>>
    BY <1>7 DEF MutationLeaseExpires, PlatformApplies, PlatformDrops, vars
  <2> QED BY <1>1, <1>2, <1>3, <2>1 DEF SoleInv, AskedSound, Open
<1> QED BY <1>4, <1>5, <1>6, <1>7 DEF Next

\* Without Owner refreshes a target has one unfinished task at most, and none once
\* it is answered.
THEOREM SoleTaskSound ==
  ASSUME OwnerKeys = {}
  PROVE  Spec => []SoleInv
<1>1. Init => SoleInv
  <2> SUFFICES ASSUME Init PROVE SoleInv
    OBVIOUS
  <2>1. \A x \in Tasks : ~Open(x)
    BY DEF Init, Absent, NewTask, Open
  <2>2. \A w \in Workers : worker[w].pc = "idle"
    BY DEF Init, Idle
  <2> QED BY <2>1, <2>2, InitSound DEF SoleInv, OneOpen, AnsweredIsDone, AskedSound
<1>2. SoleInv /\ [Next]_vars => SoleInv'
  BY SoleKept
<1> QED BY <1>1, <1>2, PTL DEF Spec

\* Without Owner refreshes no late commit, recovery or reconciliation takes a
\* success or a failure of a target back.
THEOREM AnswersStand ==
  ASSUME OwnerKeys = {}
  PROVE  Spec => SettledStays
<1>1. ASSUME SoleInv, [Next]_vars, NEW t \in Targets,
             target[t].status \in {"succeeded", "failed"}
      PROVE  target'[t].status = target[t].status
  <2>1. /\ IInv /\ TypeOK /\ target \in [Targets -> TargetRow]
        /\ \A x \in Tasks : x[2] = t => ~Open(x)
    BY <1>1 DEF SoleInv, IInv, TypeOK, AnsweredIsDone, Answered
  <2>2. ASSUME NEW x \in Tasks, task[x].status = "running", NEW status, NEW row,
               \/ status \in {"queued", "running"} \cup Settled /\ target' = WithStatus(x[2], status)
               \/ target' = [target EXCEPT ![x[2]] = row]
        PROVE  target'[t] = target[t]
    BY <2>1, <2>2 DEF WithStatus, Open
  <2>3. ASSUME NEW w \in Workers, RunOnce(w) \/ Abandon(w), target' # target
        PROVE  target'[t] = target[t]
    <3>1. CASE TickStep(w)
      <4>1. \A u \in Targets : Join(u) \in Tasks /\ Join(u)[2] = u
        BY KindFacts
      <4>2. ASSUME NEW u \in Targets, RecoverExpiredJoin(w, u) PROVE target'[t] = target[t]
        BY <2>2, <4>1, <4>2 DEF RecoverExpiredJoin, Join, Settled
      <4>3. ASSUME NEW x \in Tasks, SettleExhausted(w, x) PROVE target'[t] = target[t]
        BY <2>2, <4>3 DEF SettleExhausted, Settled
      <4> QED BY <2>3, <3>1, <4>2, <4>3 DEF TickStep, ClaimTask, ClaimRejected
    <3>2. CASE \/ RecordJoinPreflight(w) \/ MarkJoinSideEffectStarted(w)
               \/ FinishJoin(w) \/ FinishJoinReconciliation(w)
      <4>1. /\ Job(w) \in Tasks /\ task[Job(w)].status = "running"
            /\ \E status : \/ target' = WithStatus(TargetOf(w), status)
                           \/ target' = [target EXCEPT ![TargetOf(w)] = status]
        <5>1. ~At(w, "idle") /\ task[Job(w)].status = "running"
          BY <3>2 DEF RecordJoinPreflight, MarkJoinSideEffectStarted, FinishJoin,
                      FinishJoinReconciliation, HoldsLease, At
        <5> QED BY <2>1, <3>2, <5>1, BusyFacts
                DEF RecordJoinPreflight, MarkJoinSideEffectStarted, FinishJoin,
                    FinishJoinReconciliation
      <4> QED BY <2>1, <4>1 DEF WithStatus, Open, TargetOf
    <3> QED BY <2>3, <3>1, <3>2
            DEF RunOnce, LeaseLost, JoinStep, PrepareFails, AdmitJoin, SendPost,
                RequestUncertain, RequestRefused, RequestAccepted, AdmitAccept,
                AcceptUncertain, AcceptSucceeds, VerifyMembership, ReconcileStep,
                ObserveMembership, Abandon, LocalStep
  <2>4. ASSUME NEW x \in Tasks, LeaseExpires(x) PROVE target' = target
    BY <2>4 DEF LeaseExpires
  <2> QED BY <1>1, <2>3, <2>4
          DEF Next, vars, CreateJoinOperation, EnqueueJoinReconciliation,
              MutationLeaseExpires, PlatformApplies, PlatformDrops
<1>2. SoleInv /\ [Next]_vars =>
        [\A t \in Targets : target[t].status \in {"succeeded", "failed"} =>
           target'[t].status = target[t].status]_vars
  BY <1>1
<1> QED BY <1>2, SoleTaskSound, PTL DEF Spec, SettledStays
=============================================================================
