--------------------------- MODULE DeliveryProofs ---------------------------
(***************************************************************************)
(* Proofs about Delivery, for any number of workers, rounds, checks,       *)
(* requests, authorizations, attempts and generations.                     *)
(*                                                                         *)
(* The argument: a generation task is over for good once there is a        *)
(* version (GenerateOver), so from then on only a reclaim replaces it, and *)
(* a reclaim moves asset, order and tokens together (ReclaimsHaveOrders).  *)
(* The customer who read before a write is covered by what the card's lock *)
(* and the tokens still say (CustomerSound).                               *)
(***************************************************************************)
EXTENDS Delivery, TLAPS

\* What a worker knows by its position: a reclaim past its target has an order.
WorkSound(r) ==
  /\ r.pc # "idle" => r.task \in Tasks
  /\ r.pc \notin {"idle", "rejected", "resolve"} /\ r.task \in Reclaims => r.version # 0

ReclaimsHaveOrders == \A w \in Workers : WorkSound(worker[w])

\* The generation task never runs again once there is a version.
GenerateOver ==
  asset.version # 0 => \A x \in Generate : task[x].status \notin Unfinished

\* What a customer read before its write is still so, or its token is gone.
CustomerSound ==
  /\ customer.pc = "restore" => customer.version # 0 /\ card = "active"
  /\ customer.pc = "download" /\ customer.version \in tokens =>
       /\ card = "active"
       /\ customer.version = asset.version
       /\ customer.version = order

\* The end of the service left nothing under way.
EndedSettled ==
  service = "ended" => \A x \in Tasks : /\ task[x].status \notin Unfinished
                                        /\ attempt[x].state # "running"

IInv ==
  /\ TypeOK
  /\ ReclaimsHaveOrders
  /\ GenerateOver
  /\ OrderFollowsAsset
  /\ RunningIsCurrent
  /\ RevokedIsClosed
  /\ CustomerSound
  /\ EndedSettled

-----------------------------------------------------------------------------
(* Keys and rows *)

LEMMA KeyFacts ==
  /\ Generate = {<<"generate", 1>>}
  /\ Generate \subseteq Tasks /\ Probes \subseteq Tasks /\ Reclaims \subseteq Tasks
  /\ NoTask \notin Tasks
  /\ \A x \in Generate : x \notin Probes /\ x \notin Reclaims
  /\ \A x \in Probes : x \notin Reclaims
  /\ \A x \in Tasks : x \in Generate \/ x \in Probes \/ x \in Reclaims
  /\ CustomerProbes \subseteq Probes
<1>1. \A x \in Probes : x[1] \in {"probe", "check"}
  BY DEF Probes, CustomerProbes
<1>2. \A x \in Reclaims : x[1] \in {"customer", "owner", "auto"}
  BY DEF Reclaims, OwnerReclaims
<1>3. \A x \in Generate : x[1] = "generate"
  BY DEF Generate
<1> QED BY <1>1, <1>2, <1>3, TaskAssumption DEF Generate, Probes, Tasks

LEMMA NamedKeys ==
  /\ \A r \in Rounds : <<"probe", r>> \in Probes
  /\ \A c \in Checks : <<"check", c>> \in Probes
  /\ \A k \in Requests : <<"customer", k>> \in Reclaims
  /\ \A g \in Grants : <<"owner", g>> \in Reclaims
  /\ \A g \in Generations : <<"auto", g>> \in Reclaims
BY DEF Probes, CustomerProbes, Reclaims, OwnerReclaims

LEMMA NumberFacts ==
  /\ MaxAttempts \in Nat \ {0} /\ MaxGeneration \in Nat \ {0}
  /\ Generations \subseteq Versions /\ 0 \in Versions /\ 0 \notin Generations
  /\ \A v \in Versions : v # 0 => v \in Generations
BY AttemptsAssumption, GenerationAssumption DEF Generations, Versions

LEMMA RowFacts ==
  /\ NewTask \in TaskRow /\ NewTask.status = "queued" /\ NewTask.status \in Unfinished
  /\ Absent \in TaskRow /\ Absent.status = "none"
  /\ Idle \in Work /\ Idle.pc = "idle" /\ WorkSound(Idle)
<1>1. Absent \in TaskRow /\ Absent.status = "none"
  BY NumberFacts DEF Absent, TaskRow
<1>2. NewTask \in TaskRow /\ NewTask.status = "queued" /\ NewTask.status \in Unfinished
  BY <1>1 DEF NewTask, TaskRow, Unfinished
<1>3. Idle \in Work /\ Idle.pc = "idle"
  BY NumberFacts DEF Idle, Work
<1> QED BY <1>1, <1>2, <1>3 DEF WorkSound

LEMMA EndedRow ==
  ASSUME NEW row \in TaskRow, NEW status \in {"succeeded", "failed", "interrupted", "retry_wait"}
  PROVE  Ended(row, status) \in TaskRow /\ Ended(row, status).status = status
BY DEF Ended, TaskRow, Unfinished

-----------------------------------------------------------------------------
(* What a step does to the workers *)

\* Steps that change nothing but the position of their worker.
Moves(w) ==
  /\ LocalStep
  /\ \E r \in Work : WorkSound(r) /\ worker' = [worker EXCEPT ![w] = r]

LEMMA GotoSound ==
  ASSUME TypeOK, ReclaimsHaveOrders, NEW w \in Workers, LocalStep,
         worker[w].pc \notin {"idle", "rejected", "resolve"},
         NEW pc \in {"refresh", "relogin", "confirm", "probe"}, Goto(w, pc)
  PROVE  Moves(w)
<1> DEFINE r == [worker[w] EXCEPT !.pc = pc]
<1>1. worker[w] \in Work /\ WorkSound(worker[w])
  BY DEF TypeOK, ReclaimsHaveOrders
<1>2. r \in Work /\ WorkSound(r)
  BY <1>1 DEF Work, WorkSound
<1>3. worker' = [worker EXCEPT ![w] = r]
  BY DEF Goto
<1> QED BY <1>2, <1>3 DEF Moves

LEMMA ConcludeSound ==
  ASSUME TypeOK, ReclaimsHaveOrders, NEW w \in Workers, LocalStep,
         worker[w].pc \notin {"idle", "rejected", "resolve"},
         NEW outcome \in Outcomes, NEW lost \in BOOLEAN, Conclude(w, outcome, lost)
  PROVE  Moves(w)
<1> DEFINE r == [worker[w] EXCEPT !.pc = "finish", !.outcome = outcome,
                                  !.unrecoverable = lost]
<1>1. worker[w] \in Work /\ WorkSound(worker[w])
  BY DEF TypeOK, ReclaimsHaveOrders
<1>2. r \in Work /\ WorkSound(r)
  BY <1>1 DEF Work, WorkSound
<1>3. worker' = [worker EXCEPT ![w] = r]
  BY DEF Conclude
<1> QED BY <1>2, <1>3 DEF Moves

LEMMA ResolveMoves ==
  ASSUME TypeOK, ReclaimsHaveOrders, NEW w \in Workers, Resolve(w)
  PROVE  Moves(w)
<1>1. /\ worker[w] \in Work /\ WorkSound(worker[w]) /\ worker[w].pc = "resolve"
      /\ order \in Versions /\ LocalStep
  BY DEF TypeOK, ReclaimsHaveOrders, Resolve, At
<1>2. CASE Resolvable(Job(w))
  <2> DEFINE r == [worker[w] EXCEPT !.pc = "begin", !.version = order]
  <2>1. r \in Work /\ WorkSound(r)
    BY <1>1, <1>2 DEF Work, WorkSound, Resolvable, Job
  <2>2. worker' = [worker EXCEPT ![w] = r]
    BY <1>2 DEF Resolve
  <2> QED BY <1>1, <2>1, <2>2 DEF Moves
<1>3. CASE ~Resolvable(Job(w)) /\ Job(w) \in Probes
  <2> DEFINE r == [worker[w] EXCEPT !.pc = "rejected"]
  <2>1. r \in Work /\ WorkSound(r)
    BY <1>1 DEF Work, WorkSound
  <2>2. worker' = [worker EXCEPT ![w] = r]
    BY <1>3 DEF Resolve, Goto
  <2> QED BY <1>1, <2>1, <2>2 DEF Moves
<1>4. CASE ~Resolvable(Job(w)) /\ Job(w) \notin Probes
  BY <1>1, <1>4, RowFacts DEF Moves, Resolve
<1> QED BY <1>2, <1>3, <1>4

LEMMA CallMoves ==
  ASSUME TypeOK, ReclaimsHaveOrders, NEW w \in Workers,
         \/ CreateDeliveryCredentials(w) \/ CheckDeliveryLiveness(w)
         \/ ProbeForReclaim(w) \/ RefreshDeliveryCredentials(w)
         \/ Relogin(w) \/ ConfirmRelogin(w)
  PROVE  Moves(w)
<1>1. \A answer \in UsageAnswers : ProbeOutcome(answer) \in Outcomes
  BY DEF UsageAnswers, ProbeOutcome, Outcomes
<1>2. CASE CreateDeliveryCredentials(w)
  BY <1>2, GotoSound, ConcludeSound DEF CreateDeliveryCredentials, FullLogin, At, Outcomes
<1>3. CASE CheckDeliveryLiveness(w)
  BY <1>1, <1>3, ConcludeSound DEF CheckDeliveryLiveness, At
<1>4. CASE ProbeForReclaim(w)
  BY <1>4, GotoSound, ConcludeSound DEF ProbeForReclaim, At, Outcomes
<1>5. CASE RefreshDeliveryCredentials(w)
  BY <1>1, <1>5, GotoSound, ConcludeSound DEF RefreshDeliveryCredentials, At
<1>6. CASE Relogin(w)
  BY <1>6, GotoSound, ConcludeSound DEF Relogin, FullLogin, At, Outcomes
<1>7. CASE ConfirmRelogin(w)
  <2>1. \A answer \in UsageAnswers : (ProbeOutcome(answer) # "ok") \in BOOLEAN
    OBVIOUS
  <2> QED BY <1>1, <1>7, <2>1, ConcludeSound DEF ConfirmRelogin, At
<1> QED BY <1>2, <1>3, <1>4, <1>5, <1>6, <1>7

LEMMA AbandonMoves ==
  ASSUME NEW w \in Workers, Abandon(w)
  PROVE  Moves(w)
BY RowFacts DEF Abandon, Moves


-----------------------------------------------------------------------------
(* Steps that keep the version, the order and the access to it *)

WorkersMove == worker' \in [Workers -> Work] /\ ReclaimsHaveOrders'

\* Running attempts may end, none starts.
AttemptsEnd ==
  /\ attempt' \in [Tasks -> AttemptRow]
  /\ \A x \in Tasks : /\ attempt'[x].generation = attempt[x].generation
                      /\ attempt'[x].state = "running" => attempt[x].state = "running"

\* No generation task is queued again.
TasksMove ==
  /\ task' \in [Tasks -> TaskRow]
  /\ \A x \in Generate : task'[x].status \in Unfinished => task[x].status \in Unfinished

SameDelivery ==
  /\ asset' \in AssetRow
  /\ asset'.version = asset.version
  /\ asset'.attempt = asset.attempt
  /\ asset'.generation = asset.generation

Quiet ==
  /\ SameDelivery /\ AttemptsEnd /\ TasksMove /\ WorkersMove
  /\ latest' \in Reclaims \cup {NoTask}
  /\ service' = service /\ EndedSettled'
  /\ UNCHANGED <<card, order, tokens>>
  /\ customer' \in {customer, Away}

LEMMA QuietKeeps ==
  ASSUME IInv, Quiet
  PROVE  IInv'
<1>1. TypeOK'
  <2>1. customer' \in [pc : {"away", "restore", "reclaim", "download", "served"},
                       version : Versions]
    BY NumberFacts DEF IInv, TypeOK, Quiet, Away
  <2> QED BY <2>1 DEF IInv, TypeOK, Quiet, SameDelivery, AttemptsEnd, TasksMove, WorkersMove
<1>2. ReclaimsHaveOrders' /\ EndedSettled'
  BY DEF Quiet, WorkersMove
<1>3. GenerateOver'
  BY DEF IInv, GenerateOver, Quiet, SameDelivery, TasksMove
<1>4. OrderFollowsAsset' /\ RevokedIsClosed'
  BY DEF IInv, OrderFollowsAsset, RevokedIsClosed, Quiet, SameDelivery
<1>5. RunningIsCurrent'
  BY DEF IInv, RunningIsCurrent, Quiet, SameDelivery, AttemptsEnd
<1>6. CustomerSound'
  BY DEF IInv, CustomerSound, Quiet, SameDelivery, Away
<1> QED BY <1>1, <1>2, <1>3, <1>4, <1>5, <1>6 DEF IInv

LEMMA WorkerUpdate ==
  ASSUME TypeOK, ReclaimsHaveOrders, NEW w \in Workers, NEW r \in Work, WorkSound(r),
         worker' = [worker EXCEPT ![w] = r]
  PROVE  WorkersMove
BY DEF TypeOK, ReclaimsHaveOrders, WorkersMove

LEMMA WorkersStay ==
  ASSUME TypeOK, ReclaimsHaveOrders, worker' = worker
  PROVE  WorkersMove
BY DEF TypeOK, ReclaimsHaveOrders, WorkersMove

LEMMA AttemptsStay ==
  ASSUME TypeOK, attempt' = attempt
  PROVE  AttemptsEnd
BY DEF TypeOK, AttemptsEnd

LEMMA WithStateEnds ==
  ASSUME TypeOK, NEW x \in Tasks, NEW state \in {"published", "failed", "superseded"},
         attempt' = WithState(x, state)
  PROVE  AttemptsEnd
<1>1. attempt \in [Tasks -> AttemptRow]
  BY DEF TypeOK
<1>2. [attempt[x] EXCEPT !.state = state] \in AttemptRow
  BY <1>1 DEF AttemptRow
<1>3. CASE attempt[x].state = "running"
  <2>1. attempt' = [attempt EXCEPT ![x] = [attempt[x] EXCEPT !.state = state]]
    BY <1>3 DEF WithState
  <2> QED BY <1>1, <1>2, <2>1 DEF AttemptsEnd, AttemptRow
<1>4. CASE attempt[x].state # "running"
  BY <1>1, <1>4 DEF AttemptsEnd, WithState
<1> QED BY <1>3, <1>4

LEMMA TasksStay ==
  ASSUME TypeOK, task' = task
  PROVE  TasksMove
BY DEF TypeOK, TasksMove

LEMMA TaskUpdate ==
  ASSUME TypeOK, NEW x \in Tasks, NEW row \in TaskRow,
         x \in Generate /\ row.status \in Unfinished => task[x].status \in Unfinished,
         task' = [task EXCEPT ![x] = row]
  PROVE  TasksMove
BY DEF TypeOK, TasksMove

LEMMA AssetStays ==
  ASSUME TypeOK, asset' = asset
  PROVE  SameDelivery
BY DEF TypeOK, SameDelivery

LEMMA AssetStatus ==
  ASSUME TypeOK,
         NEW status \in {"pending", "generating", "reclaiming", "ready", "unavailable"},
         asset' = [asset EXCEPT !.status = status]
  PROVE  SameDelivery
BY DEF TypeOK, SameDelivery, AssetRow


LEMMA EndedStays ==
  ASSUME service' = service, service # "ended"
  PROVE  EndedSettled'
BY DEF EndedSettled

LEMMA NothingRuns ==
  ASSUME IInv, NEW x \in Tasks, task[x].status \in Unfinished
  PROVE  service # "ended"
BY DEF IInv, EndedSettled

\* A worker that is on its way has a task; one that holds its lease has a live one.
LEMMA JobFacts ==
  ASSUME IInv, NEW w \in Workers, worker[w].pc # "idle"
  PROVE  /\ Job(w) \in Tasks
         /\ HoldsLease(w) => /\ task[Job(w)].status \in Unfinished
                             /\ service # "ended"
<1>1. Job(w) \in Tasks
  BY DEF IInv, ReclaimsHaveOrders, WorkSound, Job
<1>2. ASSUME HoldsLease(w) PROVE task[Job(w)].status \in Unfinished
  BY <1>2 DEF HoldsLease, Unfinished
<1> QED BY <1>1, <1>2, NothingRuns

LEMMA MovesQuiet ==
  ASSUME IInv, NEW w \in Workers, Moves(w)
  PROVE  Quiet
<1>1. TypeOK /\ ReclaimsHaveOrders /\ EndedSettled /\ LocalStep
  BY DEF IInv, Moves
<1>2. WorkersMove
  BY <1>1, WorkerUpdate DEF Moves
<1>3. SameDelivery /\ AttemptsEnd /\ TasksMove
  BY <1>1, AssetStays, AttemptsStay, TasksStay DEF LocalStep
<1>4. EndedSettled'
  BY <1>1 DEF EndedSettled, LocalStep
<1> QED BY <1>1, <1>2, <1>3, <1>4 DEF Quiet, TypeOK, LocalStep

\* Steps on a task, with their worker or without.
LEMMA ClaimQuiet ==
  ASSUME IInv, NEW w \in Workers, NEW x \in Tasks, ClaimTask(w, x)
  PROVE  Quiet
<1> DEFINE row == Claimed(task[x])
<1>1. TypeOK /\ ReclaimsHaveOrders
  BY DEF IInv
<1>2. task[x] \in TaskRow /\ task[x].attempts < MaxAttempts
      /\ task[x].status \in Unfinished
  BY <1>1 DEF TypeOK, ClaimTask, Claimable, Unfinished
<1>3. task[x].attempts + 1 \in 0..MaxAttempts
  BY <1>2, NumberFacts DEF TaskRow
<1>4. row \in TaskRow
  BY <1>2, <1>3 DEF Claimed, TaskRow, Unfinished
<1>5. TasksMove
  <2>1. task' = [task EXCEPT ![x] = row]
    BY DEF ClaimTask
  <2> QED BY <1>1, <1>2, <1>4, <2>1, TaskUpdate
<1>6. WorkersMove
  <2>1. PICK pc \in {"resolve", "rejected"} :
          worker' = [worker EXCEPT ![w] =
                       [Idle EXCEPT !.pc = pc, !.task = x, !.token = task[x].attempts + 1]]
    BY DEF ClaimTask
  <2> DEFINE r == [Idle EXCEPT !.pc = pc, !.task = x, !.token = task[x].attempts + 1]
  <2>2. r \in Work /\ r.pc = pc /\ r.task = x
    BY <1>3, RowFacts DEF Work
  <2>3. WorkSound(r)
    BY <2>2 DEF WorkSound
  <2> QED BY <1>1, <2>1, <2>2, <2>3, WorkerUpdate
<1>7. service # "ended" /\ service' = service
  BY <1>2, NothingRuns DEF ClaimTask
<1> QED BY <1>1, <1>5, <1>6, <1>7, EndedStays, AssetStays, AttemptsStay
        DEF Quiet, TypeOK, ClaimTask

LEMMA ExhaustedQuiet ==
  ASSUME IInv, NEW w \in Workers, NEW x \in Tasks, SettleExhausted(w, x)
  PROVE  Quiet
<1> DEFINE row == [Ended(task[x], "interrupted") EXCEPT !.unrecoverable = FALSE]
<1>1. TypeOK /\ ReclaimsHaveOrders
  BY DEF IInv
<1>2. Ended(task[x], "interrupted") \in TaskRow
      /\ Ended(task[x], "interrupted").status = "interrupted"
  BY <1>1, EndedRow DEF TypeOK
<1>3. row \in TaskRow /\ row.status = "interrupted"
  BY <1>2 DEF TaskRow
<1>4. TasksMove
  <2>1. task' = [task EXCEPT ![x] = row]
    BY DEF SettleExhausted
  <2> QED BY <1>1, <1>3, <2>1, TaskUpdate DEF Unfinished
<1>5. SameDelivery
  BY <1>1, AssetStays, AssetStatus DEF SettleExhausted
<1>6. service # "ended"
  BY NothingRuns DEF SettleExhausted, Unfinished
<1> QED BY <1>1, <1>4, <1>5, <1>6, EndedStays, WorkersStay, AttemptsStay
        DEF Quiet, TypeOK, SettleExhausted

LEMMA RejectQuiet ==
  ASSUME IInv, NEW w \in Workers, Reject(w)
  PROVE  Quiet
<1>1. TypeOK /\ ReclaimsHaveOrders /\ worker[w].pc = "rejected"
  BY DEF IInv, Reject, At
<1>2. Job(w) \in Tasks /\ service # "ended"
  BY <1>1, JobFacts DEF Reject
<1>3. TasksMove
  <2>1. Ended(task[Job(w)], "failed") \in TaskRow
        /\ Ended(task[Job(w)], "failed").status = "failed"
    BY <1>1, <1>2, EndedRow DEF TypeOK
  <2>2. task' = [task EXCEPT ![Job(w)] = Ended(task[Job(w)], "failed")]
    BY DEF Reject
  <2> QED BY <1>1, <1>2, <2>1, <2>2, TaskUpdate DEF Unfinished
<1>4. WorkersMove
  BY <1>1, RowFacts, WorkerUpdate DEF Reject
<1> QED BY <1>1, <1>2, <1>3, <1>4, EndedStays, AssetStays, AttemptsStay
        DEF Quiet, TypeOK, Reject

LEMMA ExpiryQuiet ==
  ASSUME IInv, NEW x \in Tasks, LeaseExpires(x)
  PROVE  Quiet
<1> DEFINE row == [task[x] EXCEPT !.lease = "expired"]
<1>1. TypeOK /\ ReclaimsHaveOrders
  BY DEF IInv
<1>2. task[x] \in TaskRow /\ task[x].status \in Unfinished
  BY <1>1 DEF TypeOK, LeaseExpires, Unfinished
<1>3. row \in TaskRow
  BY <1>2 DEF TaskRow
<1>4. TasksMove
  <2>1. task' = [task EXCEPT ![x] = row]
    BY DEF LeaseExpires
  <2> QED BY <1>1, <1>2, <1>3, <2>1, TaskUpdate
<1>5. service # "ended"
  BY <1>2, NothingRuns
<1> QED BY <1>1, <1>4, <1>5, EndedStays, AssetStays, AttemptsStay, WorkersStay
        DEF Quiet, TypeOK, LeaseExpires

\* A new task that is not a generation.
LEMMA NewTaskMoves ==
  ASSUME TypeOK, NEW x \in Probes \cup Reclaims, task' = [task EXCEPT ![x] = NewTask]
  PROVE  TasksMove
BY KeyFacts, RowFacts, TaskUpdate

LEMMA InsertedQuiet ==
  ASSUME TypeOK, NEW x \in Reclaims, ReclaimInserted(x)
  PROVE  TasksMove /\ SameDelivery /\ latest' \in Reclaims
BY NewTaskMoves DEF ReclaimInserted, SameDelivery, TypeOK, AssetRow

LEMMA RequestsQuiet ==
  ASSUME IInv,
         \/ \E r \in Rounds : EnqueueDeliveryProbes(r)
         \/ \E g \in Grants : AuthorizeDeliveryReclaim(g)
         \/ \E c \in Checks : CheckCredentialStatus(c)
         \/ \E k \in Requests : RequestReclaim(k)
  PROVE  Quiet
<1>1. TypeOK /\ ReclaimsHaveOrders
  BY DEF IInv
<1>2. ASSUME NEW r \in Rounds, EnqueueDeliveryProbes(r) PROVE Quiet
  <2>1. TasksMove
    BY <1>1, <1>2, NamedKeys, NewTaskMoves DEF EnqueueDeliveryProbes
  <2>2. service # "ended"
    BY <1>2 DEF EnqueueDeliveryProbes, Active
  <2> QED BY <1>1, <1>2, <2>1, <2>2, EndedStays, AssetStays, AttemptsStay, WorkersStay
          DEF Quiet, TypeOK, EnqueueDeliveryProbes
<1>3. ASSUME NEW g \in Grants, AuthorizeDeliveryReclaim(g) PROVE Quiet
  <2>1. TasksMove /\ SameDelivery /\ latest' \in Reclaims
    BY <1>1, <1>3, NamedKeys, InsertedQuiet DEF AuthorizeDeliveryReclaim
  <2>2. service # "ended"
    BY <1>3 DEF AuthorizeDeliveryReclaim, Open
  <2> QED BY <1>1, <1>3, <2>1, <2>2, EndedStays, AttemptsStay, WorkersStay
          DEF Quiet, TypeOK, AuthorizeDeliveryReclaim
<1>4. ASSUME NEW c \in Checks, CheckCredentialStatus(c) PROVE Quiet
  <2>1. TasksMove
    BY <1>1, <1>4, NamedKeys, NewTaskMoves DEF CheckCredentialStatus
  <2>2. service # "ended"
    BY <1>4 DEF CheckCredentialStatus, Open
  <2> QED BY <1>1, <1>4, <2>1, <2>2, EndedStays, AssetStays, AttemptsStay, WorkersStay
          DEF Quiet, TypeOK, CheckCredentialStatus
<1>5. ASSUME NEW k \in Requests, RequestReclaim(k) PROVE Quiet
  <2>1. TasksMove /\ SameDelivery /\ latest' \in Reclaims
    BY <1>1, <1>5, NamedKeys, InsertedQuiet DEF RequestReclaim
  <2>2. service # "ended"
    BY <1>5 DEF RequestReclaim, Open
  <2> QED BY <1>1, <1>5, <2>1, <2>2, EndedStays, AttemptsStay, WorkersStay
          DEF Quiet, TypeOK, RequestReclaim
<1> QED BY <1>2, <1>3, <1>4, <1>5


-----------------------------------------------------------------------------
(* The results that keep the version *)

LEMMA LostQuiet ==
  ASSUME IInv, NEW w \in Workers, RecordDeliveryLeaseLost(w)
  PROVE  Quiet
<1>1. TypeOK /\ ReclaimsHaveOrders /\ EndedSettled /\ Job(w) \in Tasks
  BY JobFacts DEF IInv, RecordDeliveryLeaseLost, At
<1>2. AttemptsEnd
  <2>1. attempt' = WithState(Job(w), "superseded")
    BY DEF RecordDeliveryLeaseLost, WithState
  <2> QED BY <1>1, <2>1, WithStateEnds
<1>3. WorkersMove
  BY <1>1, RowFacts, WorkerUpdate DEF RecordDeliveryLeaseLost
<1>4. EndedSettled'
  BY <1>1, <1>2 DEF EndedSettled, AttemptsEnd, RecordDeliveryLeaseLost
<1> QED BY <1>1, <1>2, <1>3, <1>4, AssetStays, TasksStay
        DEF Quiet, TypeOK, RecordDeliveryLeaseLost

\* What every result under the fence does: it ends the task and the attempt.
LEMMA ResultMoves ==
  ASSUME IInv, NEW w \in Workers, worker[w].pc = "finish", Fence(w),
         NEW state \in {"published", "failed"},
         attempt' = WithState(Job(w), state),
         worker' = [worker EXCEPT ![w] = Idle],
         service' = service
  PROVE  /\ TypeOK /\ Job(w) \in Tasks /\ AttemptsEnd /\ WorkersMove /\ EndedSettled'
         /\ task[Job(w)].status \in Unfinished
<1>1. TypeOK /\ ReclaimsHaveOrders
  BY DEF IInv
<1>2. Job(w) \in Tasks /\ service # "ended" /\ task[Job(w)].status \in Unfinished
  BY JobFacts DEF Fence
<1> QED BY <1>1, <1>2, EndedStays, WithStateEnds, RowFacts, WorkerUpdate

LEMMA FailedAttemptQuiet ==
  ASSUME IInv, NEW w \in Workers, FinishDeliveryAttempt(w), worker[w].outcome # "ok"
  PROVE  Quiet
<1>1. /\ TypeOK /\ Job(w) \in Tasks /\ AttemptsEnd /\ WorkersMove /\ EndedSettled'
      /\ task[Job(w)].status \in Unfinished
  BY ResultMoves DEF FinishDeliveryAttempt, At
<1>2. TasksMove
  <2>1. PICK status \in {"retry_wait", "failed"} :
          task' = [task EXCEPT ![Job(w)] = Ended(task[Job(w)], status)]
    BY DEF FinishDeliveryAttempt
  <2> QED BY <1>1, <2>1, EndedRow, TaskUpdate DEF TypeOK
<1>3. SameDelivery
  BY <1>1, AssetStatus DEF FinishDeliveryAttempt
<1> QED BY <1>1, <1>2, <1>3 DEF Quiet, TypeOK, FinishDeliveryAttempt

LEMMA FinishReclaimQuiet ==
  ASSUME IInv, NEW w \in Workers, FinishReclaim(w)
  PROVE  Quiet
<1>1. /\ TypeOK /\ Job(w) \in Tasks /\ AttemptsEnd /\ WorkersMove /\ EndedSettled'
      /\ task[Job(w)].status \in Unfinished
  <2>1. /\ worker[w].pc = "finish" /\ Fence(w) /\ service' = service
        /\ worker' = [worker EXCEPT ![w] = Idle]
    BY DEF FinishReclaim, At, ReclaimFence
  <2>2. attempt' = WithState(Job(w), "published") \/ attempt' = WithState(Job(w), "failed")
    BY DEF FinishReclaim
  <2> QED BY <2>1, <2>2, ResultMoves
<1>2. PICK status \in {"succeeded", "retry_wait", "failed"} :
        /\ task' = [task EXCEPT ![Job(w)] = [Ended(@, status) EXCEPT
                                               !.unrecoverable = worker[w].unrecoverable]]
        /\ asset' = [asset EXCEPT !.status = CASE status = "succeeded" -> "ready"
                                               [] status = "retry_wait" -> "reclaiming"
                                               [] status = "failed" -> "unavailable"]
  BY DEF FinishReclaim
<1>3. TasksMove
  <2> DEFINE row == [Ended(task[Job(w)], status) EXCEPT
                       !.unrecoverable = worker[w].unrecoverable]
  <2>1. Ended(task[Job(w)], status) \in TaskRow
    BY <1>1, EndedRow DEF TypeOK
  <2>2. worker[w].unrecoverable \in BOOLEAN
    BY <1>1 DEF TypeOK, Work
  <2>3. row \in TaskRow
    BY <2>1, <2>2 DEF TaskRow
  <2>4. task' = [task EXCEPT ![Job(w)] = row]
    BY <1>2
  <2> QED BY <1>1, <2>3, <2>4, TaskUpdate
<1>4. SameDelivery
  <2>1. asset' = [asset EXCEPT !.status = "ready"]
        \/ asset' = [asset EXCEPT !.status = "reclaiming"]
        \/ asset' = [asset EXCEPT !.status = "unavailable"]
    BY <1>2
  <2> QED BY <1>1, <2>1, AssetStatus
<1> QED BY <1>1, <1>3, <1>4 DEF Quiet, TypeOK, FinishReclaim

\* A finished task and the one that follows it.
LEMMA FollowedTaskMoves ==
  ASSUME TypeOK, NEW x \in Tasks, NEW y \in Tasks, NEW row \in TaskRow,
         task[x].status \in Unfinished, y \notin Generate,
         task' = [[task EXCEPT ![x] = row] EXCEPT ![y] = NewTask]
  PROVE  TasksMove
<1> DEFINE ended == [task EXCEPT ![x] = row]
<1>1. ended \in [Tasks -> TaskRow]
      /\ \A z \in Tasks : ended[z].status \in Unfinished => task[z].status \in Unfinished
  BY DEF TypeOK
<1>2. task' = [ended EXCEPT ![y] = NewTask] /\ NewTask \in TaskRow
  BY RowFacts
<1> HIDE DEF ended
<1>3. task' \in [Tasks -> TaskRow] /\ \A z \in Tasks : z # y => task'[z] = ended[z]
  BY <1>1, <1>2
<1> QED BY <1>1, <1>3, KeyFacts DEF TasksMove

LEMMA FinishProbeQuiet ==
  ASSUME IInv, NEW w \in Workers, FinishDeliveryProbe(w)
  PROVE  Quiet
<1> DEFINE auto == <<"auto", asset.generation>>
           finished(status) == [task EXCEPT ![Job(w)] = Ended(@, status)]
<1>1. /\ TypeOK /\ Job(w) \in Tasks /\ AttemptsEnd /\ WorkersMove /\ EndedSettled'
      /\ task[Job(w)].status \in Unfinished
  <2>1. /\ worker[w].pc = "finish" /\ Fence(w) /\ service' = service
        /\ worker' = [worker EXCEPT ![w] = Idle]
    BY DEF FinishDeliveryProbe, At
  <2>2. attempt' = WithState(Job(w), "published") \/ attempt' = WithState(Job(w), "failed")
    BY DEF FinishDeliveryProbe
  <2> QED BY <2>1, <2>2, ResultMoves
<1>2. PICK status \in {"succeeded", "retry_wait"} :
        IF ReclaimsAutomatically(w)
        THEN /\ task' = [finished(status) EXCEPT ![auto] = NewTask]
             /\ latest' = auto
             /\ asset' = [asset EXCEPT !.status = "reclaiming"]
        ELSE /\ task' = finished(status)
             /\ asset' = [asset EXCEPT !.status = ProbedStatus(worker[w].outcome)]
             /\ latest' = latest
  BY DEF FinishDeliveryProbe
<1>3. Ended(task[Job(w)], status) \in TaskRow
  BY <1>1, EndedRow DEF TypeOK
<1>4. SameDelivery
  <2>1. ProbedStatus(worker[w].outcome) \in {"unavailable", "ready"}
    BY DEF ProbedStatus
  <2> QED BY <1>1, <1>2, <2>1, AssetStatus
<1>5. CASE ReclaimsAutomatically(w)
  <2>1. auto \in Reclaims /\ auto \notin Generate /\ auto \in Tasks
    <3>1. asset.generation \in Generations
      BY <1>1, <1>5, NumberFacts DEF TypeOK, AssetRow, ReclaimsAutomatically
    <3> QED BY <3>1, NamedKeys, KeyFacts
  <2>2. TasksMove
    <3>1. task' = [finished(status) EXCEPT ![auto] = NewTask]
      BY <1>2, <1>5
    <3> QED BY <1>1, <1>3, <2>1, <3>1, FollowedTaskMoves
  <2> QED BY <1>1, <1>2, <1>4, <1>5, <2>1, <2>2 DEF Quiet, FinishDeliveryProbe
<1>6. CASE ~ReclaimsAutomatically(w)
  <2>1. TasksMove
    BY <1>1, <1>2, <1>3, <1>6, TaskUpdate
  <2> QED BY <1>1, <1>2, <1>4, <1>6, <2>1 DEF Quiet, TypeOK, FinishDeliveryProbe
<1> QED BY <1>5, <1>6


-----------------------------------------------------------------------------
(* The steps that replace the version or start an attempt *)

LEMMA BeginKeeps ==
  ASSUME IInv, NEW w \in Workers, BeginDeliveryAttempt(w)
  PROVE  IInv'
<1> DEFINE x == Job(w)
           r == [worker[w] EXCEPT !.pc = IF x \in Generate THEN "create" ELSE "probe"]
           row == [state |-> "running", generation |-> NextGeneration(x)]
           status == IF x \in Reclaims THEN "reclaiming" ELSE "generating"
<1>1. TypeOK /\ ReclaimsHaveOrders /\ worker[w].pc = "begin" /\ x \in Tasks
      /\ service # "ended"
  BY JobFacts DEF IInv, BeginDeliveryAttempt, At, Fence
<1>2. NextGeneration(x) \in Versions
  BY <1>1, NumberFacts DEF TypeOK, AssetRow, Versions, NextGeneration, BeginDeliveryAttempt
<1>3. WorkersMove
  <2>1. worker[w] \in Work /\ WorkSound(worker[w])
    BY <1>1 DEF TypeOK, ReclaimsHaveOrders
  <2>2. r \in Work /\ WorkSound(r)
    BY <1>1, <2>1 DEF Work, WorkSound
  <2>3. worker' = [worker EXCEPT ![w] = r]
    BY DEF BeginDeliveryAttempt, Goto
  <2> QED BY <1>1, <2>2, <2>3, WorkerUpdate
<1>4. attempt' = [attempt EXCEPT ![x] = row] /\ row \in AttemptRow
  BY <1>2 DEF BeginDeliveryAttempt, AttemptRow
<1>5. /\ asset' \in AssetRow
      /\ asset'.generation = NextGeneration(x)
      /\ asset'.attempt = x
      /\ asset'.version = asset.version
  <2>1. asset' = [asset EXCEPT !.generation = NextGeneration(x), !.attempt = x,
                               !.status = status]
    BY DEF BeginDeliveryAttempt
  <2>2. status \in {"reclaiming", "generating"}
    OBVIOUS
  <2> HIDE DEF status, x
  <2> QED BY <1>1, <1>2, <2>1, <2>2 DEF TypeOK, AssetRow
<1>6. UNCHANGED <<service, task, latest, card, order, tokens, customer>>
      /\ \A y \in Tasks : attempt[y].state # "running"
  BY DEF BeginDeliveryAttempt, AttemptInsertable
<1> HIDE DEF x, r, row
<1>7. TypeOK'
  BY <1>1, <1>3, <1>4, <1>5, <1>6 DEF TypeOK, WorkersMove
<1>8. RunningIsCurrent'
  BY <1>1, <1>4, <1>5, <1>6 DEF RunningIsCurrent, TypeOK, row
<1>9. GenerateOver' /\ OrderFollowsAsset' /\ RevokedIsClosed' /\ CustomerSound'
  BY <1>5, <1>6 DEF IInv, GenerateOver, OrderFollowsAsset, RevokedIsClosed, CustomerSound
<1>10. EndedSettled'
  BY <1>1, <1>6 DEF EndedSettled
<1> QED BY <1>3, <1>7, <1>8, <1>9, <1>10 DEF IInv, WorkersMove

\* A running generation task means that there is no version yet.
LEMMA GeneratedKeeps ==
  ASSUME IInv, NEW w \in Workers, FinishDeliveryAttempt(w), worker[w].outcome = "ok"
  PROVE  IInv'
<1> DEFINE row == Ended(task[Job(w)], "failed")
<1>1. /\ TypeOK /\ Job(w) \in Tasks /\ AttemptsEnd /\ WorkersMove /\ EndedSettled'
      /\ task[Job(w)].status \in Unfinished
  BY ResultMoves DEF FinishDeliveryAttempt, At
<1>2. asset.version = 0 /\ order = 0
  BY <1>1 DEF IInv, GenerateOver, OrderFollowsAsset, FinishDeliveryAttempt
<1>3. /\ asset' \in AssetRow
      /\ asset'.generation = asset.generation /\ asset'.attempt = asset.attempt
  BY <1>1 DEF FinishDeliveryAttempt, TypeOK, AssetRow, AttemptRow
<1>4. /\ row \in TaskRow /\ row.status = "failed"
      /\ task' = [task EXCEPT ![Job(w)] = row]
  BY <1>1, EndedRow DEF FinishDeliveryAttempt, TypeOK
<1>5. TasksMove
  BY <1>1, <1>4, TaskUpdate
<1>6. UNCHANGED <<service, latest, card, order, tokens, customer>>
  BY DEF FinishDeliveryAttempt
<1>7. TypeOK'
  BY <1>1, <1>3, <1>5, <1>6 DEF TypeOK, AttemptsEnd, TasksMove, WorkersMove
<1>8. GenerateOver'
  <2>1. \A x \in Generate : x = Job(w)
    BY KeyFacts DEF FinishDeliveryAttempt
  <2> QED BY <1>1, <1>4, <2>1 DEF GenerateOver, TypeOK, Unfinished
<1>9. OrderFollowsAsset' /\ RevokedIsClosed'
  BY <1>2, <1>6 DEF IInv, OrderFollowsAsset, RevokedIsClosed
<1>10. RunningIsCurrent'
  BY <1>1, <1>3 DEF IInv, RunningIsCurrent, AttemptsEnd
<1>11. CustomerSound'
  <2>1. customer.pc = "download" => customer.version \notin tokens
    BY <1>1, <1>2, NumberFacts DEF IInv, CustomerSound, TypeOK
  <2> QED BY <1>6, <2>1 DEF IInv, CustomerSound
<1> QED BY <1>1, <1>7, <1>8, <1>9, <1>10, <1>11 DEF IInv, WorkersMove

\* Asset, order and tokens move together, because the order is the asset's.
LEMMA PublishedKeeps ==
  ASSUME IInv, NEW w \in Workers, PublishReclaim(w)
  PROVE  IInv'
<1> DEFINE row == Ended(task[Job(w)], "succeeded")
<1>1. /\ TypeOK /\ Job(w) \in Tasks /\ AttemptsEnd /\ WorkersMove /\ EndedSettled'
      /\ task[Job(w)].status \in Unfinished
  BY ResultMoves DEF PublishReclaim, At, ReclaimFence
<1>2. order # 0 /\ order = worker[w].version /\ order = asset.version
  <2>1. worker[w].version # 0
    BY DEF IInv, ReclaimsHaveOrders, WorkSound, PublishReclaim, At, Job
  <2> QED BY <2>1 DEF IInv, OrderFollowsAsset, PublishReclaim, ReclaimFence
<1>3. attempt[Job(w)].generation \in Versions
  BY <1>1 DEF TypeOK, AttemptRow
<1>4. /\ asset' \in AssetRow
      /\ asset'.generation = asset.generation /\ asset'.attempt = asset.attempt
      /\ asset'.version = attempt[Job(w)].generation
  <2>1. asset' = [asset EXCEPT !.status = "ready", !.version = attempt[Job(w)].generation]
    BY <1>2 DEF PublishReclaim
  <2> QED BY <1>1, <1>3, <2>1 DEF TypeOK, AssetRow
<1>5. order' = attempt[Job(w)].generation /\ tokens' = {}
  BY DEF PublishReclaim, PublishedOrder
<1>6. TasksMove
  <2>1. row \in TaskRow /\ task' = [task EXCEPT ![Job(w)] = row]
    BY <1>1, EndedRow DEF PublishReclaim, TypeOK
  <2> QED BY <1>1, <2>1, TaskUpdate
<1>7. UNCHANGED <<service, latest, card, customer>>
  BY DEF PublishReclaim
<1>8. TypeOK'
  BY <1>1, <1>3, <1>4, <1>5, <1>6, <1>7 DEF TypeOK, AttemptsEnd, TasksMove, WorkersMove
<1>9. GenerateOver'
  BY <1>2, <1>6 DEF IInv, GenerateOver, TasksMove
<1>10. OrderFollowsAsset' /\ RevokedIsClosed' /\ CustomerSound'
  BY <1>4, <1>5, <1>7 DEF IInv, OrderFollowsAsset, RevokedIsClosed, CustomerSound
<1>11. RunningIsCurrent'
  BY <1>1, <1>4 DEF IInv, RunningIsCurrent, AttemptsEnd
<1> QED BY <1>1, <1>8, <1>9, <1>10, <1>11 DEF IInv, WorkersMove

-----------------------------------------------------------------------------
(* The service, the card and the customer *)

LEMMA ServiceKeeps ==
  ASSUME IInv, ServiceMoves \/ ServiceEnds
  PROVE  IInv'
<1>1. CASE ServiceMoves
  <2>1. service' \in {"joining", "serving", "removing", "removed"}
        /\ UNCHANGED <<asset, attempt, task, latest, worker, card, order, tokens, customer>>
    BY <1>1 DEF ServiceMoves
  <2> QED BY <2>1 DEF IInv, TypeOK, ReclaimsHaveOrders, GenerateOver, OrderFollowsAsset,
                      RunningIsCurrent, RevokedIsClosed, CustomerSound, EndedSettled
<1>2. CASE ServiceEnds
  <2>1. TypeOK
    BY DEF IInv
  <2>2. /\ attempt' \in [Tasks -> AttemptRow]
        /\ \A x \in Tasks : /\ attempt'[x].state # "running"
                            /\ attempt'[x].generation = attempt[x].generation
    BY <1>2, <2>1 DEF ServiceEnds, TypeOK, AttemptRow
  <2>3. /\ task' \in [Tasks -> TaskRow]
        /\ \A x \in Tasks : task'[x].status \notin Unfinished
    <3>1. ASSUME NEW x \in Tasks
          PROVE  /\ UnfinishedInterrupted(task[x]) \in TaskRow
                 /\ UnfinishedInterrupted(task[x]).status \notin Unfinished
      <4>1. task[x] \in TaskRow
        BY <2>1 DEF TypeOK
      <4>2. /\ Ended(task[x], "interrupted") \in TaskRow
            /\ Ended(task[x], "interrupted").status = "interrupted"
        BY <4>1, EndedRow
      <4> QED BY <4>1, <4>2 DEF UnfinishedInterrupted, Unfinished
    <3>2. task' = [x \in Tasks |-> UnfinishedInterrupted(task[x])]
      BY <1>2 DEF ServiceEnds
    <3> QED BY <3>1, <3>2
  <2>4. service' = "ended"
        /\ UNCHANGED <<asset, latest, worker, card, order, tokens, customer>>
    BY <1>2 DEF ServiceEnds
  <2>5. TypeOK'
    BY <2>1, <2>2, <2>3, <2>4 DEF TypeOK
  <2>6. GenerateOver' /\ RunningIsCurrent' /\ EndedSettled'
    BY <2>2, <2>3, KeyFacts DEF GenerateOver, RunningIsCurrent, EndedSettled
  <2>7. ReclaimsHaveOrders' /\ OrderFollowsAsset' /\ RevokedIsClosed' /\ CustomerSound'
    BY <2>4 DEF IInv, ReclaimsHaveOrders, OrderFollowsAsset, RevokedIsClosed, CustomerSound
  <2> QED BY <2>5, <2>6, <2>7 DEF IInv
<1> QED BY <1>1, <1>2

\* Steps on the card, the order, the tokens and the customer alone.
LEMMA AccessKeeps ==
  ASSUME IInv, UNCHANGED <<service, asset, attempt, task, latest, worker>>,
         card' \in {"none", "active", "revoked"}, order' \in Versions,
         tokens' \subseteq Generations,
         customer' \in [pc : {"away", "restore", "reclaim", "download", "served"},
                        version : Versions],
         OrderFollowsAsset', RevokedIsClosed', CustomerSound'
  PROVE  IInv'
BY DEF IInv, TypeOK, ReclaimsHaveOrders, GenerateOver, RunningIsCurrent, EndedSettled

LEMMA CardKeeps ==
  ASSUME IInv, ActivateMembershipCard \/ RevokeDeliveryCard
  PROVE  IInv'
<1>1. TypeOK /\ OrderFollowsAsset /\ RevokedIsClosed /\ CustomerSound
  BY DEF IInv
<1>2. CASE ActivateMembershipCard
  BY <1>1, <1>2, AccessKeeps
     DEF ActivateMembershipCard, TypeOK, OrderFollowsAsset, RevokedIsClosed, CustomerSound
<1>3. CASE RevokeDeliveryCard
  BY <1>1, <1>3, AccessKeeps
     DEF RevokeDeliveryCard, CardFree, TypeOK, OrderFollowsAsset, RevokedIsClosed, CustomerSound
<1> QED BY <1>2, <1>3

LEMMA TokenExpiryKeeps ==
  ASSUME IInv, NEW v \in Generations, TokenExpires(v)
  PROVE  IInv'
<1>1. TypeOK /\ OrderFollowsAsset /\ RevokedIsClosed /\ CustomerSound
  BY DEF IInv
<1> QED BY <1>1, AccessKeeps
        DEF TokenExpires, TypeOK, OrderFollowsAsset, RevokedIsClosed, CustomerSound

LEMMA ReadKeeps ==
  ASSUME IInv, NEW pc \in {"restore", "reclaim", "download"}, CustomerReads(pc),
         pc = "restore" => order # 0 /\ CanAccess,
         pc = "download" => CanAccess
  PROVE  IInv'
<1>1. TypeOK /\ OrderFollowsAsset /\ RevokedIsClosed
  BY DEF IInv
<1>2. UNCHANGED <<service, asset, attempt, task, latest, worker, card, order, tokens>>
      /\ customer' = [pc |-> pc, version |-> asset.version]
  BY DEF CustomerReads
<1>3. asset.version \in Versions
  BY <1>1 DEF TypeOK, AssetRow
<1>4. CustomerSound'
  BY <1>2 DEF CustomerSound, CanAccess
<1> QED BY <1>1, <1>2, <1>3, <1>4, AccessKeeps
        DEF TypeOK, OrderFollowsAsset, RevokedIsClosed

LEMMA CustomerKeeps ==
  ASSUME IInv,
         \/ ClaimOrder \/ BeginRestore \/ RestoreOrder \/ BeginReclaimRequest
         \/ BeginDownload \/ ServeDownload \/ CustomerLeaves
  PROVE  IInv'
<1>1. TypeOK /\ OrderFollowsAsset /\ RevokedIsClosed /\ CustomerSound
  BY DEF IInv
<1>2. Away \in [pc : {"away", "restore", "reclaim", "download", "served"},
                version : Versions] /\ Away.pc = "away"
  BY NumberFacts DEF Away
<1>3. CASE ClaimOrder
  <2>1. asset.version \in Generations
    BY <1>1, <1>3, NumberFacts DEF ClaimOrder, TypeOK, AssetRow
  <2>2. /\ UNCHANGED <<service, asset, attempt, task, latest, worker, card, customer>>
        /\ order' = asset.version /\ tokens' = tokens \cup {asset.version}
        /\ card = "active" /\ customer.pc \in {"away", "served"}
    BY <1>3 DEF ClaimOrder, CardFree
  <2>3. OrderFollowsAsset' /\ RevokedIsClosed' /\ CustomerSound'
    BY <2>2 DEF OrderFollowsAsset, RevokedIsClosed, CustomerSound
  <2> QED BY <1>1, <2>1, <2>2, <2>3, NumberFacts, AccessKeeps DEF TypeOK
<1>4. CASE BeginRestore
  BY <1>4, ReadKeeps DEF BeginRestore
<1>5. CASE RestoreOrder
  <2>1. customer.version \in Generations /\ card = "active"
    BY <1>1, <1>5, NumberFacts DEF RestoreOrder, CustomerSound, TypeOK
  <2>2. UNCHANGED <<service, asset, attempt, task, latest, worker, card, order>>
        /\ tokens' = tokens \cup {customer.version} /\ customer' = Away
    BY <1>5 DEF RestoreOrder
  <2>3. OrderFollowsAsset' /\ RevokedIsClosed' /\ CustomerSound'
    BY <1>1, <1>2, <2>1, <2>2 DEF OrderFollowsAsset, RevokedIsClosed, CustomerSound
  <2> QED BY <1>1, <1>2, <2>1, <2>2, <2>3, AccessKeeps DEF TypeOK
<1>6. CASE BeginReclaimRequest
  BY <1>6, ReadKeeps DEF BeginReclaimRequest
<1>7. CASE BeginDownload
  BY <1>7, ReadKeeps DEF BeginDownload
<1>8. CASE ServeDownload
  BY <1>1, <1>8, AccessKeeps
     DEF ServeDownload, TypeOK, OrderFollowsAsset, RevokedIsClosed, CustomerSound
<1>9. CASE CustomerLeaves
  BY <1>1, <1>2, <1>9, AccessKeeps
     DEF CustomerLeaves, TypeOK, OrderFollowsAsset, RevokedIsClosed, CustomerSound
<1> QED BY <1>3, <1>4, <1>5, <1>6, <1>7, <1>8, <1>9


-----------------------------------------------------------------------------
(* The invariant *)

LEMMA InitHolds ==
  ASSUME Init
  PROVE  IInv
<1>1. TypeOK
  <2>1. asset \in AssetRow
    BY NumberFacts DEF Init, AssetRow
  <2>2. attempt \in [Tasks -> AttemptRow]
    BY NumberFacts DEF Init, AttemptRow
  <2>3. task \in [Tasks -> TaskRow]
    BY RowFacts DEF Init
  <2>4. worker \in [Workers -> Work]
    BY RowFacts DEF Init
  <2>5. customer \in [pc : {"away", "restore", "reclaim", "download", "served"},
                      version : Versions]
    BY NumberFacts DEF Init, Away
  <2> QED BY <2>1, <2>2, <2>3, <2>4, <2>5, NumberFacts DEF Init, TypeOK
<1>2. ReclaimsHaveOrders
  BY RowFacts DEF Init, ReclaimsHaveOrders
<1>3. GenerateOver /\ OrderFollowsAsset /\ RunningIsCurrent
  BY DEF Init, GenerateOver, OrderFollowsAsset, RunningIsCurrent
<1>4. RevokedIsClosed /\ CustomerSound /\ EndedSettled
  BY DEF Init, RevokedIsClosed, CustomerSound, EndedSettled, Away
<1> QED BY <1>1, <1>2, <1>3, <1>4 DEF IInv

LEMMA WorkerKeeps ==
  ASSUME IInv, NEW w \in Workers, RunOnce(w) \/ Abandon(w)
  PROVE  IInv'
<1>1. TypeOK /\ ReclaimsHaveOrders
  BY DEF IInv
<1>2. ASSUME Abandon(w) PROVE IInv'
  BY <1>2, AbandonMoves, MovesQuiet, QuietKeeps
<1>3. CASE TickStep(w)
  BY <1>3, ClaimQuiet, ExhaustedQuiet, QuietKeeps DEF TickStep
<1>4. CASE CallStep(w)
  <2>1. CASE Reject(w)
    BY <2>1, RejectQuiet, QuietKeeps
  <2>2. CASE Resolve(w)
    BY <1>1, <2>2, ResolveMoves, MovesQuiet, QuietKeeps
  <2>3. CASE BeginDeliveryAttempt(w)
    BY <2>3, BeginKeeps
  <2>4. CASE \/ CreateDeliveryCredentials(w) \/ CheckDeliveryLiveness(w)
             \/ ProbeForReclaim(w) \/ RefreshDeliveryCredentials(w)
             \/ Relogin(w) \/ ConfirmRelogin(w)
    BY <1>1, <2>4, CallMoves, MovesQuiet, QuietKeeps
  <2> QED BY <1>4, <2>1, <2>2, <2>3, <2>4 DEF CallStep
<1>5. CASE FinishStep(w)
  <2>1. CASE RecordDeliveryLeaseLost(w)
    BY <2>1, LostQuiet, QuietKeeps
  <2>2. CASE FinishRefused(w)
    BY <1>2, <2>2 DEF FinishRefused
  <2>3. CASE FinishDeliveryAttempt(w)
    BY <2>3, FailedAttemptQuiet, GeneratedKeeps, QuietKeeps
  <2>4. CASE FinishDeliveryProbe(w)
    BY <2>4, FinishProbeQuiet, QuietKeeps
  <2>5. CASE PublishReclaim(w)
    BY <2>5, PublishedKeeps
  <2>6. CASE FinishReclaim(w)
    BY <2>6, FinishReclaimQuiet, QuietKeeps
  <2> QED BY <1>5, <2>1, <2>2, <2>3, <2>4, <2>5, <2>6 DEF FinishStep
<1>6. CASE LeaseLost(w)
  BY <1>2, <1>6 DEF LeaseLost
<1> QED BY <1>2, <1>3, <1>4, <1>5, <1>6 DEF RunOnce

LEMMA NextKeeps ==
  ASSUME IInv, [Next]_vars
  PROVE  IInv'
<1>1. CASE \E w \in Workers : RunOnce(w) \/ Abandon(w)
  BY <1>1, WorkerKeeps
<1>2. CASE OwnerStep
  BY <1>2, RequestsQuiet, QuietKeeps, CardKeeps, ServiceKeeps DEF OwnerStep
<1>3. CASE CustomerStep
  BY <1>3, RequestsQuiet, QuietKeeps, CustomerKeeps DEF CustomerStep
<1>4. CASE \E x \in Tasks : LeaseExpires(x)
  BY <1>4, ExpiryQuiet, QuietKeeps
<1>5. CASE \E v \in Generations : TokenExpires(v)
  BY <1>5, TokenExpiryKeeps
<1>6. CASE UNCHANGED vars
  BY <1>6 DEF vars, IInv, TypeOK, ReclaimsHaveOrders, GenerateOver, OrderFollowsAsset,
              RunningIsCurrent, RevokedIsClosed, CustomerSound, EndedSettled
<1> QED BY <1>1, <1>2, <1>3, <1>4, <1>5, <1>6 DEF Next

\* The inductive invariant holds in every state.
THEOREM DeliverySoundness == Spec => []IInv
<1>1. Init => IInv
  BY InitHolds
<1>2. IInv /\ [Next]_vars => IInv'
  BY NextKeeps
<1> QED BY <1>1, <1>2, PTL DEF Spec

\* Every row keeps to the values its CHECK constraints allow.
THEOREM DeliveryTypeCorrect == Spec => []TypeOK
<1>1. IInv => TypeOK
  BY DEF IInv
<1> QED BY <1>1, DeliverySoundness, PTL

\* oauth.go:596-612: a customer's order always names the version of the asset.
THEOREM OrderFollows == Spec => []OrderFollowsAsset
<1>1. IInv => OrderFollowsAsset
  BY DEF IInv
<1> QED BY <1>1, DeliverySoundness, PTL

\* oauth.go:487-498: an attempt that runs is the one the asset's fence names.
THEOREM RunningCurrent == Spec => []RunningIsCurrent
<1>1. IInv => RunningIsCurrent
  BY DEF IInv
<1> QED BY <1>1, DeliverySoundness, PTL

\* delivery_http.go:399-408: no access token survives the revocation of its card.
THEOREM RevokedClosed == Spec => []RevokedIsClosed
<1>1. IInv => RevokedIsClosed
  BY DEF IInv
<1> QED BY <1>1, DeliverySoundness, PTL

-----------------------------------------------------------------------------
(* What a step may never do *)

\* public_redeem_http.go:373-400: a download serves the version that the asset and
\* the order have at that moment, under an active card.
THEOREM DownloadCurrent == Spec => DownloadIsCurrent
<1>1. ASSUME IInv, [Next]_vars, customer.pc = "download", customer'.pc = "served"
      PROVE  card = "active" /\ customer.version = asset.version
             /\ customer.version = order
  <2>1. CASE ServeDownload
    BY <1>1, <2>1 DEF IInv, CustomerSound, ServeDownload, TokenUsable
  <2>2. ASSUME customer' = customer \/ customer' = Away PROVE FALSE
    BY <1>1, <2>2 DEF Away
  <2>3. ~CardFree
    BY <1>1 DEF CardFree
  <2>4. CASE \E w \in Workers : RunOnce(w) \/ Abandon(w)
    <3>1. PICK w \in Workers : RunOnce(w) \/ Abandon(w)
      BY <2>4
    <3>2. CallStep(w) => customer' = customer
      BY DEF CallStep, LocalStep, Reject, Resolve, BeginDeliveryAttempt,
                  CreateDeliveryCredentials, CheckDeliveryLiveness, ProbeForReclaim,
                  RefreshDeliveryCredentials, Relogin, ConfirmRelogin
    <3>3. FinishStep(w) => customer' = customer
      <4>1. RecordDeliveryLeaseLost(w) \/ FinishRefused(w) => customer' = customer
        BY DEF RecordDeliveryLeaseLost, FinishRefused, Abandon, LocalStep
      <4>2. FinishDeliveryAttempt(w) => customer' = customer
        BY DEF FinishDeliveryAttempt
      <4>3. FinishDeliveryProbe(w) => customer' = customer
        BY DEF FinishDeliveryProbe
      <4>4. PublishReclaim(w) => customer' = customer
        BY DEF PublishReclaim
      <4>5. FinishReclaim(w) => customer' = customer
        BY DEF FinishReclaim
      <4> QED BY <4>1, <4>2, <4>3, <4>4, <4>5 DEF FinishStep
    <3>4. TickStep(w) \/ LeaseLost(w) \/ Abandon(w) => customer' = customer
      BY DEF TickStep, LeaseLost, Abandon, LocalStep, SettleExhausted, ClaimTask
    <3>5. customer' = customer
      BY <3>1, <3>2, <3>3, <3>4 DEF RunOnce
    <3> QED BY <2>2, <3>5
  <2>5. CASE OwnerStep
    BY <2>2, <2>5 DEF OwnerStep, EnqueueDeliveryProbes, AuthorizeDeliveryReclaim,
                      ActivateMembershipCard, RevokeDeliveryCard, ServiceMoves, ServiceEnds
  <2>6. CASE CustomerStep /\ ~ServeDownload
    BY <2>2, <2>3, <2>6 DEF CustomerStep, CheckCredentialStatus, RequestReclaim, ClaimOrder,
                      BeginRestore, RestoreOrder, BeginReclaimRequest, BeginDownload,
                      CustomerReads, CustomerLeaves
  <2>7. CASE \E x \in Tasks : LeaseExpires(x)
    BY <2>2, <2>7 DEF LeaseExpires
  <2>8. CASE \E v \in Generations : TokenExpires(v)
    BY <2>2, <2>8 DEF TokenExpires
  <2>9. CASE UNCHANGED vars
    BY <2>2, <2>9 DEF vars
  <2> QED BY <1>1, <2>1, <2>4, <2>5, <2>6, <2>7, <2>8, <2>9 DEF Next
<1>2. IInv /\ [Next]_vars => (customer.pc = "download" /\ customer'.pc = "served" =>
        card = "active" /\ customer.version = asset.version /\ customer.version = order)
  BY <1>1
<1>3. IInv /\ [Next]_vars =>
        [customer.pc = "download" /\ customer'.pc = "served" =>
           /\ card = "active"
           /\ customer.version = asset.version
           /\ customer.version = order]_vars
  BY <1>2
<1> QED BY <1>3, DeliverySoundness, PTL DEF Spec, DownloadIsCurrent

\* removal.go:407-415: after the end of the service the delivery is never touched.
THEOREM EndedQuiet == Spec => EndedIsQuiet
<1>1. ASSUME IInv, [Next]_vars, service = "ended"
      PROVE  service' = "ended" /\ UNCHANGED <<asset, attempt, task, order>>
  <2>1. \A x \in Tasks : task[x].status \notin Unfinished /\ attempt[x].state # "running"
    BY <1>1 DEF IInv, EndedSettled
  <2>2. \A x \in Tasks : task[x].status \notin {"queued", "running", "retry_wait"}
    BY <2>1 DEF Unfinished
  <2>3. ~Active /\ ~Open
    BY <1>1 DEF Active, Open
  <2>4. CASE \E w \in Workers : RunOnce(w) \/ Abandon(w)
    <3>1. PICK w \in Workers : RunOnce(w) \/ Abandon(w)
      BY <2>4
    <3>2. CASE LocalStep
      BY <1>1, <3>2 DEF LocalStep
    <3>3. CASE TickStep(w)
      BY <2>2, <3>3 DEF TickStep, SettleExhausted, ClaimTask, Claimable
    <3>4. ~Fence(w)
      BY <2>3 DEF Fence
    <3>5. CASE Reject(w)
      BY <1>1, <3>5, JobFacts DEF Reject, At
    <3>6. CASE CallStep(w) /\ ~Reject(w)
      BY <3>2, <3>4, <3>6 DEF CallStep, Resolve, BeginDeliveryAttempt,
              CreateDeliveryCredentials, CheckDeliveryLiveness, ProbeForReclaim,
              RefreshDeliveryCredentials, Relogin, ConfirmRelogin
    <3>7. CASE RecordDeliveryLeaseLost(w)
      <4>1. Job(w) \in Tasks
        BY <1>1, <3>7, JobFacts DEF RecordDeliveryLeaseLost, At
      <4> QED BY <1>1, <2>1, <3>7, <4>1 DEF RecordDeliveryLeaseLost
    <3>8. CASE FinishStep(w) /\ ~RecordDeliveryLeaseLost(w)
      BY <3>2, <3>4, <3>8 DEF FinishStep, FinishRefused, Abandon, FinishDeliveryAttempt,
              FinishDeliveryProbe, PublishReclaim, FinishReclaim, ReclaimFence
    <3>9. CASE LeaseLost(w) \/ Abandon(w)
      BY <3>2, <3>9 DEF LeaseLost, Abandon
    <3> QED BY <3>1, <3>3, <3>5, <3>6, <3>7, <3>8, <3>9 DEF RunOnce
  <2>5. CASE OwnerStep
    BY <1>1, <2>3, <2>5 DEF OwnerStep, EnqueueDeliveryProbes, AuthorizeDeliveryReclaim,
                      ActivateMembershipCard, RevokeDeliveryCard, ServiceMoves, ServiceEnds
  <2>6. CASE CustomerStep
    BY <1>1, <2>3, <2>6 DEF CustomerStep, CheckCredentialStatus, RequestReclaim, ClaimOrder,
                      BeginRestore, RestoreOrder, BeginReclaimRequest, BeginDownload,
                      CustomerReads, ServeDownload, CustomerLeaves
  <2>7. CASE \E x \in Tasks : LeaseExpires(x)
    BY <2>2, <2>7 DEF LeaseExpires
  <2>8. CASE \E v \in Generations : TokenExpires(v)
    BY <1>1, <2>8 DEF TokenExpires
  <2>9. CASE UNCHANGED vars
    BY <1>1, <2>9 DEF vars
  <2> QED BY <1>1, <2>4, <2>5, <2>6, <2>7, <2>8, <2>9 DEF Next
<1>2. IInv /\ [Next]_vars =>
        [service = "ended" => /\ service' = "ended"
                              /\ UNCHANGED <<asset, attempt, task, order>>]_vars
  BY <1>1
<1> QED BY <1>2, DeliverySoundness, PTL DEF Spec, EndedIsQuiet
=============================================================================
