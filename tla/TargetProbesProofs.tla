------------------------- MODULE TargetProbesProofs -------------------------
(***************************************************************************)
(* Proofs about TargetProbes, for any number of accounts, keys, refreshes, *)
(* confirmations, workers, edits and attempts.                             *)
(*                                                                         *)
(* The argument: two refreshes of an account never hold the same attempt,  *)
(* and the one that holds the account's own finds it verifying, so that no *)
(* session is there (RefreshesSound); a task or an item that somebody may  *)
(* still claim has no verdict (LastAttemptDecides, ItemsOfBatch); a        *)
(* confirmation that is about to insert holds the rows it was shown        *)
(* (InsertsAsShown); a worker that measured names the session it used      *)
(* (MeasuredWithSession).                                                  *)
(***************************************************************************)
EXTENDS TargetProbes, TLAPS

\* A refresh under way holds an attempt of its account that is not a later one;
\* while it is the current one there is no session.
ReservedSound(f) ==
  LET t == refresh[f].target IN
  refresh[f].pc = "reserved" =>
    /\ t \in Targets
    /\ refresh[f].attempt \in 1 .. access[t].attempt
    /\ refresh[f].attempt = access[t].attempt =>
         access[t].status = "verifying" /\ access[t].revision = refresh[f].revision

RefreshesSound ==
  /\ \A f \in Refreshes : ReservedSound(f)
  /\ \A f, g \in Refreshes :
       /\ refresh[f].pc = "reserved" /\ refresh[g].pc = "reserved"
       /\ refresh[f].target = refresh[g].target
       /\ refresh[f].attempt = refresh[g].attempt
       => f = g

\* Without a batch there are no items.
ItemsOfBatch == ~batch.made => \A t \in Targets : item[t].status = "none"

\* The rows of an insertion are those of the token.
InsertsAsShown ==
  \A c \in Confirms : confirm[c].pc = "inserting" => confirm[c].rows = confirm[c].token

\* A busy worker works on an account, and on a task unless it measures.
WorkersNamed ==
  \A w \in Workers :
    /\ worker[w].pc # "idle" => worker[w].target \in Targets
    /\ worker[w].pc \in {"claimed", "probing", "rejecting"} => worker[w].key \in Keys

\* Evidence of a measurement names a session.
MeasuredWithSession ==
  \A w \in Workers :
    /\ worker[w].pc = "measuring" => worker[w].seen = NoEvidence
    /\ worker[w].pc = "measured" /\ worker[w].seen # NoEvidence
         => worker[w].seen.generation # NoRefresh

IInv ==
  /\ TypeOK
  /\ WorkersNamed
  /\ RefreshesSound
  /\ SessionIsCurrent
  /\ LastAttemptDecides
  /\ ItemsOfBatch
  /\ InsertsAsShown
  /\ AcceptedAsPreviewed
  /\ MeasuredWithSession

-----------------------------------------------------------------------------
(* Types *)

LEMMA RowFacts ==
  /\ NoSession \in Session /\ NoEvidence \in Evidence /\ NoRows \in Scope
  /\ Over \in Refresh /\ Idle \in Worker
  /\ Over.pc = "over" /\ Idle.pc = "idle"
BY DEF NoSession, Session, NoEvidence, Evidence, NoRows, Scope, Over, NoRefreshYet,
       Refresh, Idle, Worker

LEMMA ChangedType ==
  ASSUME NEW row \in Target, NEW change
  PROVE  Changed(change, row) \in Target
<1>1. row.version + 1 \in Nat \ {0} /\ row.revision + 1 \in Nat \ {0}
  BY DEF Target
<1> DEFINE new == [row EXCEPT !.version = @ + 1]
<1>2. new \in Target /\ new.revision = row.revision
  BY <1>1 DEF Target
<1>3. [new EXCEPT !.revision = @ + 1, !.tested = 0] \in Target
  BY <1>1, <1>2 DEF Target
<1>4. [new EXCEPT !.active = FALSE] \in Target /\ [new EXCEPT !.active = TRUE] \in Target
  BY <1>2 DEF Target
<1> HIDE DEF new
<1>5. \/ Changed(change, row) = [new EXCEPT !.revision = @ + 1, !.tested = 0]
      \/ Changed(change, row) = [new EXCEPT !.active = FALSE]
      \/ Changed(change, row) = [new EXCEPT !.active = TRUE]
      \/ Changed(change, row) = new
  BY DEF Changed, new
<1> QED BY <1>2, <1>3, <1>4, <1>5

LEMMA InvalidatedType ==
  ASSUME NEW a \in Access
  PROVE  Invalidated(a) \in Access
<1>1. a.attempt + 1 \in Nat
  BY DEF Access
<1>2. [a EXCEPT !.attempt = @ + 1, !.status = "other"] \in Access
  BY <1>1 DEF Access
<1> QED BY <1>2 DEF Invalidated

LEMMA CurrentScopeType ==
  ASSUME TypeOK PROVE CurrentScope \in Scope
BY DEF TypeOK, CurrentScope, Scope, Target

\* What a step writes into a row keeps it a row.
LEMMA RowTypes ==
  /\ \A row \in Target, n \in Nat : Probed(row, n) \in Target
  /\ \A row \in Task, s \in Terminal, n \in Nat : Ended(row, s, n) \in Task
  /\ \A row \in Task : [row EXCEPT !.status = "queued"] \in Task
  /\ \A row \in Task : [row EXCEPT !.lapsed = TRUE] \in Task
  /\ \A row \in Item : [row EXCEPT !.status = "queued"] \in Item
  /\ \A row \in Item : [row EXCEPT !.status = "canceled", !.old = FALSE] \in Item
  /\ \A row \in Item : [row EXCEPT !.old = TRUE] \in Item
  /\ \A row \in Access, s \in {"ready", "other"} : [row EXCEPT !.status = s] \in Access
<1>1. \A row \in Target, n \in Nat : Probed(row, n) \in Target
  BY DEF Probed, Target
<1>2. \A row \in Task, s \in Terminal, n \in Nat : Ended(row, s, n) \in Task
  BY DEF Ended, Task
<1>3. \A row \in Task : [row EXCEPT !.status = "queued"] \in Task
  BY DEF Task
<1>4. \A row \in Task : [row EXCEPT !.lapsed = TRUE] \in Task
  BY DEF Task
<1>5. \A row \in Item : [row EXCEPT !.status = "queued"] \in Item
  BY DEF Item
<1>6. \A row \in Item : [row EXCEPT !.status = "canceled", !.old = FALSE] \in Item
  BY DEF Item
<1>7. \A row \in Item : [row EXCEPT !.old = TRUE] \in Item
  BY DEF Item
<1>8. \A row \in Access, s \in {"ready", "other"} : [row EXCEPT !.status = s] \in Access
  BY DEF Access
<1> QED BY <1>1, <1>2, <1>3, <1>4, <1>5, <1>6, <1>7, <1>8

\* A table with a row replaced is a table.
LEMMA Replaced ==
  ASSUME NEW D, NEW R, NEW f \in [D -> R], NEW x, NEW v, x \in D => v \in R
  PROVE  [f EXCEPT ![x] = v] \in [D -> R]
OBVIOUS

LEMMA WorkerFields ==
  ASSUME TypeOK, NEW w \in Workers
  PROVE  /\ worker[w] \in Worker
         /\ worker[w].attempt \in Nat /\ worker[w].seen \in Evidence
         /\ worker[w].seen.revision \in Nat
BY DEF TypeOK, Worker, Evidence

LEMMA OwnerTypes ==
  ASSUME TypeOK, OwnerStep
  PROVE  TypeOK'
<1>1. CASE \E t \in Targets, change \in Changes : UpdateTargetAccount(t, change)
  BY <1>1, ChangedType, InvalidatedType, RowFacts DEF TypeOK, UpdateTargetAccount
<1>2. CASE \E rows \in SUBSET Targets : ImportTargetAccounts(rows)
  BY <1>2, ChangedType, InvalidatedType, RowFacts DEF TypeOK, ImportTargetAccounts
<1>3. CASE \E f \in Refreshes, t \in Targets : ReserveTargetRefresh(f, t)
  <2>1. PICK f \in Refreshes, t \in Targets : ReserveTargetRefresh(f, t)
    BY <1>3
  <2> DEFINE attempt == access[t].attempt + 1
  <2>2. attempt \in Nat /\ target[t].revision \in Nat
    BY DEF TypeOK, Access, Target
  <2> HIDE DEF attempt
  <2>3. [attempt |-> attempt, status |-> "verifying", revision |-> target[t].revision]
          \in Access
    BY <2>2 DEF Access
  <2>4. [pc |-> "reserved", target |-> t, revision |-> target[t].revision,
         attempt |-> attempt] \in Refresh
    BY <2>2 DEF Refresh
  <2>5. access' = [access EXCEPT ![t] =
          [attempt |-> attempt, status |-> "verifying", revision |-> target[t].revision]]
    BY <2>1 DEF ReserveTargetRefresh, attempt
  <2>6. refresh' = [refresh EXCEPT ![f] =
          [pc |-> "reserved", target |-> t, revision |-> target[t].revision,
           attempt |-> attempt]]
    BY <2>1 DEF ReserveTargetRefresh, attempt
  <2>7. access' \in [Targets -> Access]
    BY <2>3, <2>5 DEF TypeOK
  <2>8. refresh' \in [Refreshes -> Refresh]
    BY <2>4, <2>6 DEF TypeOK
  <2> QED BY <2>1, <2>7, <2>8, RowFacts DEF TypeOK, ReserveTargetRefresh
<1>4. CASE \E f \in Refreshes, status \in {"ready", "other"} : PublishRefresh(f, status)
  <2>1. PICK f \in Refreshes, status \in {"ready", "other"} : PublishRefresh(f, status)
    BY <1>4
  <2>2. refresh' \in [Refreshes -> Refresh]
    BY <2>1, RowFacts DEF TypeOK, PublishRefresh
  <2>3. access' \in [Targets -> Access]
    <3> DEFINE t == refresh[f].target
    <3>1. CASE access' = access
      BY <3>1 DEF TypeOK
    <3>2. CASE access' = [access EXCEPT ![t] = [access[t] EXCEPT !.status = status]]
      <4>1. t \in Targets => [access[t] EXCEPT !.status = status] \in Access
        BY RowTypes DEF TypeOK
      <4>2. access \in [Targets -> Access]
        BY DEF TypeOK
      <4> HIDE DEF t
      <4> QED BY <3>2, <4>1, <4>2, Replaced
    <3> QED BY <2>1, <3>1, <3>2 DEF PublishRefresh
  <2>4. [generation |-> f, revision |-> refresh[f].revision,
         attempt |-> refresh[f].attempt, expired |-> FALSE] \in Session
    BY DEF TypeOK, Refresh, Session
  <2>5. session' \in [Targets -> Session]
    BY <2>1, <2>4 DEF TypeOK, PublishRefresh
  <2> QED BY <2>1, <2>2, <2>3, <2>5 DEF TypeOK, PublishRefresh
<1>5. CASE \E f \in Refreshes : AbandonRefresh(f)
  BY <1>5, RowFacts DEF TypeOK, AbandonRefresh, account
<1>6. CASE \E k \in Keys : CreateTargetProbes(k)
  <2>1. PICK t \in Targets, k \in Keys : CreateTargetProbe(t, k)
    BY <1>6 DEF CreateTargetProbes
  <2> DEFINE x == <<t, k>>
  <2>2. x \in Targets \X Keys
    OBVIOUS
  <2>3. task' = [task EXCEPT ![x] = [task[x] EXCEPT !.status = "queued"]]
    BY <2>1 DEF CreateTargetProbe
  <2> HIDE DEF x
  <2>4. task' \in [Targets \X Keys -> Task]
    BY <2>2, <2>3, RowTypes DEF TypeOK
  <2> QED BY <2>1, <2>4 DEF TypeOK, CreateTargetProbe, account
<1>7. CASE \E c \in Confirms :
             PreviewPersonalProbes(c) \/ OpenPersonalBatch(c) \/ InsertPersonalBatch(c)
  <2>1. PICK c \in Confirms :
          PreviewPersonalProbes(c) \/ OpenPersonalBatch(c) \/ InsertPersonalBatch(c)
    BY <1>7
  <2> DEFINE pcs == {"new", "previewed", "inserting", "accepted", "refused"}
  <2>2. ReplayPersonalBatch(c) \in pcs
    BY DEF ReplayPersonalBatch
  <2>3. \A row \in Confirm, pc \in pcs, rows \in Scope :
          /\ [row EXCEPT !.pc = pc] \in Confirm
          /\ [row EXCEPT !.pc = pc, !.token = rows] \in Confirm
          /\ [row EXCEPT !.pc = pc, !.rows = rows] \in Confirm
    BY DEF Confirm
  <2>4. CASE PreviewPersonalProbes(c)
    <3>1. confirm' = [confirm EXCEPT ![c] =
            [confirm[c] EXCEPT !.pc = "previewed", !.token = CurrentScope]]
      BY <2>4 DEF PreviewPersonalProbes, TypeOK, Confirm
    <3>2. confirm' \in [Confirms -> Confirm]
      BY <2>3, <3>1, CurrentScopeType DEF TypeOK
    <3> QED BY <2>4, <3>2 DEF TypeOK, PreviewPersonalProbes, account
  <2>5. CASE OpenPersonalBatch(c)
    <3> DEFINE pc == IF batch.made THEN ReplayPersonalBatch(c)
                     ELSE IF ScopeConfirmed(c) THEN "inserting" ELSE "refused"
    <3>1. pc \in pcs
      BY <2>2
    <3>2. confirm' = [confirm EXCEPT ![c] =
            [confirm[c] EXCEPT !.pc = pc, !.rows = CurrentScope]]
      BY <2>5 DEF OpenPersonalBatch, TypeOK, Confirm
    <3> HIDE DEF pc
    <3>3. confirm' \in [Confirms -> Confirm]
      BY <2>3, <3>1, <3>2, CurrentScopeType DEF TypeOK
    <3> QED BY <2>5, <3>3 DEF TypeOK, OpenPersonalBatch, account
  <2>6. CASE InsertPersonalBatch(c)
    <3>0. PICK pc \in pcs : confirm' = [confirm EXCEPT ![c] = [confirm[c] EXCEPT !.pc = pc]]
      BY <2>2, <2>6 DEF InsertPersonalBatch
    <3>4. confirm[c] \in Confirm /\ confirm[c].rows \in Scope
      BY DEF TypeOK, Confirm
    <3>1. confirm' \in [Confirms -> Confirm]
      BY <2>3, <3>0, <3>4 DEF TypeOK
    <3>2. item' \in [Targets -> Item]
      <4>1. \A t \in Targets : item[t] \in Item /\ [item[t] EXCEPT !.status = "queued"] \in Item
        BY RowTypes DEF TypeOK
      <4>2. item' = item \/ item' = [t \in Targets |-> [item[t] EXCEPT !.status = "queued"]]
        BY <2>6 DEF InsertPersonalBatch
      <4> QED BY <4>1, <4>2 DEF TypeOK
    <3>3. batch' \in Batch
      BY <2>6 DEF TypeOK, InsertPersonalBatch, Batch, Confirm
    <3> QED BY <2>6, <3>1, <3>2, <3>3 DEF TypeOK, InsertPersonalBatch, account
  <2> QED BY <2>1, <2>4, <2>5, <2>6
<1>8. CASE CancelPersonalProbes
  <2>1. item' \in [Targets -> Item]
    BY <1>8, RowTypes DEF TypeOK, CancelPersonalProbes
  <2>2. batch' \in Batch
    BY <1>8 DEF TypeOK, CancelPersonalProbes, Batch
  <2> QED BY <1>8, <2>1, <2>2 DEF TypeOK, CancelPersonalProbes, account
<1> QED BY <1>1, <1>2, <1>3, <1>4, <1>5, <1>6, <1>7, <1>8 DEF OwnerStep

LEMMA WorkerTypes ==
  ASSUME TypeOK, WorkersNamed, NEW w \in Workers, WorkerStep(w)
  PROVE  TypeOK'
<1>0. worker[w] \in Worker /\ worker[w].attempt \in Nat /\ worker[w].seen \in Evidence
      /\ worker[w].seen.revision \in Nat
  BY WorkerFields
<1>9. {"succeeded", "failed"} \subseteq Terminal
  BY DEF Terminal
<1>1. ASSUME NEW t \in Targets, NEW k \in Keys, NEW pc \in {"claimed", "rejecting"},
             Claim(w, t, k, pc)
      PROVE  TypeOK'
  <2> DEFINE x == <<t, k>>
  <2>1. x \in Targets \X Keys /\ task[x] \in Task /\ task[x].attempts + 1 \in Nat
    BY DEF TypeOK, Task
  <2> HIDE DEF x
  <2>2. task' = [task EXCEPT ![x] = [task[x] EXCEPT !.status = "running", !.lapsed = FALSE,
                                                    !.attempts = task[x].attempts + 1]]
    BY <1>1, <2>1 DEF Claim, TypeOK, Task, x
  <2>3. [task[x] EXCEPT !.status = "running", !.lapsed = FALSE,
                        !.attempts = task[x].attempts + 1] \in Task
    BY <2>1 DEF Task
  <2>4. task' \in [Targets \X Keys -> Task]
    BY <2>1, <2>2, <2>3 DEF TypeOK
  <2>5. [pc |-> pc, target |-> t, key |-> k, attempt |-> task[x].attempts + 1,
         seen |-> NoEvidence] \in Worker
    BY <2>1, RowFacts DEF Worker
  <2>6. worker' \in [Workers -> Worker]
    BY <1>1, <2>5 DEF Claim, TypeOK, x
  <2> QED BY <1>1, <2>4, <2>6 DEF Claim, TypeOK, account
<1>2. CASE TargetProbeTarget(w)
  <2> DEFINE revision == target[worker[w].target].revision
             rejected == [worker[w] EXCEPT !.pc = "rejecting"]
             probing == [worker[w] EXCEPT !.pc = "probing", !.seen.revision = revision]
  <2>1. revision \in Nat
    BY <1>2 DEF TargetProbeTarget, WorkersNamed, TypeOK, Target
  <2>2. worker \in [Workers -> Worker]
    BY DEF TypeOK
  <2>3. rejected \in Worker
    BY <1>0 DEF Worker
  <2>4. [worker[w].seen EXCEPT !.revision = revision] \in Evidence
    BY <1>0, <2>1 DEF Evidence
  <2>5. probing \in Worker
    BY <1>0, <2>4 DEF Worker
  <2>6. \/ worker' = [worker EXCEPT ![w].pc = "rejecting"]
        \/ worker' = [worker EXCEPT ![w].pc = "probing", ![w].seen.revision = revision]
    BY <1>2 DEF TargetProbeTarget
  <2>7. worker' = [worker EXCEPT ![w] = rejected] \/ worker' = [worker EXCEPT ![w] = probing]
    BY <2>2, <2>6 DEF Worker, Evidence
  <2> HIDE DEF rejected, probing
  <2>8. worker' \in [Workers -> Worker]
    BY <2>2, <2>3, <2>5, <2>7, Replaced
  <2> QED BY <1>2, <2>8 DEF TypeOK, TargetProbeTarget, account
<1>3. CASE CompleteTargetProbe(w)
  <2> DEFINE t == worker[w].target
             x == <<t, worker[w].key>>
  <2>3. target' = target \/ \E n \in Nat : target' = [target EXCEPT ![t] = Probed(target[t], n)]
    BY <1>0, <1>3 DEF CompleteTargetProbe
  <2>4. task' = task \/ \E s \in Terminal :
          task' = [task EXCEPT ![x] = Ended(task[x], s, worker[w].attempt)]
    BY <1>9, <1>3 DEF CompleteTargetProbe
  <2>5. target \in [Targets -> Target] /\ task \in [Targets \X Keys -> Task]
    BY DEF TypeOK
  <2>6. \A n \in Nat : t \in Targets => Probed(target[t], n) \in Target
    BY <2>5, RowTypes
  <2>7. \A s \in Terminal :
          x \in Targets \X Keys => Ended(task[x], s, worker[w].attempt) \in Task
    <3> HIDE DEF x
    <3> QED BY <1>0, <2>5, RowTypes
  <2>8. x \in Targets \X Keys
    BY <1>3 DEF WorkersNamed, CompleteTargetProbe
  <2> HIDE DEF t, x
  <2>1. target' \in [Targets -> Target]
    BY <2>3, <2>5, <2>6, Replaced
  <2>2. task' \in [Targets \X Keys -> Task]
    <3> DEFINE D == Targets \X Keys
    <3>1. task \in [D -> Task] /\ x \in D
      BY <2>5, <2>8
    <3> HIDE DEF D
    <3>2. \A s \in Terminal : Ended(task[x], s, worker[w].attempt) \in Task
      BY <2>7, <2>8
    <3>3. task' \in [D -> Task]
      BY <2>4, <3>1, <3>2
    <3> QED BY <3>3 DEF D
  <2> QED BY <1>3, <2>1, <2>2, RowFacts DEF TypeOK, CompleteTargetProbe
<1>4. CASE RejectTargetProbe(w)
  <2> DEFINE t == worker[w].target
             x == <<t, worker[w].key>>
  <2>3. target' = target \/ \E n \in Nat : target' = [target EXCEPT ![t] = Probed(target[t], n)]
    BY <1>0, <1>4 DEF RejectTargetProbe
  <2>4. task' = task \/ \E s \in Terminal :
          task' = [task EXCEPT ![x] = Ended(task[x], s, worker[w].attempt)]
    BY <1>9, <1>4 DEF RejectTargetProbe
  <2>5. target \in [Targets -> Target] /\ task \in [Targets \X Keys -> Task]
    BY DEF TypeOK
  <2>6. \A n \in Nat : t \in Targets => Probed(target[t], n) \in Target
    BY <2>5, RowTypes
  <2>7. \A s \in Terminal :
          x \in Targets \X Keys => Ended(task[x], s, worker[w].attempt) \in Task
    <3> HIDE DEF x
    <3> QED BY <1>0, <2>5, RowTypes
  <2>8. x \in Targets \X Keys
    BY <1>4 DEF WorkersNamed, RejectTargetProbe
  <2> HIDE DEF t, x
  <2>1. target' \in [Targets -> Target]
    BY <2>3, <2>5, <2>6, Replaced
  <2>2. task' \in [Targets \X Keys -> Task]
    <3> DEFINE D == Targets \X Keys
    <3>1. task \in [D -> Task] /\ x \in D
      BY <2>5, <2>8
    <3> HIDE DEF D
    <3>2. \A s \in Terminal : Ended(task[x], s, worker[w].attempt) \in Task
      BY <2>7, <2>8
    <3>3. task' \in [D -> Task]
      BY <2>4, <3>1, <3>2
    <3> QED BY <3>3 DEF D
  <2> QED BY <1>4, <2>1, <2>2, RowFacts DEF TypeOK, RejectTargetProbe
<1>5. ASSUME NEW t \in Targets, ClaimPersonalItem(w, t)
      PROVE  TypeOK'
  <2>1. item[t] \in Item /\ item[t].attempts + 1 \in Nat
    BY DEF TypeOK, Item
  <2>2. item' = [item EXCEPT ![t] = [item[t] EXCEPT !.status = "running", !.old = FALSE,
                                                    !.attempts = item[t].attempts + 1]]
    BY <1>5 DEF ClaimPersonalItem, TypeOK, Item
  <2>3. [item[t] EXCEPT !.status = "running", !.old = FALSE,
                        !.attempts = item[t].attempts + 1] \in Item
    BY <2>1 DEF Item
  <2>4. item' \in [Targets -> Item]
    BY <2>2, <2>3 DEF TypeOK
  <2>5. [pc |-> "measuring", target |-> t, key |-> NoKey,
         attempt |-> item[t].attempts + 1, seen |-> NoEvidence] \in Worker
    BY <2>1, RowFacts DEF Worker
  <2>6. worker' \in [Workers -> Worker]
    BY <1>5, <2>5 DEF ClaimPersonalItem, TypeOK
  <2> QED BY <1>5, <2>4, <2>6 DEF ClaimPersonalItem, TypeOK, account
<1>6. CASE ProbePersonal(w)
  <2>1. worker[w].target \in Targets =>
          [generation |-> session[worker[w].target].generation,
           revision |-> target[worker[w].target].revision] \in Evidence
    BY DEF TypeOK, Session, Target, Evidence
  <2>2. worker[w].target \notin Targets => worker[w].target = NoTarget
    BY <1>0 DEF Worker
  <2> DEFINE t == worker[w].target
             read == [generation |-> session[t].generation, revision |-> target[t].revision]
             moved == [worker[w] EXCEPT !.pc = "measured"]
  <2>3. moved \in Worker
    BY <1>0 DEF Worker
  <2>4. t \in Targets => [moved EXCEPT !.seen = read] \in Worker
    <3>1. t \in Targets => read \in Evidence
      BY <2>1
    <3> HIDE DEF moved, read, t
    <3> QED BY <2>3, <3>1 DEF Worker
  <2>5. \/ t \in Targets /\ worker' = [worker EXCEPT ![w] = [moved EXCEPT !.seen = read]]
        \/ worker' = [worker EXCEPT ![w] = moved]
    BY <1>0, <1>6 DEF ProbePersonal, SavedSession, Worker
  <2>6. worker' \in [Workers -> Worker]
    <3> HIDE DEF moved, read, t
    <3> QED BY <2>3, <2>4, <2>5 DEF TypeOK
  <2> QED BY <1>6, <2>6 DEF TypeOK, ProbePersonal, account
<1>7. ASSUME NEW verdict \in Verdicts, PublishPersonalItem(w, verdict)
      PROVE  TypeOK'
  <2>1. \A row \in Item : [row EXCEPT !.status = verdict, !.old = FALSE,
                                      !.by = worker[w].attempt] \in Item
    BY <1>0 DEF Item, Verdicts
  <2>2. item' \in [Targets -> Item]
    <3> DEFINE t == worker[w].target
               row == [item[t] EXCEPT !.status = verdict, !.old = FALSE,
                                      !.by = worker[w].attempt]
    <3>1. item' = item \/ item' = [item EXCEPT ![t].status = verdict, ![t].old = FALSE,
                                               ![t].by = worker[w].attempt]
      BY <1>7 DEF PublishPersonalItem
    <3>2. item \in [Targets -> Item]
      BY DEF TypeOK
    <3>3. item' = item \/ item' = [item EXCEPT ![t] = row]
      BY <3>1, <3>2 DEF Item
    <3>4. t \in Targets => row \in Item
      BY <2>1, <3>2
    <3> HIDE DEF t, row
    <3> QED BY <3>2, <3>3, <3>4, Replaced
  <2> QED BY <1>7, <2>2, RowFacts DEF PublishPersonalItem, TypeOK, account
<1>8. CASE WorkerStops(w)
  BY <1>8, RowFacts DEF TypeOK, WorkerStops, account
<1> QED
  BY <1>1, <1>2, <1>3, <1>4, <1>5, <1>6, <1>7, <1>8
     DEF WorkerStep, ClaimTargetProbe, ClaimRejectedTargetProbe

LEMMA OtherTypes ==
  ASSUME TypeOK,
         \/ \E t \in Targets, k \in Keys : SettleExhausted(t, k) \/ LeaseExpires(t, k)
         \/ \E t \in Targets : SessionExpires(t) \/ ItemAges(t)
  PROVE  TypeOK'
<1>1. ASSUME NEW t \in Targets, NEW k \in Keys, SettleExhausted(t, k) \/ LeaseExpires(t, k)
      PROVE  TypeOK'
  <2> DEFINE x == <<t, k>>
             D == Targets \X Keys
  <2>1. x \in D /\ task \in [D -> Task]
    BY DEF TypeOK
  <2>2. CASE SettleExhausted(t, k)
    <3>1. task' = [task EXCEPT ![x] = Ended(task[x], "interrupted", task[x].attempts)]
          /\ target' = [target EXCEPT ![t] = Probed(target[t], 0)]
      BY <2>2 DEF SettleExhausted
    <3> HIDE DEF x, D
    <3>2. task[x].attempts \in Nat /\ "interrupted" \in Terminal
      BY <2>1 DEF Task, Terminal
    <3>3. task' \in [D -> Task]
      BY <2>1, <3>1, <3>2, RowTypes
    <3>4. target' \in [Targets -> Target]
      BY <3>1, RowTypes DEF TypeOK
    <3> QED BY <2>2, <3>3, <3>4 DEF SettleExhausted, TypeOK, D
  <2>3. CASE LeaseExpires(t, k)
    <3>1. task' = [task EXCEPT ![x] = [task[x] EXCEPT !.lapsed = TRUE]]
      BY <2>3 DEF LeaseExpires
    <3> HIDE DEF x, D
    <3>2. task' \in [D -> Task]
      BY <2>1, <3>1, RowTypes
    <3> QED BY <2>3, <3>2 DEF LeaseExpires, TypeOK, D, account
  <2> QED BY <1>1, <2>2, <2>3
<1>2. ASSUME NEW t \in Targets, SessionExpires(t)
      PROVE  TypeOK'
  <2>1. [session[t] EXCEPT !.expired = TRUE] \in Session
    BY DEF TypeOK, Session
  <2>2. session' = [session EXCEPT ![t] = [session[t] EXCEPT !.expired = TRUE]]
    BY <1>2 DEF SessionExpires
  <2> QED BY <1>2, <2>1, <2>2 DEF SessionExpires, TypeOK
<1>3. ASSUME NEW t \in Targets, ItemAges(t)
      PROVE  TypeOK'
  <2>1. item' = [item EXCEPT ![t] = [item[t] EXCEPT !.old = TRUE]]
    BY <1>3 DEF ItemAges
  <2>2. item' \in [Targets -> Item]
    BY <2>1, RowTypes DEF TypeOK
  <2> QED BY <1>3, <2>2 DEF ItemAges, TypeOK, account
<1> QED BY <1>1, <1>2, <1>3

LEMMA NextTypes ==
  ASSUME TypeOK, WorkersNamed, [Next]_vars
  PROVE  TypeOK'
<1>1. CASE UNCHANGED vars
  BY <1>1 DEF TypeOK, vars
<1> QED BY <1>1, OwnerTypes, WorkerTypes, OtherTypes DEF Next

\* A worker changes alone.
LEMMA OneWorker ==
  ASSUME [Next]_vars
  PROVE  \/ UNCHANGED worker
         \/ \E w \in Workers : WorkerStep(w)
BY DEF Next, vars, OwnerStep, UpdateTargetAccount, ImportTargetAccounts,
       ReserveTargetRefresh, PublishRefresh, AbandonRefresh, CreateTargetProbes,
       CreateTargetProbe, PreviewPersonalProbes, OpenPersonalBatch, InsertPersonalBatch,
       CancelPersonalProbes, SettleExhausted, LeaseExpires, SessionExpires, ItemAges

LEMMA NextWorkersNamed ==
  ASSUME TypeOK, WorkersNamed, MeasuredWithSession, [Next]_vars
  PROVE  WorkersNamed' /\ MeasuredWithSession'
<1>1. CASE UNCHANGED worker
  BY <1>1 DEF WorkersNamed, MeasuredWithSession
<1>2. ASSUME NEW w \in Workers, WorkerStep(w)
      PROVE  WorkersNamed' /\ MeasuredWithSession'
  <2>0. worker \in [Workers -> Worker]
    BY DEF TypeOK
  <2>9. \A v \in Workers : v # w => worker'[v] = worker[v]
    <3> SUFFICES ASSUME NEW v \in Workers, v # w PROVE worker'[v] = worker[v]
      OBVIOUS
    <3>1. ASSUME NEW t \in Targets, NEW k \in Keys,
                 ClaimTargetProbe(w, t, k) \/ ClaimRejectedTargetProbe(w, t, k)
          PROVE  worker'[v] = worker[v]
      BY <2>0, <3>1 DEF ClaimTargetProbe, ClaimRejectedTargetProbe, Claim
    <3>2. TargetProbeTarget(w) \/ CompleteTargetProbe(w) \/ RejectTargetProbe(w)
            => worker'[v] = worker[v]
      BY <2>0 DEF TargetProbeTarget, CompleteTargetProbe, RejectTargetProbe
    <3>3. ProbePersonal(w) \/ WorkerStops(w) => worker'[v] = worker[v]
      BY <2>0 DEF ProbePersonal, WorkerStops
    <3>4. ASSUME NEW t \in Targets, ClaimPersonalItem(w, t) PROVE worker'[v] = worker[v]
      BY <2>0, <3>4 DEF ClaimPersonalItem
    <3>5. ASSUME NEW verdict \in Verdicts, PublishPersonalItem(w, verdict)
          PROVE  worker'[v] = worker[v]
      BY <2>0, <3>5 DEF PublishPersonalItem
    <3> QED BY <1>2, <3>1, <3>2, <3>3, <3>4, <3>5 DEF WorkerStep
  <2> DEFINE Fine(row) ==
        /\ row.pc # "idle" => row.target \in Targets
        /\ row.pc \in {"claimed", "probing", "rejecting"} => row.key \in Keys
        /\ row.pc = "measuring" => row.seen = NoEvidence
        /\ row.pc = "measured" /\ row.seen # NoEvidence => row.seen.generation # NoRefresh
  <2>1. ASSUME NEW t \in Targets, NEW k \in Keys, NEW pc \in {"claimed", "rejecting"},
               Claim(w, t, k, pc)
        PROVE  Fine(worker'[w])
    BY <2>0, <2>1 DEF Claim
  <2>2. ASSUME TargetProbeTarget(w)
        PROVE  Fine(worker'[w])
    <3>1. worker[w].target \in Targets /\ worker[w].key \in Keys
      BY <2>2 DEF TargetProbeTarget, WorkersNamed
    <3>2. /\ worker'[w].target = worker[w].target /\ worker'[w].key = worker[w].key
          /\ worker'[w].pc \in {"probing", "rejecting"}
      BY <2>0, <2>2 DEF TargetProbeTarget, Worker
    <3> QED BY <3>1, <3>2
  <2>3. ASSUME \/ CompleteTargetProbe(w) \/ RejectTargetProbe(w) \/ WorkerStops(w)
               \/ \E verdict \in Verdicts : PublishPersonalItem(w, verdict)
        PROVE  Fine(worker'[w])
    <3>1. worker'[w] = Idle
      BY <2>0, <2>3 DEF CompleteTargetProbe, RejectTargetProbe, WorkerStops,
         PublishPersonalItem
    <3> QED BY <3>1, RowFacts
  <2>4. ASSUME NEW t \in Targets, ClaimPersonalItem(w, t)
        PROVE  Fine(worker'[w])
    BY <2>0, <2>4 DEF ClaimPersonalItem
  <2>5. ASSUME ProbePersonal(w)
        PROVE  Fine(worker'[w])
    <3> DEFINE t == worker[w].target
    <3>1. t \in Targets /\ worker[w].seen = NoEvidence /\ worker[w].pc = "measuring"
      BY <2>5 DEF ProbePersonal, WorkersNamed, MeasuredWithSession
    <3>2. CASE worker' = [worker EXCEPT ![w].pc = "measured"]
      <4>1. worker'[w].pc = "measured" /\ worker'[w].target = t
            /\ worker'[w].seen = NoEvidence
        BY <2>0, <3>1, <3>2 DEF Worker
      <4> QED BY <3>1, <4>1
    <3>3. CASE /\ SavedSession(t)
               /\ worker' = [worker EXCEPT ![w].pc = "measured",
                    ![w].seen = [generation |-> session[t].generation,
                                 revision |-> target[t].revision]]
      <4>1. worker'[w].pc = "measured" /\ worker'[w].target = t
            /\ worker'[w].seen.generation = session[t].generation
        BY <2>0, <3>1, <3>3 DEF Worker
      <4>2. session[t].generation # NoRefresh
        BY <3>3 DEF SavedSession
      <4> QED BY <3>1, <4>1, <4>2
    <3> QED BY <2>5, <3>2, <3>3 DEF ProbePersonal
  <2>6. Fine(worker'[w])
    BY <1>2, <2>1, <2>2, <2>3, <2>4, <2>5
       DEF WorkerStep, ClaimTargetProbe, ClaimRejectedTargetProbe
  <2> QED BY <2>6, <2>9 DEF WorkersNamed, MeasuredWithSession
<1> QED BY <1>1, <1>2, OneWorker

-----------------------------------------------------------------------------
(* Sessions and the refreshes that open them *)

\* An account may be put into use, and a session may expire.
LEMMA KeptSessions ==
  ASSUME RefreshesSound, SessionIsCurrent, access' = access, refresh' = refresh,
         \A t \in Targets :
           /\ target[t].active => target'[t].active
           /\ target'[t].revision = target[t].revision
           /\ session'[t].generation = session[t].generation
           /\ session'[t].revision = session[t].revision
           /\ session'[t].attempt = session[t].attempt
  PROVE  RefreshesSound' /\ SessionIsCurrent'
<1>1. RefreshesSound'
  BY DEF RefreshesSound, ReservedSound
<1>2. SessionIsCurrent'
  BY DEF SessionIsCurrent
<1> QED BY <1>1, <1>2

\* Edited accounts lose their sessions, and their refreshes hold earlier attempts.
LEMMA EditedSessions ==
  ASSUME TypeOK, RefreshesSound, SessionIsCurrent, NEW rows \in SUBSET Targets,
         refresh' = refresh,
         \A t \in rows : access'[t] = Invalidated(access[t]) /\ session'[t] = NoSession,
         \A t \in Targets \ rows :
           target'[t] = target[t] /\ access'[t] = access[t] /\ session'[t] = session[t]
  PROVE  RefreshesSound' /\ SessionIsCurrent'
<1>1. \A t \in Targets : access[t].attempt \in Nat
  BY DEF TypeOK, Access
<1>2. \A t \in rows :
        access[t].attempt # 0 => access'[t].attempt = access[t].attempt + 1
  <2>1. \A a \in Access : a.attempt # 0 => Invalidated(a).attempt = a.attempt + 1
    BY DEF Invalidated, Access
  <2>2. \A t \in Targets : access[t] \in Access
    BY DEF TypeOK
  <2> QED BY <2>1, <2>2
<1>3. ASSUME NEW f \in Refreshes PROVE ReservedSound(f)'
  <2> DEFINE t == refresh[f].target
  <2>1. ReservedSound(f)
    BY DEF RefreshesSound
  <2>2. CASE t \in rows
    BY <1>1, <1>2, <2>1, <2>2 DEF ReservedSound
  <2>3. CASE t \notin rows
    BY <2>1, <2>3 DEF ReservedSound
  <2> QED BY <2>2, <2>3
<1>4. RefreshesSound'
  BY <1>3 DEF RefreshesSound
<1>5. SessionIsCurrent'
  <2>1. NoSession.generation = NoRefresh
    BY DEF NoSession
  <2> QED BY <2>1 DEF SessionIsCurrent
<1> QED BY <1>4, <1>5

\* What an update that fires no trigger leaves of an account.
LEMMA ChangedKeeps ==
  ASSUME NEW row \in Target, NEW change \in Changes,
         ~(change \in {"secrets", "subject"} \/ (change = "disable" /\ row.active))
  PROVE  /\ row.active => Changed(change, row).active
         /\ Changed(change, row).revision = row.revision
<1>1. CASE change = "label"
  BY <1>1 DEF Changed, Target
<1>2. CASE change = "enable"
  BY <1>2 DEF Changed, Target
<1>3. CASE change = "disable" /\ ~row.active
  BY <1>3 DEF Changed, Target
<1> QED BY <1>1, <1>2, <1>3 DEF Changes

LEMMA UpdateSessions ==
  ASSUME TypeOK, RefreshesSound, SessionIsCurrent,
         NEW t \in Targets, NEW change \in Changes, UpdateTargetAccount(t, change)
  PROVE  RefreshesSound' /\ SessionIsCurrent'
<1>0. /\ target \in [Targets -> Target] /\ access \in [Targets -> Access]
      /\ session \in [Targets -> Session]
  BY DEF TypeOK
<1>1. CASE Invalidates(change, t)
  <2>1. access' = [access EXCEPT ![t] = Invalidated(access[t])]
        /\ session' = [session EXCEPT ![t] = NoSession]
        /\ target' = [target EXCEPT ![t] = Changed(change, target[t])]
        /\ refresh' = refresh
    BY <1>1 DEF UpdateTargetAccount
  <2> DEFINE rows == {t}
  <2>2. \A u \in rows : access'[u] = Invalidated(access[u]) /\ session'[u] = NoSession
    BY <1>0, <2>1
  <2>3. \A u \in Targets \ rows :
          target'[u] = target[u] /\ access'[u] = access[u] /\ session'[u] = session[u]
    BY <1>0, <2>1
  <2>4. rows \in SUBSET Targets
    OBVIOUS
  <2> HIDE DEF rows
  <2> QED BY <2>1, <2>2, <2>3, <2>4, EditedSessions
<1>2. CASE ~Invalidates(change, t)
  <2>1. /\ target' = [target EXCEPT ![t] = Changed(change, target[t])]
        /\ access' = access /\ session' = session /\ refresh' = refresh
    BY <1>2 DEF UpdateTargetAccount
  <2>2. /\ target[t].active => Changed(change, target[t]).active
        /\ Changed(change, target[t]).revision = target[t].revision
    BY <1>0, <1>2, ChangedKeeps DEF Invalidates
  <2>3. \A u \in Targets : /\ target[u].active => target'[u].active
                           /\ target'[u].revision = target[u].revision
    BY <1>0, <2>1, <2>2
  <2> QED BY <2>1, <2>3, KeptSessions
<1> QED BY <1>1, <1>2

LEMMA ImportSessions ==
  ASSUME TypeOK, RefreshesSound, SessionIsCurrent,
         NEW rows \in SUBSET Targets, ImportTargetAccounts(rows)
  PROVE  RefreshesSound' /\ SessionIsCurrent'
<1>1. \A t \in rows : access'[t] = Invalidated(access[t]) /\ session'[t] = NoSession
  BY DEF ImportTargetAccounts
<1>2. \A t \in Targets \ rows :
        target'[t] = target[t] /\ access'[t] = access[t] /\ session'[t] = session[t]
  BY DEF ImportTargetAccounts
<1>3. refresh' = refresh
  BY DEF ImportTargetAccounts
<1> QED BY <1>1, <1>2, <1>3, EditedSessions

LEMMA ReserveSessions ==
  ASSUME TypeOK, RefreshesSound, SessionIsCurrent,
         NEW f \in Refreshes, NEW t \in Targets, ReserveTargetRefresh(f, t)
  PROVE  RefreshesSound' /\ SessionIsCurrent'
<1> DEFINE attempt == access[t].attempt + 1
<1>1. access[t].attempt \in Nat /\ attempt \in Nat /\ attempt # access[t].attempt
  BY DEF TypeOK, Access
<1>2. /\ access' = [access EXCEPT ![t] = [attempt |-> attempt, status |-> "verifying",
                                         revision |-> target[t].revision]]
      /\ refresh' = [refresh EXCEPT ![f] = [pc |-> "reserved", target |-> t,
                                           revision |-> target[t].revision,
                                           attempt |-> attempt]]
      /\ session' = [session EXCEPT ![t] = NoSession]
      /\ target' = target
  BY DEF ReserveTargetRefresh
<1>3. /\ access'[t].attempt = attempt /\ access'[t].status = "verifying"
      /\ access'[t].revision = target[t].revision
      /\ \A u \in Targets \ {t} : access'[u] = access[u] /\ session'[u] = session[u]
      /\ session'[t].generation = NoRefresh
  BY <1>2 DEF TypeOK, NoSession
<1>4. /\ refresh'[f].pc = "reserved" /\ refresh'[f].target = t
      /\ refresh'[f].revision = target[t].revision /\ refresh'[f].attempt = attempt
      /\ \A g \in Refreshes \ {f} : refresh'[g] = refresh[g]
  BY <1>2 DEF TypeOK
<1>5. \A g \in Refreshes : refresh[g].pc = "reserved" /\ refresh[g].target = t =>
        refresh[g].attempt # attempt /\ refresh[g].attempt \in 1 .. attempt
  BY <1>1 DEF RefreshesSound, ReservedSound
<1>6. ReservedSound(f)'
  BY <1>1, <1>3, <1>4 DEF ReservedSound
<1>7. ASSUME NEW g \in Refreshes \ {f} PROVE ReservedSound(g)'
  <2>1. ReservedSound(g) /\ refresh'[g] = refresh[g]
    BY <1>4 DEF RefreshesSound
  <2>2. CASE refresh[g].target = t
    BY <1>3, <1>5, <2>1, <2>2 DEF ReservedSound
  <2>3. CASE refresh[g].target # t
    BY <1>3, <2>1, <2>3 DEF ReservedSound
  <2> QED BY <2>2, <2>3
<1> HIDE DEF attempt
<1>8. ASSUME NEW g \in Refreshes, NEW h \in Refreshes,
             refresh'[g].pc = "reserved", refresh'[h].pc = "reserved",
             refresh'[g].target = refresh'[h].target,
             refresh'[g].attempt = refresh'[h].attempt
      PROVE  g = h
  <2>1. CASE g # f /\ h # f
    BY <1>4, <1>8, <2>1 DEF RefreshesSound
  <2>2. CASE g = f \/ h = f
    BY <1>4, <1>5, <1>8, <2>2
  <2> QED BY <2>1, <2>2
<1>9. RefreshesSound'
  BY <1>6, <1>7, <1>8 DEF RefreshesSound
<1>10. SessionIsCurrent'
  BY <1>2, <1>3 DEF SessionIsCurrent
<1> QED BY <1>9, <1>10

LEMMA PublishSessions ==
  ASSUME TypeOK, RefreshesSound, SessionIsCurrent,
         NEW f \in Refreshes, NEW status \in {"ready", "other"}, PublishRefresh(f, status)
  PROVE  RefreshesSound' /\ SessionIsCurrent'
<1> DEFINE t == refresh[f].target
<1>0. /\ t \in Targets /\ refresh[f].pc = "reserved" /\ ReservedSound(f)
      /\ target' = target
  BY DEF PublishRefresh, RefreshesSound, ReservedSound
<1>1. refresh'[f].pc = "over" /\ \A g \in Refreshes \ {f} : refresh'[g] = refresh[g]
  BY RowFacts DEF PublishRefresh, TypeOK
<1>2. CASE StillReserved(f)
  <2>1. /\ target[t].active /\ target[t].revision = refresh[f].revision
        /\ access[t].attempt = refresh[f].attempt
    BY <1>2 DEF StillReserved
  <2>2. access[t].status = "verifying" /\ access[t].revision = refresh[f].revision
    BY <1>0, <2>1 DEF ReservedSound
  <2>3. access' = [access EXCEPT ![t].status = status]
    BY <1>2 DEF PublishRefresh
  <2>4. /\ access'[t] = [attempt |-> refresh[f].attempt, revision |-> refresh[f].revision,
                        status |-> status]
        /\ \A u \in Targets \ {t} : access'[u] = access[u]
    BY <1>0, <2>1, <2>2, <2>3 DEF TypeOK, Access
  <2>5. \A g \in Refreshes \ {f} : refresh[g].pc = "reserved" /\ refresh[g].target = t
          => refresh[g].attempt # access[t].attempt
    BY <1>0, <2>1 DEF RefreshesSound
  <2>6. access'[t].attempt = access[t].attempt
    BY <2>1, <2>4
  <2>7. ASSUME NEW g \in Refreshes PROVE ReservedSound(g)'
    <3>1. CASE g = f
      BY <1>1, <3>1 DEF ReservedSound
    <3>2. CASE g # f /\ refresh[g].target = t
      <4>1. ReservedSound(g) /\ refresh'[g] = refresh[g]
        BY <1>1, <3>2 DEF RefreshesSound
      <4> QED BY <2>5, <2>6, <3>2, <4>1 DEF ReservedSound
    <3>3. CASE g # f /\ refresh[g].target # t
      <4>1. ReservedSound(g) /\ refresh'[g] = refresh[g]
        BY <1>1, <3>3 DEF RefreshesSound
      <4> QED BY <2>4, <3>3, <4>1 DEF ReservedSound
    <3> QED BY <3>1, <3>2, <3>3
  <2>8. RefreshesSound'
    BY <1>1, <2>7 DEF RefreshesSound
  <2>9. session[t].generation = NoRefresh
    <3>1. session[t].generation # NoRefresh => access[t].status = "ready"
      <4> HIDE DEF t
      <4>1. session[t].generation # NoRefresh =>
              access[t] = [attempt |-> session[t].attempt,
                           revision |-> session[t].revision, status |-> "ready"]
        BY <1>0 DEF SessionIsCurrent
      <4> QED BY <4>1
    <3> QED BY <2>2, <3>1
  <2>10. CASE status = "ready"
    <3>1. session' = [session EXCEPT ![t] =
                   [generation |-> f, revision |-> refresh[f].revision,
                    attempt |-> refresh[f].attempt, expired |-> FALSE]]
      BY <1>2, <2>10 DEF PublishRefresh
    <3>2. /\ session'[t].revision = refresh[f].revision
          /\ session'[t].attempt = refresh[f].attempt
          /\ \A u \in Targets \ {t} : session'[u] = session[u]
      BY <1>0, <3>1 DEF TypeOK
    <3> QED BY <1>0, <2>1, <2>4, <2>8, <2>10, <3>2 DEF SessionIsCurrent
  <2>11. CASE status # "ready"
    <3>1. session' = session
      BY <1>2, <2>11 DEF PublishRefresh
    <3> QED BY <1>0, <2>4, <2>8, <2>9, <3>1 DEF SessionIsCurrent
  <2> QED BY <2>10, <2>11
<1>3. CASE ~StillReserved(f)
  <2>1. access' = access /\ session' = session
    BY <1>3 DEF PublishRefresh
  <2>2. RefreshesSound'
    BY <1>1, <2>1 DEF RefreshesSound, ReservedSound
  <2> QED BY <1>0, <2>1, <2>2 DEF SessionIsCurrent
<1> QED BY <1>2, <1>3

\* A probe with the password touches neither.
LEMMA TestedSessions ==
  ASSUME TypeOK, RefreshesSound, SessionIsCurrent,
         session' = session, access' = access, refresh' = refresh,
         \/ target' = target
         \/ \E t, n : target' = [target EXCEPT ![t] = Probed(target[t], n)]
  PROVE  RefreshesSound' /\ SessionIsCurrent'
<1>1. \A row \in Target : \A n : /\ Probed(row, n).active = row.active
                                 /\ Probed(row, n).revision = row.revision
  BY DEF Probed, Target
<1>2. \A t \in Targets : target[t] \in Target
  BY DEF TypeOK
<1>3. \A t \in Targets : /\ target'[t].active = target[t].active
                         /\ target'[t].revision = target[t].revision
  BY <1>1, <1>2 DEF TypeOK
<1> QED BY <1>3, KeptSessions

LEMMA WorkerSessions ==
  ASSUME TypeOK, RefreshesSound, SessionIsCurrent, NEW w \in Workers, WorkerStep(w)
  PROVE  RefreshesSound' /\ SessionIsCurrent'
<1> DEFINE Settles == CompleteTargetProbe(w) \/ RejectTargetProbe(w)
<1>0. Settles \/ UNCHANGED <<account, refresh>>
  <2>1. ASSUME NEW t \in Targets, NEW k \in Keys,
               ClaimTargetProbe(w, t, k) \/ ClaimRejectedTargetProbe(w, t, k)
        PROVE  UNCHANGED <<account, refresh>>
    BY <2>1 DEF ClaimTargetProbe, ClaimRejectedTargetProbe, Claim
  <2>2. ASSUME \/ \E t \in Targets : ClaimPersonalItem(w, t)
               \/ \E verdict \in Verdicts : PublishPersonalItem(w, verdict)
        PROVE  UNCHANGED <<account, refresh>>
    BY <2>2 DEF ClaimPersonalItem, PublishPersonalItem
  <2>3. CASE TargetProbeTarget(w) \/ ProbePersonal(w) \/ WorkerStops(w)
    <3>1. UNCHANGED <<account, refresh>>
      BY <2>3 DEF TargetProbeTarget, ProbePersonal, WorkerStops
    <3> QED BY <3>1
  <2> QED BY <2>1, <2>2, <2>3 DEF WorkerStep
<1>1. session' = session /\ access' = access /\ refresh' = refresh
  <2>1. CASE UNCHANGED <<account, refresh>>
    BY <2>1 DEF account
  <2>2. CASE Settles
    BY <2>2 DEF CompleteTargetProbe, RejectTargetProbe, account
  <2> QED BY <1>0, <2>1, <2>2
<1>2. \/ target' = target
      \/ \E t, n : target' = [target EXCEPT ![t] = Probed(target[t], n)]
  <2>1. CASE CompleteTargetProbe(w)
    BY <2>1 DEF CompleteTargetProbe
  <2>2. CASE RejectTargetProbe(w)
    BY <2>2 DEF RejectTargetProbe
  <2>3. CASE UNCHANGED <<account, refresh>>
    BY <2>3 DEF account
  <2> QED BY <1>0, <2>1, <2>2, <2>3
<1> QED BY <1>1, <1>2, TestedSessions

LEMMA NextSessions ==
  ASSUME TypeOK, RefreshesSound, SessionIsCurrent, [Next]_vars
  PROVE  RefreshesSound' /\ SessionIsCurrent'
<1>1. CASE UNCHANGED <<account, refresh>>
  BY <1>1, KeptSessions DEF account
<1>2. CASE OwnerStep
  <2>1. CASE \E t \in Targets, change \in Changes : UpdateTargetAccount(t, change)
    BY <2>1, UpdateSessions
  <2>2. CASE \E rows \in SUBSET Targets : ImportTargetAccounts(rows)
    BY <2>2, ImportSessions
  <2>3. CASE \E f \in Refreshes, t \in Targets : ReserveTargetRefresh(f, t)
    BY <2>3, ReserveSessions
  <2>4. CASE \E f \in Refreshes, status \in {"ready", "other"} : PublishRefresh(f, status)
    BY <2>4, PublishSessions
  <2>5. CASE \E f \in Refreshes : AbandonRefresh(f)
    <3>1. PICK f \in Refreshes : AbandonRefresh(f)
      BY <2>5
    <3>2. UNCHANGED account /\ refresh'[f].pc = "over"
          /\ \A g \in Refreshes \ {f} : refresh'[g] = refresh[g]
      BY <3>1, RowFacts DEF AbandonRefresh, TypeOK
    <3>3. RefreshesSound'
      BY <3>2 DEF RefreshesSound, ReservedSound, account
    <3> QED BY <3>2, <3>3 DEF SessionIsCurrent, account
  <2>6. CASE \/ \E k \in Keys : CreateTargetProbes(k)
             \/ \E c \in Confirms :
                  PreviewPersonalProbes(c) \/ OpenPersonalBatch(c) \/ InsertPersonalBatch(c)
             \/ CancelPersonalProbes
    BY <1>1, <2>6 DEF CreateTargetProbes, CreateTargetProbe, PreviewPersonalProbes,
       OpenPersonalBatch, InsertPersonalBatch, CancelPersonalProbes
  <2> QED BY <1>2, <2>1, <2>2, <2>3, <2>4, <2>5, <2>6 DEF OwnerStep
<1>3. CASE \E w \in Workers : WorkerStep(w)
  BY <1>3, WorkerSessions
<1>4. CASE \E t \in Targets, k \in Keys : SettleExhausted(t, k) \/ LeaseExpires(t, k)
  <2>1. PICK t \in Targets, k \in Keys : SettleExhausted(t, k) \/ LeaseExpires(t, k)
    BY <1>4
  <2>2. CASE SettleExhausted(t, k)
    BY <2>2, TestedSessions DEF SettleExhausted
  <2>3. CASE LeaseExpires(t, k)
    BY <1>1, <2>3 DEF LeaseExpires
  <2> QED BY <2>1, <2>2, <2>3
<1>5. CASE \E t \in Targets : SessionExpires(t) \/ ItemAges(t)
  <2>1. PICK t \in Targets : SessionExpires(t) \/ ItemAges(t)
    BY <1>5
  <2>2. CASE SessionExpires(t)
    <3>1. \A u \in Targets : /\ session'[u].generation = session[u].generation
                             /\ session'[u].revision = session[u].revision
                             /\ session'[u].attempt = session[u].attempt
      BY <2>2 DEF SessionExpires, TypeOK, Session
    <3> QED BY <2>2, <3>1, KeptSessions DEF SessionExpires
  <2>3. CASE ItemAges(t)
    BY <1>1, <2>3 DEF ItemAges
  <2> QED BY <2>1, <2>2, <2>3
<1> QED BY <1>1, <1>2, <1>3, <1>4, <1>5 DEF Next, vars, account

-----------------------------------------------------------------------------
(* The ends of tasks and the verdicts of items *)

TasksDecided ==
  \A x \in Targets \X Keys :
    IF task[x].status \in Terminal THEN task[x].by = task[x].attempts ELSE task[x].by = 0

ItemsDecided ==
  \A t \in Targets :
    IF item[t].status \in Verdicts THEN item[t].by = item[t].attempts ELSE item[t].by = 0

LEMMA Decided ==
  ASSUME TypeOK PROVE LastAttemptDecides <=> TasksDecided /\ ItemsDecided
BY DEF TypeOK, LastAttemptDecides, TasksDecided, ItemsDecided

\* One task changes, from a state that is not its last, to one of these.
LEMMA OneTask ==
  ASSUME TypeOK, TasksDecided, NEW x \in Targets \X Keys, NEW row \in Task,
         task' = [task EXCEPT ![x] = row],
         task[x].status \notin Terminal,
         \/ row.status \notin Terminal /\ row.by = task[x].by
         \/ row.status \in Terminal /\ row.by = row.attempts
  PROVE  TasksDecided'
<1> DEFINE D == Targets \X Keys
<1>1. task \in [D -> Task]
  BY DEF TypeOK
<1> HIDE DEF D
<1>2. \A y \in D : y # x => task'[y] = task[y]
  BY <1>1
<1>3. x \in D => task'[x] = row
  BY <1>1
<1> QED BY <1>2, <1>3 DEF TasksDecided, D

LEMMA NextTasksDecided ==
  ASSUME TypeOK, WorkersNamed, TasksDecided, [Next]_vars
  PROVE  TasksDecided'
<1>1. CASE UNCHANGED task
  BY <1>1 DEF TasksDecided
<1>2. ASSUME NEW w \in Workers, NEW t \in Targets, NEW k \in Keys,
             NEW pc \in {"claimed", "rejecting"}, Claim(w, t, k, pc)
      PROVE  TasksDecided'
  <2> DEFINE x == <<t, k>>
             row == [task[x] EXCEPT !.status = "running", !.lapsed = FALSE,
                                    !.attempts = task[x].attempts + 1]
  <2>1. x \in Targets \X Keys /\ task[x] \in Task /\ task[x].attempts + 1 \in Nat
    BY DEF TypeOK, Task
  <2>2. task[x].status \in {"queued", "running"}
    BY <1>2 DEF Claim, Claimable
  <2> HIDE DEF x
  <2>3. task' = [task EXCEPT ![x] = row]
    BY <1>2, <2>1 DEF Claim, TypeOK, Task, x
  <2>4. row \in Task /\ row.status = "running" /\ row.by = task[x].by
    BY <2>1 DEF Task
  <2> HIDE DEF row
  <2>5. row.status \notin Terminal /\ task[x].status \notin Terminal
    BY <2>2, <2>4 DEF Terminal
  <2> QED BY <2>1, <2>3, <2>4, <2>5, OneTask
<1>3. ASSUME NEW x \in Targets \X Keys, NEW s \in Terminal,
             task[x].status = "running",
             task' = [task EXCEPT ![x] = Ended(task[x], s, task[x].attempts)]
      PROVE  TasksDecided'
  <2> DEFINE row == Ended(task[x], s, task[x].attempts)
  <2>1. task[x] \in Task /\ task[x].attempts \in Nat
    BY DEF TypeOK, Task
  <2>2. row \in Task
    BY <2>1, RowTypes
  <2>3. row.status = s /\ row.by = row.attempts
    BY <2>1 DEF Ended, Task
  <2>4. task[x].status \notin Terminal
    BY <1>3 DEF Terminal
  <2> HIDE DEF row
  <2> QED BY <1>3, <2>2, <2>3, <2>4, OneTask DEF row
<1>4. ASSUME NEW w \in Workers, CompleteTargetProbe(w) \/ RejectTargetProbe(w)
      PROVE  TasksDecided'
  <2> DEFINE x == <<worker[w].target, worker[w].key>>
  <2>1. x \in Targets \X Keys
    BY <1>4 DEF CompleteTargetProbe, RejectTargetProbe, WorkersNamed
  <2>2. CASE HoldsLease(w)
    <3>1. task[x].status = "running" /\ task[x].attempts = worker[w].attempt
      BY <2>2 DEF HoldsLease
    <3>2. \E s \in {"succeeded", "failed"} :
            task' = [task EXCEPT ![x] = Ended(task[x], s, worker[w].attempt)]
      BY <1>4, <2>2 DEF CompleteTargetProbe, RejectTargetProbe
    <3>3. {"succeeded", "failed"} \subseteq Terminal
      BY DEF Terminal
    <3> HIDE DEF x
    <3> QED BY <1>3, <2>1, <3>1, <3>2, <3>3
  <2>3. CASE ~HoldsLease(w)
    BY <1>1, <1>4, <2>3 DEF CompleteTargetProbe, RejectTargetProbe
  <2> QED BY <2>2, <2>3
<1>5. ASSUME NEW t \in Targets, NEW k \in Keys, SettleExhausted(t, k)
      PROVE  TasksDecided'
  <2> DEFINE x == <<t, k>>
  <2>1. /\ x \in Targets \X Keys /\ task[x].status = "running"
        /\ task' = [task EXCEPT ![x] = Ended(task[x], "interrupted", task[x].attempts)]
    BY <1>5 DEF SettleExhausted
  <2>2. "interrupted" \in Terminal
    BY DEF Terminal
  <2> HIDE DEF x
  <2> QED BY <1>3, <2>1, <2>2
<1>6. ASSUME NEW t \in Targets, NEW k \in Keys, LeaseExpires(t, k)
      PROVE  TasksDecided'
  <2> DEFINE x == <<t, k>>
             row == [task[x] EXCEPT !.lapsed = TRUE]
  <2>1. x \in Targets \X Keys /\ task[x].status = "running" /\ task[x] \in Task
        /\ task' = [task EXCEPT ![x] = row]
    BY <1>6 DEF LeaseExpires, TypeOK
  <2> HIDE DEF x
  <2>2. row \in Task /\ row.status = "running" /\ row.by = task[x].by
    BY <2>1 DEF Task
  <2> HIDE DEF row
  <2>3. row.status \notin Terminal /\ task[x].status \notin Terminal
    BY <2>1, <2>2 DEF Terminal
  <2> QED BY <2>1, <2>2, <2>3, OneTask
<1>7. ASSUME NEW t \in Targets, NEW k \in Keys, CreateTargetProbe(t, k)
      PROVE  TasksDecided'
  <2> DEFINE x == <<t, k>>
             row == [task[x] EXCEPT !.status = "queued"]
  <2>1. x \in Targets \X Keys /\ task[x].status = "none" /\ task[x] \in Task
        /\ task' = [task EXCEPT ![x] = row]
    BY <1>7 DEF CreateTargetProbe, TypeOK
  <2> HIDE DEF x
  <2>2. row \in Task /\ row.status = "queued" /\ row.by = task[x].by
    BY <2>1 DEF Task
  <2> HIDE DEF row
  <2>3. row.status \notin Terminal /\ task[x].status \notin Terminal
    BY <2>1, <2>2 DEF Terminal
  <2> QED BY <2>1, <2>2, <2>3, OneTask
<1>8. CASE OwnerStep
  BY <1>1, <1>7, <1>8 DEF OwnerStep, UpdateTargetAccount, ImportTargetAccounts,
     ReserveTargetRefresh, PublishRefresh, AbandonRefresh, CreateTargetProbes,
     PreviewPersonalProbes, OpenPersonalBatch, InsertPersonalBatch, CancelPersonalProbes
<1>9. ASSUME NEW w \in Workers, WorkerStep(w)
      PROVE  TasksDecided'
  <2>1. CASE \E t \in Targets, k \in Keys :
               ClaimTargetProbe(w, t, k) \/ ClaimRejectedTargetProbe(w, t, k)
    BY <1>2, <2>1 DEF ClaimTargetProbe, ClaimRejectedTargetProbe
  <2> QED
    BY <1>1, <1>4, <1>9, <2>1 DEF WorkerStep, TargetProbeTarget, ClaimPersonalItem,
       ProbePersonal, PublishPersonalItem, WorkerStops
<1>10. CASE \E t \in Targets : SessionExpires(t) \/ ItemAges(t)
  BY <1>1, <1>10 DEF SessionExpires, ItemAges
<1> QED BY <1>1, <1>5, <1>6, <1>8, <1>9, <1>10 DEF Next, vars

LEMMA NextItemsDecided ==
  ASSUME TypeOK, WorkersNamed, ItemsDecided, ItemsOfBatch, [Next]_vars
  PROVE  ItemsDecided' /\ ItemsOfBatch'
<1>0. item \in [Targets -> Item] /\ batch \in Batch
  BY DEF TypeOK
<1>1. CASE UNCHANGED <<item, batch>>
  BY <1>1 DEF ItemsDecided, ItemsOfBatch
<1>2. ASSUME NEW c \in Confirms, InsertPersonalBatch(c)
      PROVE  ItemsDecided' /\ ItemsOfBatch'
  <2>1. CASE batch.made
    BY <1>1, <1>2, <2>1 DEF InsertPersonalBatch
  <2>2. CASE ~batch.made
    <3>1. /\ item' = [t \in Targets |-> [item[t] EXCEPT !.status = "queued"]]
          /\ batch' = [batch EXCEPT !.made = TRUE, !.rows = confirm[c].rows]
      BY <1>2, <2>2 DEF InsertPersonalBatch
    <3>2. \A t \in Targets : item'[t].status = "queued" /\ item'[t].by = item[t].by
      BY <1>0, <3>1 DEF Item
    <3>3. \A t \in Targets : item[t].by = 0
      BY <2>2 DEF ItemsDecided, ItemsOfBatch, Verdicts
    <3>4. batch'.made
      BY <1>0, <3>1 DEF Batch
    <3> QED BY <3>2, <3>3, <3>4 DEF ItemsDecided, ItemsOfBatch, Verdicts
  <2> QED BY <2>1, <2>2
<1>3. CASE CancelPersonalProbes
  <2>1. batch.made /\ batch'.made
    BY <1>0, <1>3 DEF CancelPersonalProbes, Batch
  <2>2. \A t \in Targets :
          \/ item'[t] = item[t]
          \/ /\ item[t].status \in {"queued", "running"}
             /\ item'[t].status = "canceled" /\ item'[t].by = item[t].by
    BY <1>0, <1>3 DEF CancelPersonalProbes, Item
  <2> QED BY <2>1, <2>2 DEF ItemsDecided, ItemsOfBatch, Verdicts
<1>4. ASSUME NEW w \in Workers, NEW t \in Targets, ClaimPersonalItem(w, t)
      PROVE  ItemsDecided' /\ ItemsOfBatch'
  <2>1. batch.made /\ batch' = batch /\ item[t].status \in {"queued", "running"}
    BY <1>4 DEF ClaimPersonalItem
  <2>2. item'[t].status = "running" /\ item'[t].by = item[t].by
    BY <1>0, <1>4 DEF ClaimPersonalItem, Item
  <2>3. \A u \in Targets \ {t} : item'[u] = item[u]
    BY <1>0, <1>4 DEF ClaimPersonalItem
  <2> QED BY <2>1, <2>2, <2>3 DEF ItemsDecided, ItemsOfBatch, Verdicts
<1>5. ASSUME NEW w \in Workers, NEW verdict \in Verdicts, PublishPersonalItem(w, verdict)
      PROVE  ItemsDecided' /\ ItemsOfBatch'
  <2> DEFINE t == worker[w].target
             row == [item[t] EXCEPT !.status = verdict, !.old = FALSE, !.by = worker[w].attempt]
  <2>1. t \in Targets /\ batch' = batch
    BY <1>5 DEF PublishPersonalItem, WorkersNamed
  <2>2. CASE item' = item
    BY <1>1, <2>1, <2>2
  <2>3. CASE item' # item
    <3>1. BatchOpen /\ ItemFence(w)
          /\ item' = [item EXCEPT ![t].status = verdict, ![t].old = FALSE,
                                 ![t].by = worker[w].attempt]
      BY <1>5, <2>3 DEF PublishPersonalItem
    <3>2. item' = [item EXCEPT ![t] = row]
      BY <1>0, <2>1, <3>1 DEF Item
    <3>3. item[t] \in Item /\ item[t].attempts = worker[w].attempt
      BY <1>0, <2>1, <3>1 DEF ItemFence
    <3>4. row.status = verdict /\ row.by = row.attempts
      BY <3>3 DEF Item
    <3> HIDE DEF row, t
    <3>5. item'[t] = row /\ \A u \in Targets \ {t} : item'[u] = item[u]
      BY <1>0, <2>1, <3>2
    <3>6. ItemsDecided'
      BY <2>1, <3>4, <3>5 DEF ItemsDecided
    <3>7. ItemsOfBatch'
      BY <2>1, <3>1, <3>5 DEF ItemsOfBatch, BatchOpen
    <3> QED BY <3>6, <3>7
  <2> QED BY <2>2, <2>3
<1>6. ASSUME NEW t \in Targets, ItemAges(t)
      PROVE  ItemsDecided' /\ ItemsOfBatch'
  <2>1. \A u \in Targets : item'[u].status = item[u].status /\ item'[u].by = item[u].by
                          /\ item'[u].attempts = item[u].attempts
    BY <1>0, <1>6 DEF ItemAges, Item
  <2> QED BY <1>6, <2>1 DEF ItemsDecided, ItemsOfBatch, ItemAges
<1>7. CASE OwnerStep
  <2>1. CASE UNCHANGED <<item, batch>>
    BY <1>1, <2>1
  <2> QED
    BY <1>2, <1>3, <1>7, <2>1 DEF OwnerStep, UpdateTargetAccount, ImportTargetAccounts,
       ReserveTargetRefresh, PublishRefresh, AbandonRefresh, CreateTargetProbes,
       CreateTargetProbe, PreviewPersonalProbes, OpenPersonalBatch
<1>8. ASSUME NEW w \in Workers, WorkerStep(w)
      PROVE  ItemsDecided' /\ ItemsOfBatch'
  <2>1. ASSUME NEW t \in Targets, NEW k \in Keys,
               ClaimTargetProbe(w, t, k) \/ ClaimRejectedTargetProbe(w, t, k)
        PROVE  ItemsDecided' /\ ItemsOfBatch'
    <3>1. UNCHANGED <<item, batch>>
      BY <2>1 DEF ClaimTargetProbe, ClaimRejectedTargetProbe, Claim
    <3> QED BY <1>1, <3>1
  <2>2. CASE \/ TargetProbeTarget(w) \/ CompleteTargetProbe(w) \/ RejectTargetProbe(w)
             \/ ProbePersonal(w) \/ WorkerStops(w)
    <3>1. UNCHANGED <<item, batch>>
      BY <2>2 DEF TargetProbeTarget, CompleteTargetProbe, RejectTargetProbe, ProbePersonal,
             WorkerStops
    <3> QED BY <1>1, <3>1
  <2> QED BY <1>4, <1>5, <1>8, <2>1, <2>2 DEF WorkerStep
<1>9. CASE \E t \in Targets, k \in Keys : SettleExhausted(t, k) \/ LeaseExpires(t, k)
  BY <1>1, <1>9 DEF SettleExhausted, LeaseExpires
<1>10. CASE \E t \in Targets : SessionExpires(t) \/ ItemAges(t)
  BY <1>1, <1>6, <1>10 DEF SessionExpires
<1> QED BY <1>1, <1>7, <1>8, <1>9, <1>10 DEF Next, vars

-----------------------------------------------------------------------------
(* Confirmations *)

\* Everything but these two leaves batch and confirm alone, or cancels the batch.
LEMMA ConfirmSteps ==
  ASSUME [Next]_vars
  PROVE  \/ UNCHANGED <<batch, confirm>>
         \/ CancelPersonalProbes
         \/ \E c \in Confirms :
              PreviewPersonalProbes(c) \/ OpenPersonalBatch(c) \/ InsertPersonalBatch(c)
<1>1. CASE OwnerStep
  BY <1>1 DEF OwnerStep, UpdateTargetAccount, ImportTargetAccounts, ReserveTargetRefresh,
     PublishRefresh, AbandonRefresh, CreateTargetProbes, CreateTargetProbe
<1>2. ASSUME NEW w \in Workers, WorkerStep(w)
      PROVE  UNCHANGED <<batch, confirm>>
  BY <1>2 DEF WorkerStep, ClaimTargetProbe, ClaimRejectedTargetProbe, Claim,
     TargetProbeTarget, CompleteTargetProbe, RejectTargetProbe, ClaimPersonalItem,
     ProbePersonal, PublishPersonalItem, WorkerStops
<1>3. CASE \/ \E t \in Targets, k \in Keys : SettleExhausted(t, k) \/ LeaseExpires(t, k)
           \/ \E t \in Targets : SessionExpires(t) \/ ItemAges(t)
  BY <1>3 DEF SettleExhausted, LeaseExpires, SessionExpires, ItemAges
<1> QED BY <1>1, <1>2, <1>3 DEF Next, vars

LEMMA NextConfirms ==
  ASSUME TypeOK, InsertsAsShown, AcceptedAsPreviewed, [Next]_vars
  PROVE  InsertsAsShown' /\ AcceptedAsPreviewed'
<1>0. batch \in Batch /\ confirm \in [Confirms -> Confirm]
  BY DEF TypeOK
<1>1. CASE UNCHANGED <<batch, confirm>>
  BY <1>1 DEF InsertsAsShown, AcceptedAsPreviewed
<1>2. CASE CancelPersonalProbes
  <2>1. batch'.made = batch.made /\ batch'.rows = batch.rows /\ confirm' = confirm
    BY <1>0, <1>2 DEF CancelPersonalProbes, Batch
  <2> QED BY <2>1 DEF InsertsAsShown, AcceptedAsPreviewed
<1>3. ASSUME NEW c \in Confirms, PreviewPersonalProbes(c)
      PROVE  InsertsAsShown' /\ AcceptedAsPreviewed'
  <2>1. confirm'[c].pc = "previewed" /\ batch' = batch
        /\ \A d \in Confirms \ {c} : confirm'[d] = confirm[d]
    BY <1>0, <1>3 DEF PreviewPersonalProbes, Confirm
  <2> QED BY <2>1 DEF InsertsAsShown, AcceptedAsPreviewed
<1>4. ASSUME NEW c \in Confirms, OpenPersonalBatch(c)
      PROVE  InsertsAsShown' /\ AcceptedAsPreviewed'
  <2>1. /\ confirm'[c].pc = IF batch.made THEN ReplayPersonalBatch(c)
                            ELSE IF ScopeConfirmed(c) THEN "inserting" ELSE "refused"
        /\ confirm'[c].rows = CurrentScope /\ confirm'[c].token = confirm[c].token
        /\ \A d \in Confirms \ {c} : confirm'[d] = confirm[d]
    BY <1>0, <1>4 DEF OpenPersonalBatch, Confirm
  <2>2. batch' = batch
    BY <1>4 DEF OpenPersonalBatch
  <2>3. confirm'[c].pc = "inserting" => confirm'[c].rows = confirm'[c].token
    BY <2>1 DEF ReplayPersonalBatch, ScopeConfirmed
  <2>4. confirm'[c].pc = "accepted" => batch.made /\ batch.rows = confirm'[c].token
    BY <2>1 DEF ReplayPersonalBatch
  <2> QED BY <2>1, <2>2, <2>3, <2>4 DEF InsertsAsShown, AcceptedAsPreviewed
<1>5. ASSUME NEW c \in Confirms, InsertPersonalBatch(c)
      PROVE  InsertsAsShown' /\ AcceptedAsPreviewed'
  <2>1. confirm[c].pc = "inserting" /\ confirm[c].rows = confirm[c].token
    BY <1>5 DEF InsertPersonalBatch, InsertsAsShown
  <2>2. CASE batch.made
    <3>1. /\ confirm'[c].pc = ReplayPersonalBatch(c) /\ confirm'[c].token = confirm[c].token
          /\ \A d \in Confirms \ {c} : confirm'[d] = confirm[d]
      BY <1>0, <1>5, <2>2 DEF InsertPersonalBatch, Confirm
    <3>2. batch' = batch
      BY <1>5, <2>2 DEF InsertPersonalBatch
    <3> QED BY <2>2, <3>1, <3>2 DEF InsertsAsShown, AcceptedAsPreviewed, ReplayPersonalBatch
  <2>3. CASE ~batch.made
    <3>1. /\ confirm'[c].pc = "accepted" /\ confirm'[c].token = confirm[c].token
          /\ \A d \in Confirms \ {c} : confirm'[d] = confirm[d]
      BY <1>0, <1>5, <2>3 DEF InsertPersonalBatch, Confirm
    <3>2. batch'.made /\ batch'.rows = confirm[c].rows
      BY <1>0, <1>5, <2>3 DEF InsertPersonalBatch, Batch
    <3> QED BY <2>1, <2>3, <3>1, <3>2 DEF InsertsAsShown, AcceptedAsPreviewed
  <2> QED BY <2>2, <2>3
<1> QED BY <1>1, <1>2, <1>3, <1>4, <1>5, ConfirmSteps

-----------------------------------------------------------------------------
(* The theorems *)

LEMMA InitIInv == Init => IInv
<1> SUFFICES ASSUME Init PROVE IInv
  OBVIOUS
<1>1. TypeOK
  BY RowFacts DEF Init, TypeOK, Target, Access, NoAccess, Session, NoSession, Refresh,
     NoRefreshYet, Task, Batch, Item, Confirm, Terminal, Verdicts
<1>2. WorkersNamed /\ MeasuredWithSession
  BY RowFacts DEF Init, WorkersNamed, MeasuredWithSession
<1>3. RefreshesSound
  BY DEF Init, RefreshesSound, ReservedSound, NoRefreshYet
<1>4. SessionIsCurrent
  BY DEF Init, SessionIsCurrent, NoSession
<1>5. TasksDecided /\ ItemsDecided
  BY DEF Init, TasksDecided, ItemsDecided, Terminal, Verdicts
<1>6. ItemsOfBatch /\ InsertsAsShown /\ AcceptedAsPreviewed
  BY DEF Init, ItemsOfBatch, InsertsAsShown, AcceptedAsPreviewed
<1> QED BY <1>1, <1>2, <1>3, <1>4, <1>5, <1>6, Decided DEF IInv

LEMMA NextIInv == IInv /\ [Next]_vars => IInv'
<1> SUFFICES ASSUME IInv, [Next]_vars PROVE IInv'
  OBVIOUS
<1>1. TypeOK'
  BY NextTypes DEF IInv
<1>2. WorkersNamed' /\ MeasuredWithSession'
  BY NextWorkersNamed DEF IInv
<1>3. RefreshesSound' /\ SessionIsCurrent'
  BY NextSessions DEF IInv
<1>4. TasksDecided' /\ ItemsDecided' /\ ItemsOfBatch'
  BY Decided, NextTasksDecided, NextItemsDecided DEF IInv
<1>5. LastAttemptDecides'
  BY <1>1, <1>4 DEF TypeOK, LastAttemptDecides, TasksDecided, ItemsDecided
<1>6. InsertsAsShown' /\ AcceptedAsPreviewed'
  BY NextConfirms DEF IInv
<1> QED BY <1>1, <1>2, <1>3, <1>4, <1>5, <1>6 DEF IInv

\* The inductive invariant holds in every state.
THEOREM Inductive == Spec => []IInv
BY InitIInv, NextIInv, PTL DEF Spec

\* Every variable holds a value the schema and the handlers allow.
THEOREM TypeCorrect == Spec => []TypeOK
<1>1. IInv => TypeOK
  BY DEF IInv
<1> QED BY <1>1, Inductive, PTL

\* No edit, disabled account or newer refresh leaves a session behind
\* (target_personal_access.go, tsw_invalidate_target_personal).
THEOREM SessionsAreCurrent == Spec => []SessionIsCurrent
<1>1. IInv => SessionIsCurrent
  BY DEF IInv
<1> QED BY <1>1, Inductive, PTL

\* Only the last attempt ends a task or gives an item its verdict (task.go,
\* personal_probe.go).
THEOREM LastAttemptsDecide == Spec => []LastAttemptDecides
<1>1. IInv => LastAttemptDecides
  BY DEF IInv
<1> QED BY <1>1, Inductive, PTL

\* An accepted confirmation is of the batch that exists (personal_probes.go).
THEOREM AcceptedWasPreviewed == Spec => []AcceptedAsPreviewed
<1>1. IInv => AcceptedAsPreviewed
  BY DEF IInv
<1> QED BY <1>1, Inductive, PTL

\* What the publication of a verdict requires of the account (personal_probe.go).
LEMMA PublishedIsCurrent ==
  ASSUME IInv, NEW w \in Workers, NEW verdict \in Verdicts,
         PublishPersonalItem(w, verdict), worker[w].seen # NoEvidence, item' # item
  PROVE  LET t == worker[w].target IN
         /\ session[t].generation = worker[w].seen.generation
         /\ session[t].revision = target[t].revision
         /\ target[t].active
<1> DEFINE t == worker[w].target
<1>1. worker[w].pc = "measured" /\ LockPersonalGeneration(w)
  BY DEF PublishPersonalItem
<1>2. t \in Targets /\ worker[w].seen.generation # NoRefresh
  BY <1>1 DEF IInv, WorkersNamed, MeasuredWithSession
<1>3. session[t].generation = worker[w].seen.generation /\ target[t].active
  BY <1>1 DEF LockPersonalGeneration
<1> HIDE DEF t
<1>4. session[t].revision = target[t].revision
  BY <1>2, <1>3 DEF IInv, SessionIsCurrent
<1> QED BY <1>3, <1>4 DEF t

\* A verdict reached with a session is published only while that session is the
\* account's (personal_probe.go:95-97).
THEOREM VerdictsAreCurrent == Spec => VerdictIsCurrent
<1> DEFINE Current ==
      \A w \in Workers, t \in Targets :
       /\ worker[w].pc = "measured" /\ worker[w].target = t
       /\ item'[t].status \in Verdicts /\ item'[t] # item[t]
       /\ worker'[w] # worker[w]
       /\ worker[w].seen # NoEvidence
       => /\ session[t].generation = worker[w].seen.generation
          /\ session[t].revision = target[t].revision
          /\ target[t].active
<1>1. IInv /\ [Next]_vars => Current
  <2> SUFFICES ASSUME IInv, [Next]_vars, NEW w \in Workers, NEW t \in Targets,
                      worker[w].pc = "measured", worker[w].target = t,
                      item' # item, worker'[w] # worker[w], worker[w].seen # NoEvidence
               PROVE  /\ session[t].generation = worker[w].seen.generation
                      /\ session[t].revision = target[t].revision
                      /\ target[t].active
    OBVIOUS
  <2>1. PICK v \in Workers : WorkerStep(v)
    BY OneWorker
  <2>2. worker \in [Workers -> Worker]
    BY DEF IInv, TypeOK
  <2>3. v = w
    BY <2>1, <2>2 DEF WorkerStep, ClaimTargetProbe, ClaimRejectedTargetProbe, Claim,
       TargetProbeTarget, CompleteTargetProbe, RejectTargetProbe, ClaimPersonalItem,
       ProbePersonal, PublishPersonalItem, WorkerStops
  <2>4. \E verdict \in Verdicts : PublishPersonalItem(w, verdict)
    BY <2>1, <2>3 DEF WorkerStep, ClaimTargetProbe, ClaimRejectedTargetProbe, Claim,
       TargetProbeTarget, CompleteTargetProbe, RejectTargetProbe, ClaimPersonalItem,
       ProbePersonal, WorkerStops
  <2> QED BY <2>4, PublishedIsCurrent
<1>2. IInv /\ [Next]_vars => [Current]_vars
  BY <1>1
<1>3. VerdictIsCurrent <=> [][Current]_vars
  BY DEF VerdictIsCurrent
<1> HIDE DEF Current
<1> QED BY <1>2, <1>3, Inductive, PTL DEF Spec
=============================================================================
