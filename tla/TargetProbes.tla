---------------------------- MODULE TargetProbes ----------------------------
(***************************************************************************)
(* What the program learns of the target accounts.  A probe task logs in   *)
(* with the saved password (task/worker.go, task/task.go); a refresh opens *)
(* a Personal session (runtime/target_personal_access.go); a confirmed     *)
(* batch measures every account of its scope with the saved session        *)
(* (runtime/personal_probes.go, task/personal_probe.go).  The Owner edits  *)
(* and disables accounts meanwhile (runtime/target_http.go).               *)
(*                                                                         *)
(* Workers die and are late: a task is fenced by its lease, an item of a   *)
(* batch by its attempt, a measurement by the session it was made with.  A *)
(* transaction that locks the rows it decides on is one step.              *)
(***************************************************************************)
EXTENDS Naturals, FiniteSets

CONSTANTS
  Targets,       \* target accounts
  Keys,          \* idempotency keys of createTargetProbes
  Confirms,      \* confirmations of one Personal batch: they share its request key
  Refreshes,     \* Personal refreshes; each names the generation it may open
  Workers,       \* workers, those of a process that is being replaced included
  NoRefresh,     \* no session
  NoTarget,      \* an idle worker's account
  NoKey,         \* and its task
  MaxVersion,    \* bound on the edits of an account
  MaxAttempts,   \* tsw_tasks.max_attempts
  MaxProbes      \* bound on the attempts of an item

ASSUME NamesAssumption ==
  NoRefresh \notin Refreshes /\ NoTarget \notin Targets /\ NoKey \notin Keys
ASSUME BoundsAssumption ==
  {MaxVersion, MaxAttempts, MaxProbes} \subseteq Nat \ {0}

VARIABLES
  target,    \* tsw_target_accounts and its credentials
  access,    \* tsw_target_personal_access; attempt 0 without a row
  session,   \* tsw_target_personal_sessions
  refresh,   \* refreshes in progress
  task,      \* tsw_tasks of type target_account_probe
  batch,     \* tsw_personal_probe_batches of the request key
  item,      \* its tsw_personal_probe_items
  confirm,   \* previews and confirmations of the Owner
  worker     \* what a worker is doing

account == <<target, access, session>>
vars == <<target, access, session, refresh, task, batch, item, confirm, worker>>

-----------------------------------------------------------------------------
(* Rows *)

Terminal == {"succeeded", "failed", "interrupted"}
Verdicts == {"succeeded", "failed"}

\* tested stands for the latest probe: the revision of the password it logged in
\* with, 0 when there is none or it tells nothing.
Target == [active : BOOLEAN, version : Nat \ {0}, revision : Nat \ {0}, tested : Nat]
Access == [attempt : Nat, revision : Nat, status : {"none", "verifying", "ready", "other"}]
Session == [generation : Refreshes \cup {NoRefresh}, revision : Nat, attempt : Nat,
            expired : BOOLEAN]
Refresh == [pc : {"new", "reserved", "over"}, target : Targets \cup {NoTarget},
            revision : Nat, attempt : Nat]

\* The lease token is the number of the attempt: every claim draws another one.
\* by is history: the attempt that ended the task, or gave the item its verdict.
Task == [status : {"none", "queued", "running"} \cup Terminal, attempts : Nat,
         lapsed : BOOLEAN, by : Nat]
Item == [status : {"none", "queued", "running", "canceled"} \cup Verdicts,
         attempts : Nat, old : BOOLEAN, by : Nat]

\* The accounts of a scope with the versions the signed token binds.
Scope == [Targets -> Nat \ {0}]
Batch == [made : BOOLEAN, canceled : BOOLEAN, rows : Scope]
Confirm == [pc : {"new", "previewed", "inserting", "accepted", "refused"},
            token : Scope, rows : Scope]

\* What the worker holds of the session, or the revision of the password.
Evidence == [generation : Refreshes \cup {NoRefresh}, revision : Nat]
Worker == [pc : {"idle", "claimed", "probing", "rejecting", "measuring", "measured"},
           target : Targets \cup {NoTarget}, key : Keys \cup {NoKey},
           attempt : Nat, seen : Evidence]

NoAccess == [attempt |-> 0, revision |-> 0, status |-> "none"]
NoSession == [generation |-> NoRefresh, revision |-> 0, attempt |-> 0, expired |-> FALSE]
NoEvidence == [generation |-> NoRefresh, revision |-> 0]
NoRefreshYet == [pc |-> "new", target |-> NoTarget, revision |-> 0, attempt |-> 0]
NoRows == [t \in Targets |-> 1]
Idle == [pc |-> "idle", target |-> NoTarget, key |-> NoKey, attempt |-> 0,
         seen |-> NoEvidence]

\* Every variable holds a value the schema and the handlers allow.
TypeOK ==
  /\ target \in [Targets -> Target]
  /\ access \in [Targets -> Access]
  /\ session \in [Targets -> Session]
  /\ refresh \in [Refreshes -> Refresh]
  /\ task \in [Targets \X Keys -> Task]
  /\ batch \in Batch
  /\ item \in [Targets -> Item]
  /\ confirm \in [Confirms -> Confirm]
  /\ worker \in [Workers -> Worker]

Init ==
  /\ target = [t \in Targets |-> [active |-> TRUE, version |-> 1, revision |-> 1,
                                  tested |-> 0]]
  /\ access = [t \in Targets |-> NoAccess]
  /\ session = [t \in Targets |-> NoSession]
  /\ refresh = [f \in Refreshes |-> NoRefreshYet]
  /\ task = [x \in Targets \X Keys |-> [status |-> "none", attempts |-> 0,
                                        lapsed |-> FALSE, by |-> 0]]
  /\ batch = [made |-> FALSE, canceled |-> FALSE, rows |-> NoRows]
  /\ item = [t \in Targets |-> [status |-> "none", attempts |-> 0,
                                old |-> FALSE, by |-> 0]]
  /\ confirm = [c \in Confirms |-> [pc |-> "new", token |-> NoRows, rows |-> NoRows]]
  /\ worker = [w \in Workers |-> Idle]

-----------------------------------------------------------------------------
(* The Owner edits an account *)

\* tsw_invalidate_target_personal: whoever reads or refreshes is too late.
Invalidated(a) ==
  IF a.attempt = 0 THEN a ELSE [a EXCEPT !.attempt = @ + 1, !.status = "other"]

\* The trigger fires for new secrets, another subject and an account put out of use.
Invalidates(change, t) ==
  change \in {"secrets", "subject"} \/ (change = "disable" /\ target[t].active)

Changed(change, row) ==
  LET new == [row EXCEPT !.version = @ + 1] IN
  CASE change = "secrets" -> [new EXCEPT !.revision = @ + 1, !.tested = 0]
    [] change = "disable" -> [new EXCEPT !.active = FALSE]
    [] change = "enable"  -> [new EXCEPT !.active = TRUE]
    [] OTHER -> new

\* updateTargetAccount.
UpdateTargetAccount(t, change) ==
  /\ target[t].version < MaxVersion
  /\ target' = [target EXCEPT ![t] = Changed(change, @)]
  /\ IF Invalidates(change, t)
     THEN /\ access' = [access EXCEPT ![t] = Invalidated(@)]
          /\ session' = [session EXCEPT ![t] = NoSession]
     ELSE UNCHANGED <<access, session>>
  /\ UNCHANGED <<refresh, task, batch, item, confirm, worker>>

\* previewTargetImport with save: every account of the file that exists gets the
\* secrets of its row, all of them in one transaction.
ImportTargetAccounts(rows) ==
  /\ rows # {}
  /\ \A t \in rows : target[t].version < MaxVersion
  /\ target' = [t \in Targets |-> IF t \in rows THEN Changed("secrets", target[t])
                                  ELSE target[t]]
  /\ access' = [t \in Targets |-> IF t \in rows THEN Invalidated(access[t]) ELSE access[t]]
  /\ session' = [t \in Targets |-> IF t \in rows THEN NoSession ELSE session[t]]
  /\ UNCHANGED <<refresh, task, batch, item, confirm, worker>>

-----------------------------------------------------------------------------
(* The Personal session of an account *)

\* reserveTargetRefresh: the attempt before and its session are over.
ReserveTargetRefresh(f, t) ==
  /\ refresh[f].pc = "new"
  /\ target[t].active
  /\ LET attempt == access[t].attempt + 1 IN
     /\ access' = [access EXCEPT ![t] = [attempt |-> attempt, status |-> "verifying",
                                         revision |-> target[t].revision]]
     /\ refresh' = [refresh EXCEPT ![f] = [pc |-> "reserved", target |-> t,
                                           revision |-> target[t].revision,
                                           attempt |-> attempt]]
  /\ session' = [session EXCEPT ![t] = NoSession]
  /\ UNCHANGED <<target, task, batch, item, confirm, worker>>

Over == [NoRefreshYet EXCEPT !.pc = "over"]

\* Mutant: a later refresh is not noticed.
NotEdited(f) ==
  LET t == refresh[f].target IN
  target[t].active /\ target[t].revision = refresh[f].revision

\* The account is in use and neither edited nor refreshed since.
StillReserved(f) ==
  LET t == refresh[f].target IN
  /\ target[t].active
  /\ target[t].revision = refresh[f].revision
  /\ access[t].attempt = refresh[f].attempt

\* RefreshTargetPersonalAccess after the platform answered.
PublishRefresh(f, status) ==
  /\ refresh[f].pc = "reserved"
  /\ refresh' = [refresh EXCEPT ![f] = Over]
  /\ IF StillReserved(f)
     THEN LET t == refresh[f].target IN
          /\ access' = [access EXCEPT ![t].status = status]
          /\ IF status = "ready"
             THEN session' = [session EXCEPT ![t] =
                    [generation |-> f, revision |-> refresh[f].revision,
                     attempt |-> refresh[f].attempt, expired |-> FALSE]]
             ELSE UNCHANGED session
     ELSE UNCHANGED <<access, session>>
  /\ UNCHANGED <<target, task, batch, item, confirm, worker>>

\* The request ends before it publishes.
AbandonRefresh(f) ==
  /\ refresh[f].pc = "reserved"
  /\ refresh' = [refresh EXCEPT ![f] = Over]
  /\ UNCHANGED <<account, task, batch, item, confirm, worker>>

SessionExpires(t) ==
  /\ session[t].generation # NoRefresh
  /\ ~session[t].expired
  /\ session' = [session EXCEPT ![t].expired = TRUE]
  /\ UNCHANGED <<target, access, refresh, task, batch, item, confirm, worker>>

-----------------------------------------------------------------------------
(* The probe with the saved password: a durable task *)

\* CreateTargetProbe: asked again with the same key it returns the same task.
CreateTargetProbe(t, k) ==
  /\ task[<<t, k>>].status = "none"
  /\ task' = [task EXCEPT ![<<t, k>>].status = "queued"]
  /\ UNCHANGED <<account, refresh, batch, item, confirm, worker>>

\* createTargetProbes: one task for each account of the filter, each in its own
\* transaction; the request may end after any of them.
CreateTargetProbes(k) == \E t \in Targets : CreateTargetProbe(t, k)

\* claim and NextNetworkTaskType: queued, or running under a lease that lapsed.
Claimable(x) ==
  /\ \/ task[x].status = "queued"
     \/ task[x].status = "running" /\ task[x].lapsed
  /\ task[x].attempts < MaxAttempts

\* The lease of a new attempt.
Claim(w, t, k, pc) ==
  /\ worker[w].pc = "idle"
  /\ Claimable(<<t, k>>)
  /\ task' = [task EXCEPT ![<<t, k>>].status = "running", ![<<t, k>>].lapsed = FALSE,
                          ![<<t, k>>].attempts = @ + 1]
  /\ worker' = [worker EXCEPT ![w] = [pc |-> pc, target |-> t, key |-> k,
                                      attempt |-> task[<<t, k>>].attempts + 1,
                                      seen |-> NoEvidence]]
  /\ UNCHANGED <<account, refresh, batch, item, confirm>>

\* claim, under an admitted egress.
ClaimTargetProbe(w, t, k) == Claim(w, t, k, "claimed")

\* claimRejected: egress admits nobody, and the attempt counts all the same.
ClaimRejectedTargetProbe(w, t, k) == Claim(w, t, k, "rejecting")

\* runTargetProbe: the password of an account in use, or a rejection.
TargetProbeTarget(w) ==
  /\ worker[w].pc = "claimed"
  /\ \/ /\ target[worker[w].target].active
        /\ worker' = [worker EXCEPT ![w].pc = "probing",
                        ![w].seen.revision = target[worker[w].target].revision]
     \/ worker' = [worker EXCEPT ![w].pc = "rejecting"]
  /\ UNCHANGED <<account, refresh, task, batch, item, confirm>>

\* WHERE lease_token=$2 AND status='running' AND lease_expires_at>now()
HoldsLease(w) ==
  LET x == <<worker[w].target, worker[w].key>> IN
  /\ task[x].status = "running"
  /\ task[x].attempts = worker[w].attempt
  /\ ~task[x].lapsed

\* The end of a task, whoever ends it.
Ended(row, status, attempt) == [row EXCEPT !.status = status, !.lapsed = FALSE, !.by = attempt]

\* PublishProbeTx: no revision is compared, whichever password was tested.
Probed(row, revision) == [row EXCEPT !.tested = revision]

\* CompleteTargetProbe: lease, result and end of the task are one transaction.
CompleteTargetProbe(w) ==
  /\ worker[w].pc = "probing"
  /\ IF HoldsLease(w)
     THEN /\ \E revision \in {0, worker[w].seen.revision} :
               target' = [target EXCEPT ![worker[w].target] = Probed(@, revision)]
          /\ task' = [task EXCEPT ![<<worker[w].target, worker[w].key>>] =
                        Ended(@, "succeeded", worker[w].attempt)]
     ELSE UNCHANGED <<target, task>>
  /\ worker' = [worker EXCEPT ![w] = Idle]
  /\ UNCHANGED <<access, session, refresh, batch, item, confirm>>

\* RejectTargetProbe: no credentials, no prober or no egress.
RejectTargetProbe(w) ==
  /\ worker[w].pc = "rejecting"
  /\ IF HoldsLease(w)
     THEN /\ target' = [target EXCEPT ![worker[w].target] = Probed(@, 0)]
          /\ task' = [task EXCEPT ![<<worker[w].target, worker[w].key>>] =
                        Ended(@, "failed", worker[w].attempt)]
     ELSE UNCHANGED <<target, task>>
  /\ worker' = [worker EXCEPT ![w] = Idle]
  /\ UNCHANGED <<access, session, refresh, batch, item, confirm>>

\* SettleExhausted: the last attempt lost its lease.
SettleExhausted(t, k) ==
  /\ task[<<t, k>>].status = "running"
  /\ task[<<t, k>>].lapsed
  /\ task[<<t, k>>].attempts >= MaxAttempts
  /\ task' = [task EXCEPT ![<<t, k>>] = Ended(@, "interrupted", task[<<t, k>>].attempts)]
  /\ target' = [target EXCEPT ![t] = Probed(@, 0)]
  /\ UNCHANGED <<access, session, refresh, batch, item, confirm, worker>>

LeaseExpires(t, k) ==
  /\ task[<<t, k>>].status = "running"
  /\ ~task[<<t, k>>].lapsed
  /\ task' = [task EXCEPT ![<<t, k>>].lapsed = TRUE]
  /\ UNCHANGED <<account, refresh, batch, item, confirm, worker>>

\* A worker is gone in the middle of anything, or its transaction failed.
WorkerStops(w) ==
  /\ worker[w].pc # "idle"
  /\ worker' = [worker EXCEPT ![w] = Idle]
  /\ UNCHANGED <<account, refresh, task, batch, item, confirm>>

-----------------------------------------------------------------------------
(* A Personal batch is previewed, confirmed and canceled *)

\* personalTargets: the accounts of the scope with their versions.
CurrentScope == [t \in Targets |-> target[t].version]

PreviewPersonalProbes(c) ==
  /\ confirm[c].pc = "new"
  /\ confirm' = [confirm EXCEPT ![c].pc = "previewed", ![c].token = CurrentScope]
  /\ UNCHANGED <<account, refresh, task, batch, item, worker>>

\* Mutant: the request key alone is compared.
SameKey(c) == "accepted"

\* replayPersonalBatch: the same key answers for the same confirmation only.
ReplayPersonalBatch(c) ==
  IF confirm[c].token = batch.rows THEN "accepted" ELSE "refused"

\* The token is recomputed from what the snapshot resolves.
ScopeConfirmed(c) == confirm[c].token = CurrentScope

\* CreatePersonalProbes up to its INSERT: one repeatable-read snapshot.
OpenPersonalBatch(c) ==
  /\ confirm[c].pc = "previewed"
  /\ confirm' = [confirm EXCEPT
       ![c].pc = IF batch.made THEN ReplayPersonalBatch(c)
                 ELSE IF ScopeConfirmed(c) THEN "inserting" ELSE "refused",
       ![c].rows = CurrentScope]
  /\ UNCHANGED <<account, refresh, task, batch, item, worker>>

\* The INSERT: a concurrent winner of the key is read under a fresh snapshot.
InsertPersonalBatch(c) ==
  /\ confirm[c].pc = "inserting"
  /\ IF batch.made
     THEN /\ confirm' = [confirm EXCEPT ![c].pc = ReplayPersonalBatch(c)]
          /\ UNCHANGED <<batch, item>>
     ELSE /\ confirm' = [confirm EXCEPT ![c].pc = "accepted"]
          /\ batch' = [batch EXCEPT !.made = TRUE, !.rows = confirm[c].rows]
          /\ item' = [t \in Targets |-> [item[t] EXCEPT !.status = "queued"]]
  /\ UNCHANGED <<account, refresh, task, worker>>

\* CancelPersonalProbes: locks the batch before its items, as a claim does.
CancelPersonalProbes ==
  /\ batch.made
  /\ batch' = [batch EXCEPT !.canceled = TRUE]
  /\ item' = [t \in Targets |->
                IF item[t].status \in {"queued", "running"}
                THEN [item[t] EXCEPT !.status = "canceled", !.old = FALSE] ELSE item[t]]
  /\ UNCHANGED <<account, refresh, task, confirm, worker>>

-----------------------------------------------------------------------------
(* A worker measures the items of a batch *)

\* ProcessPersonalProbes up to its first commit: queued items first, then one
\* that has been running for five minutes.
ClaimPersonalItem(w, t) ==
  /\ worker[w].pc = "idle"
  /\ batch.made /\ ~batch.canceled
  /\ \/ item[t].status = "queued"
     \/ /\ item[t].status = "running" /\ item[t].old
        /\ \A u \in Targets : item[u].status # "queued"
  /\ item[t].attempts < MaxProbes
  /\ item' = [item EXCEPT ![t].status = "running", ![t].old = FALSE,
                          ![t].attempts = @ + 1]
  /\ worker' = [worker EXCEPT ![w] = [pc |-> "measuring", target |-> t, key |-> NoKey,
                                      attempt |-> item[t].attempts + 1,
                                      seen |-> NoEvidence]]
  /\ UNCHANGED <<account, refresh, task, batch, confirm>>

\* The session ProbePersonal selects; it is never refreshed here.
SavedSession(t) ==
  /\ target[t].active
  /\ access[t].status = "ready"
  /\ access[t].revision = target[t].revision
  /\ session[t].generation # NoRefresh
  /\ session[t].revision = target[t].revision
  /\ session[t].attempt = access[t].attempt
  /\ ~session[t].expired

\* ProbePersonal: an unreadable session counts as a missing one.
ProbePersonal(w) ==
  LET t == worker[w].target IN
  /\ worker[w].pc = "measuring"
  /\ \/ /\ SavedSession(t)
        /\ worker' = [worker EXCEPT ![w].pc = "measured",
             ![w].seen = [generation |-> session[t].generation, revision |-> target[t].revision]]
     \/ worker' = [worker EXCEPT ![w].pc = "measured"]
  /\ UNCHANGED <<account, refresh, task, batch, item, confirm>>

\* Mutant: any usable session of the account will do.
AccountUsable(w) ==
  LET t == worker[w].target IN
  target[t].active /\ access[t].status = "ready" /\ ~session[t].expired

\* lockPersonalGeneration: the session measured with is still the one saved.
LockPersonalGeneration(w) ==
  LET t == worker[w].target IN
  /\ target[t].active
  /\ target[t].revision = worker[w].seen.revision
  /\ access[t].status = "ready"
  /\ access[t].attempt = session[t].attempt
  /\ session[t].generation = worker[w].seen.generation
  /\ ~session[t].expired

BatchOpen == batch.made /\ ~batch.canceled

\* Mutant: the attempt is not compared.
ItemRuns(w) == item[worker[w].target].status = "running"

\* WHERE item.attempt_count=$3 AND item.status='running'
ItemFence(w) ==
  LET t == worker[w].target IN
  item[t].status = "running" /\ item[t].attempts = worker[w].attempt

\* ProcessPersonalProbes after the measurement.  Without a session it can only fail.
PublishPersonalItem(w, verdict) ==
  LET t == worker[w].target
      measured == worker[w].seen # NoEvidence IN
  /\ worker[w].pc = "measured"
  /\ verdict = "succeeded" => measured
  /\ IF (measured => LockPersonalGeneration(w)) /\ BatchOpen /\ ItemFence(w)
     THEN item' = [item EXCEPT ![t].status = verdict, ![t].old = FALSE,
                                   ![t].by = worker[w].attempt]
     ELSE UNCHANGED item
  /\ worker' = [worker EXCEPT ![w] = Idle]
  /\ UNCHANGED <<account, refresh, task, batch, confirm>>

\* started_at<now()-interval '5 minutes'
ItemAges(t) ==
  /\ item[t].status = "running"
  /\ ~item[t].old
  /\ item' = [item EXCEPT ![t].old = TRUE]
  /\ UNCHANGED <<account, refresh, task, batch, confirm, worker>>

-----------------------------------------------------------------------------

Changes == {"label", "secrets", "subject", "disable", "enable"}

OwnerStep ==
  \/ \E t \in Targets, change \in Changes : UpdateTargetAccount(t, change)
  \/ \E rows \in SUBSET Targets : ImportTargetAccounts(rows)
  \/ \E f \in Refreshes, t \in Targets : ReserveTargetRefresh(f, t)
  \/ \E f \in Refreshes, status \in {"ready", "other"} : PublishRefresh(f, status)
  \/ \E f \in Refreshes : AbandonRefresh(f)
  \/ \E k \in Keys : CreateTargetProbes(k)
  \/ \E c \in Confirms :
       PreviewPersonalProbes(c) \/ OpenPersonalBatch(c) \/ InsertPersonalBatch(c)
  \/ CancelPersonalProbes

WorkerStep(w) ==
  \/ \E t \in Targets, k \in Keys :
       ClaimTargetProbe(w, t, k) \/ ClaimRejectedTargetProbe(w, t, k)
  \/ TargetProbeTarget(w)
  \/ CompleteTargetProbe(w)
  \/ RejectTargetProbe(w)
  \/ \E t \in Targets : ClaimPersonalItem(w, t)
  \/ ProbePersonal(w)
  \/ \E verdict \in Verdicts : PublishPersonalItem(w, verdict)
  \/ WorkerStops(w)

Next ==
  \/ OwnerStep
  \/ \E w \in Workers : WorkerStep(w)
  \/ \E t \in Targets, k \in Keys : SettleExhausted(t, k) \/ LeaseExpires(t, k)
  \/ \E t \in Targets : SessionExpires(t) \/ ItemAges(t)

Spec == Init /\ [][Next]_vars

-----------------------------------------------------------------------------
(* Properties *)

\* A session that is kept belongs to the credentials that are kept: an edit, a
\* disabled account or a newer refresh leaves none behind, whenever the refresh
\* that opens it answers.
SessionIsCurrent ==
  \A t \in Targets : session[t].generation # NoRefresh =>
    /\ target[t].active
    /\ session[t].revision = target[t].revision
    /\ access[t] = [attempt |-> session[t].attempt, revision |-> session[t].revision,
                    status |-> "ready"]

\* A task ends and an item gets its verdict by the last attempt that began: what
\* an earlier worker brings late is dropped, and nothing begins afterwards.
LastAttemptDecides ==
  /\ \A x \in DOMAIN task :
       IF task[x].status \in Terminal THEN task[x].by = task[x].attempts ELSE task[x].by = 0
  /\ \A t \in Targets :
       IF item[t].status \in Verdicts THEN item[t].by = item[t].attempts ELSE item[t].by = 0

\* personal_probe.go:95-97: a verdict reached with a session is published only
\* while that session is the account's, with the credentials that opened it.
VerdictIsCurrent ==
  [][\A w \in Workers, t \in Targets :
       /\ worker[w].pc = "measured" /\ worker[w].target = t
       /\ item'[t].status \in Verdicts /\ item'[t] # item[t]
       /\ worker'[w] # worker[w]
       /\ worker[w].seen # NoEvidence
       => /\ session[t].generation = worker[w].seen.generation
          /\ session[t].revision = target[t].revision
          /\ target[t].active]_vars

\* personal_probes.go:71-72: whoever is told that the batch was accepted confirmed
\* exactly the accounts and versions it was made of, however confirmations with
\* the same key and edits overlap.
AcceptedAsPreviewed ==
  \A c \in Confirms : confirm[c].pc = "accepted" =>
    batch.made /\ batch.rows = confirm[c].token

\* target_http.go:332, 449: an edit of the secrets clears what was measured with
\* the old ones.  Refuted: a probe that was under way brings it back.
ProbeIsOfStored ==
  \A t \in Targets : target[t].tested \in {0, target[t].revision}
=============================================================================
