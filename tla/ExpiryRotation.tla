---------------------------- MODULE ExpiryRotation ----------------------------
(***************************************************************************)
(* Preview, confirmation and revocation of an expiry rotation              *)
(* (expiry_rotation.go, expiry_rotation_capability.go) over the usage and  *)
(* protection ledger (rotationledger/ledger.go) and the writer epochs of   *)
(* migrations 00026 to 00028 (writerfence/epoch.go).                       *)
(*                                                                         *)
(* A request gathers its evidence outside any transaction, query by query, *)
(* while writers commit; the preview reads one snapshot and the            *)
(* confirmation locks the epochs before it reads the facts again.  A       *)
(* preview answers an Owner whose draft selects every account; the roster, *)
(* the expiry and the seat types of the Workspace are one answer of the    *)
(* platform: they agree with a verification, which is named, or not (0).   *)
(***************************************************************************)
EXTENDS Naturals, Sequences, FiniteSets, Functions

CONSTANTS
  Members,      \* accounts on the seats of the Workspace
  Candidates,   \* standby accounts of the draft
  Previews,     \* preview rows
  Keys,         \* idempotency keys of the Owner's pages
  None,         \* no key, no preview, no candidate
  Requests,     \* concurrent requests
  MaxChanges    \* bound on committed changes of covered facts

ASSUME AccountsAssumption == Members \cap Candidates = {}
ASSUME NoneAssumption == None \notin Keys \cup Previews \cup Candidates
ASSUME ChangesAssumption == MaxChanges \in Nat

Accounts == Members \cup Candidates

\* The scopes of the epochs: one for each account; owner, workspace, mother,
\* batch, destination and the two singletons stand together.
Selection == "selection"
Scopes == Accounts \cup {Selection}

VARIABLES
  usage,     \* tsw_rotation_usage_ledger, in the selected and in another Workspace
  protection,\* tsw_rotation_global_protections, "missing" without a row
  delivered, \* accounts with a delivery version in any Workspace
  complete,  \* accounts with complete sealed material
  draft,     \* revision of the selection: draft, verification, batch, destination
  verified,  \* the verification the selection names
  epoch,     \* tsw_rotation_epochs
  preview,   \* tsw_expiry_rotation_previews
  request,   \* requests in progress
  answers    \* history: confirmations answered with an authorization

facts == <<usage, protection, delivered, complete, draft, verified, epoch>>
vars == <<facts, preview, request, answers>>

-----------------------------------------------------------------------------
(* Rows *)

Places == {"here", "elsewhere"}
UsageStates == {"missing", "unknown", "never_used", "used"}
Protections == {"missing", "none", "blocking", "permanent"}
Assignments == [Members -> Candidates \cup {None}]
NotAssigned == [m \in Members |-> None]

\* What the queries about one account returned; read counts them.  absent and
\* clear are the answer of rotationCandidateLedgerLookup.
Rows == [here : UsageStates, protection : Protections, absent : BOOLEAN,
         clear : BOOLEAN, delivered : BOOLEAN, complete : BOOLEAN, read : Nat]

\* No query was made.
Unread == [here |-> "missing", protection |-> "missing", absent |-> FALSE,
           clear |-> FALSE, delivered |-> FALSE, complete |-> FALSE, read |-> 0]

Decisions == {"replaceable", "retained", "eligible", "excluded", "undecided"}

PreviewRow == [status : {"none", "ready", "not_ready", "authorized", "revoked"},
               decision : [Accounts -> Decisions], draft : Nat,
               epochs : [Scopes -> Nat], key : Keys \cup {None},
               assignments : Assignments, expired : BOOLEAN]

Request == [pc : {"idle", "roster", "rows", "facts"},
            act : {"preview", "confirm"}, preview : Previews \cup {None}, key : Keys \cup {None},
            assignments : Assignments, roster : Nat,
            seen : [Accounts -> Rows]]

\* CHECK constraints of migration 00026.
Authorization(p) ==
  /\ (preview[p].status \in {"authorized", "revoked"}) = (preview[p].key # None)
  /\ (preview[p].status \in {"authorized", "revoked"}) =
       (preview[p].assignments # NotAssigned)

TypeOK ==
  /\ usage \in [Accounts -> [Places -> UsageStates]]
  /\ protection \in [Accounts -> Protections]
  /\ delivered \subseteq Accounts /\ complete \subseteq Accounts
  /\ draft \in Nat /\ verified \in Nat /\ epoch \in [Scopes -> Nat]
  /\ preview \in [Previews -> PreviewRow]
  /\ request \in [Requests -> Request]
  /\ \A p \in Previews : Authorization(p)

NoPreview == [status |-> "none", decision |-> [a \in Accounts |-> "undecided"],
              draft |-> 0, epochs |-> [s \in Scopes |-> 0], key |-> None,
              assignments |-> NotAssigned, expired |-> FALSE]

Idle == [pc |-> "idle", act |-> "preview", preview |-> None, key |-> None,
         assignments |-> NotAssigned, roster |-> 0,
         seen |-> [a \in Accounts |-> Unread]]

\* The members were used in the Workspace, the candidates nowhere.
Init ==
  /\ usage = [a \in Accounts |-> [w \in Places |->
                IF a \in Members /\ w = "here" THEN "used" ELSE "missing"]]
  /\ protection = [a \in Accounts |-> "missing"]
  /\ delivered = {} /\ complete = Accounts
  /\ draft = 1 /\ verified = 1 /\ epoch = [s \in Scopes |-> 1]
  /\ preview = [p \in Previews |-> NoPreview]
  /\ request = [r \in Requests |-> Idle]
  /\ answers = {}

-----------------------------------------------------------------------------
(* rotationFacts: the decisions, from the evidence and the facts of now *)

\* blockingRotationProtection; a missing row counts as "none".
Unprotected(status) == status \in {"missing", "none"}

\* Every row of an account, in any Workspace, says never_used.
Clear(a) == \A place \in Places : usage[a][place] \in {"missing", "never_used"}

\* Without a row for the selected Workspace, its use was not observed.
Absent(a) == usage[a]["here"] = "missing"

\* The queries of the evidence for a seat and for a candidate, in their order.
Queries(a) ==
  IF a \in Members THEN <<"usage", "protection">>
  ELSE <<"material", "usage", "protection", "ledger">>

\* What a query returns now, added to what the earlier ones returned.
Answered(a, seen, query) ==
  LET known == [seen EXCEPT !.read = @ + 1] IN
  CASE query = "material" ->
         [known EXCEPT !.complete = a \in complete, !.delivered = a \in delivered]
    [] query = "usage" -> [known EXCEPT !.here = usage[a]["here"]]
    [] query = "protection" -> [known EXCEPT !.protection = protection[a]]
    [] query = "ledger" -> [known EXCEPT !.absent = Absent(a), !.clear = Clear(a)]

Begun(seen) == seen.read > 0
Complete(a, seen) == seen.read >= Len(Queries(a))

\* officialRotationEvidence: the verdict sent with the evidence.
SlotVerdict(seen) ==
  CASE seen.protection = "permanent" -> "retained"
    [] Unprotected(seen.protection) /\ seen.here = "used" -> "replaceable"
    [] Unprotected(seen.protection) /\ seen.here = "never_used" -> "retained"
    [] OTHER -> "undecided"

CandidateVerdict(seen) ==
  IF /\ seen.clear
     /\ seen.absent \/ seen.here = "never_used"
     /\ Unprotected(seen.protection) /\ seen.complete /\ ~seen.delivered
  THEN "eligible" ELSE "excluded"

\* rotationPersistedVerdictMatches: the row of the evidence is the row of now.
\* The rows of other Workspaces count where the absence of use was claimed.
VerdictMatches(a, seen) ==
  /\ seen.here = usage[a]["here"]
  /\ seen.protection = protection[a]
  /\ a \in Candidates /\ CandidateVerdict(seen) = "eligible" =>
       Clear(a) /\ Absent(a) = seen.absent

Valid(a, seen) == Complete(a, seen) /\ VerdictMatches(a, seen)

SlotDecision(a, seen) ==
  IF ~Valid(a, seen) THEN "undecided"
  ELSE IF a \in delivered
       THEN IF seen.protection = "permanent" THEN "retained" ELSE "undecided"
       ELSE SlotVerdict(seen)

\* An account that was used here or is protected for good is excluded for
\* certain; every other exclusion keeps the preview from being ready.
CandidateDecision(a, seen) ==
  IF ~Valid(a, seen) \/ a \notin complete \/ seen.protection = "blocking" THEN "undecided"
  ELSE CASE
       CandidateVerdict(seen) = "eligible" ->
         IF a \in delivered THEN "undecided" ELSE "eligible"
    [] seen.here = "used" \/ (seen.protection = "permanent" /\ seen.here # "never_used") -> "excluded"
    [] OTHER -> "undecided"

Decision(a, seen) ==
  IF a \in Members THEN SlotDecision(a, seen) ELSE CandidateDecision(a, seen)

Decided(decision, d) == {a \in Accounts : decision[a] = d}

\* The evidence is about the verification of the current selection, whatever
\* else of the selection has changed since.
Ready(decision, roster) ==
  /\ roster = verified
  /\ Decided(decision, "undecided") = {}
  /\ Decided(decision, "replaceable") # {}
  /\ Cardinality(Decided(decision, "eligible")) = Cardinality(Decided(decision, "replaceable"))

\* rotationAssignments: a bijection of the replaceable seats and the candidates.
Assigned(decision, assignments) ==
  /\ \A m \in Members : (assignments[m] # None) = (decision[m] = "replaceable")
  /\ \A m \in Decided(decision, "replaceable") :
       assignments[m] \in Decided(decision, "eligible")
  /\ \A m, n \in Members : assignments[m] = assignments[n] /\ assignments[m] # None => m = n
  /\ assignments # NotAssigned

-----------------------------------------------------------------------------
(* Requests *)

Update(r, row) == request' = [request EXCEPT ![r] = row]
Return(r) == Update(r, Idle)
At(r, pc) == request[r].pc = pc

PreviewExpiryRotation(r) ==
  /\ At(r, "idle")
  /\ Update(r, [Idle EXCEPT !.pc = "roster"])
  /\ UNCHANGED <<facts, preview, answers>>

\* Mutant: an authorization is confirmed to every page that shows it.
ReplaysAny(row, key, assignments) == row.assignments = assignments

\* The exact replay of a confirmation.
Replays(row, key, assignments) == row.key = key /\ row.assignments = assignments

\* ConfirmExpiryRotation up to its evidence: the row is read without keeping a lock.
ConfirmExpiryRotation(r) ==
  /\ At(r, "idle")
  /\ \E p \in Previews, key \in Keys, assignments \in Assignments :
       LET row == preview[p] IN
       \/ /\ row.status = "authorized"
          /\ Replays(row, key, assignments)
          /\ answers' = answers \cup {<<p, key, assignments>>}
          /\ UNCHANGED request
       \/ /\ row.status = "ready"
          /\ Assigned(row.decision, assignments)
          /\ ~row.expired
          /\ Update(r, [Idle EXCEPT !.pc = "roster", !.act = "confirm", !.preview = p,
                                    !.key = key, !.assignments = assignments])
          /\ UNCHANGED answers
  /\ UNCHANGED <<facts, preview>>

\* officialRotationEvidence: two reads of the roster must agree.  Without them, or
\* when they are not what the verification says, no row makes a preview ready: it
\* is kept as it is, and a confirmation is a conflict.
ReadRoster(r) ==
  /\ At(r, "roster")
  /\ \/ Update(r, [request[r] EXCEPT !.pc = "rows", !.roster = verified])
     \/ IF request[r].act = "preview"
        THEN Update(r, [request[r] EXCEPT !.pc = "facts"])
        ELSE Return(r)
  /\ UNCHANGED <<facts, preview, answers>>

\* The next query about one account, of rotationEvidenceFromSnapshot,
\* persistedRotationEvidence or rotationCandidateLedgerLookup: the seats come
\* first, and one account after the other.
ReadRows(r, a) ==
  LET seen == request[r].seen
      row == Answered(a, seen[a], Queries(a)[seen[a].read + 1]) IN
  /\ At(r, "rows")
  /\ ~Complete(a, seen[a])
  /\ \A b \in Accounts \ {a} : Begun(seen[b]) => Complete(b, seen[b])
  /\ a \in Candidates => \A m \in Members : Complete(m, seen[m])
  /\ Update(r, [request[r] EXCEPT !.seen[a] = row,
                  !.pc = IF \A b \in Accounts :
                              Complete(b, IF b = a THEN row ELSE seen[b])
                         THEN "facts" ELSE "rows"])
  /\ UNCHANGED <<facts, preview, answers>>

FreshDecisions(r) == [a \in Accounts |-> Decision(a, request[r].seen[a])]

\* The repeatable-read transaction of PreviewExpiryRotation: facts and epochs
\* are of one snapshot; a proof may be older than five minutes by now.
InsertPreview(r) ==
  LET decision == FreshDecisions(r) IN
  /\ At(r, "facts")
  /\ request[r].act = "preview"
  /\ \E p \in Previews, status \in {"ready", "not_ready"} :
       /\ preview[p].status = "none"
       /\ status = "ready" => Ready(decision, request[r].roster)
       /\ preview' = [preview EXCEPT ![p] =
            [NoPreview EXCEPT !.status = status, !.decision = decision,
                              !.draft = draft, !.epochs = epoch]]
  /\ Return(r)
  /\ UNCHANGED <<facts, answers>>

\* Mutant: a fresh preview that is ready is good enough.
StillReady(row, decision) == TRUE

\* rotationComparableDigest: the fresh preview is the confirmed one, its usage
\* and protection included, which decide.
SameFacts(row, decision) ==
  /\ decision = row.decision
  /\ draft = row.draft
  /\ epoch = row.epochs

KeyFree(key) == \A p \in Previews : preview[p].key # key

Authorized(row, key, assignments) ==
  [row EXCEPT !.status = "authorized", !.key = key, !.assignments = assignments]

\* The transaction of ConfirmExpiryRotation under the locked epochs: a replay, or
\* the authorization of unchanged facts; everything else is a conflict.
Authorize(r) ==
  LET p == request[r].preview
      row == preview[p]
      decision == FreshDecisions(r) IN
  /\ At(r, "facts")
  /\ request[r].act = "confirm"
  /\ \/ /\ row.status = "authorized"
        /\ Replays(row, request[r].key, request[r].assignments)
        /\ UNCHANGED preview
     \/ /\ row.status = "ready"
        /\ ~row.expired
        /\ Ready(decision, request[r].roster)
        /\ Assigned(decision, request[r].assignments)
        /\ SameFacts(row, decision)
        /\ KeyFree(request[r].key)
        /\ preview' = [preview EXCEPT ![p] =
                         Authorized(row, request[r].key, request[r].assignments)]
  /\ answers' = answers \cup {<<p, request[r].key, request[r].assignments>>}
  /\ Return(r)
  /\ UNCHANGED <<facts>>

\* An error, a conflict, an old proof, a timeout or the end of the process.
Fail(r) ==
  /\ ~At(r, "idle")
  /\ Return(r)
  /\ UNCHANGED <<facts, preview, answers>>

\* Mutant: the revocation gives the key back.
ReleasedRow(row) == [row EXCEPT !.status = "revoked", !.key = None]

RevokedRow(row) == [row EXCEPT !.status = "revoked"]

\* RevokeExpiryRotation; the stop of the removal is in RotationRemoval.
RevokeExpiryRotation(p) ==
  /\ preview[p].status = "authorized"
  /\ preview' = [preview EXCEPT ![p] = RevokedRow(preview[p])]
  /\ UNCHANGED <<facts, request, answers>>

-----------------------------------------------------------------------------
(* Writers of covered facts, each with the triggers of its table *)

\* tsw_rotation_epoch_advance: waits for the locks of a confirmation, which is
\* one step here.
Advance(s) == epoch' = [epoch EXCEPT ![s] = @ + 1]

\* The bound: each change adds one to one epoch.
Changeable == FoldFunction(+, 0, epoch) < Cardinality(Scopes) + MaxChanges

\* RecordUsage: "used" and "never_used" stay.
Recorded(old, new) ==
  IF "used" \in {old, new} THEN "used"
  ELSE IF "never_used" \in {old, new} THEN "never_used" ELSE "unknown"

RecordUsage(a, place, state) ==
  /\ Changeable
  /\ usage' = [usage EXCEPT ![a][place] = Recorded(@, state)]
  /\ Advance(a)
  /\ UNCHANGED <<protection, delivered, complete, draft, verified, preview, request, answers>>

\* SetProtection with tsw_rotation_protection_guard: only a sale is for good.
SetProtection(a, status) ==
  /\ Changeable
  /\ protection[a] = "permanent" => status = "permanent"
  /\ protection' = [protection EXCEPT ![a] = status]
  /\ Advance(a)
  /\ UNCHANGED <<usage, delivered, complete, draft, verified, preview, request, answers>>

\* Mutant: the table of delivery versions has no trigger.
DeliverUnfenced(a) ==
  /\ delivered' = delivered \cup {a}
  /\ UNCHANGED <<usage, protection, complete, draft, verified, epoch, preview, request, answers>>

\* tsw_rotation_epoch_relation on delivery versions, of any Workspace.
DeliverAccount(a) ==
  /\ Changeable
  /\ delivered' = delivered \cup {a}
  /\ Advance(a)
  /\ UNCHANGED <<usage, protection, complete, draft, verified, preview, request, answers>>

ChangeMaterial(a) ==
  /\ Changeable
  /\ complete' = IF a \in complete THEN complete \ {a} ELSE complete \cup {a}
  /\ Advance(a)
  /\ UNCHANGED <<usage, protection, delivered, draft, verified, preview, request, answers>>

\* A new draft, session, batch or destination, with the same verification or
\* another one.
ChangeSelection ==
  /\ Changeable
  /\ draft' = draft + 1
  /\ verified' \in {verified, draft + 1}
  /\ Advance(Selection)
  /\ UNCHANGED <<usage, protection, delivered, complete, preview, request, answers>>

PreviewExpires(p) ==
  /\ preview[p].status = "ready"
  /\ ~preview[p].expired
  /\ preview' = [preview EXCEPT ![p].expired = TRUE]
  /\ UNCHANGED <<facts, request, answers>>

-----------------------------------------------------------------------------
RequestStep(r) ==
  \/ PreviewExpiryRotation(r) \/ ConfirmExpiryRotation(r)
  \/ ReadRoster(r)
  \/ \E a \in Accounts : ReadRows(r, a)
  \/ InsertPreview(r) \/ Authorize(r) \/ Fail(r)

Writer ==
  \/ \E a \in Accounts :
       \/ \E place \in Places, state \in UsageStates \ {"missing"} : RecordUsage(a, place, state)
       \/ \E status \in Protections \ {"missing"} : SetProtection(a, status)
       \/ DeliverAccount(a)
       \/ ChangeMaterial(a)
  \/ ChangeSelection

Next ==
  \/ \E r \in Requests : RequestStep(r)
  \/ \E p \in Previews : RevokeExpiryRotation(p) \/ PreviewExpires(p)
  \/ Writer

Spec == Init /\ [][Next]_vars

-----------------------------------------------------------------------------
(* Properties *)

\* What was confirmed stays what it was: every confirmation that was answered
\* with an authorization belongs to a row with its key and its assignments, and
\* a key never answers for two previews (ConfirmExpiryRotation, UNIQUE(owner_id,
\* idempotency_key)), whatever raced, failed, was repeated or revoked.
AnswersStand ==
  \A x, y \in answers :
    /\ LET row == preview[x[1]] IN
       row.status \in {"authorized", "revoked"} /\ row.key = x[2] /\ row.assignments = x[3]
    /\ x[2] = y[2] => x = y

\* The seats of the authorization are used, unprotected and without a delivery,
\* its candidates clear of use in every Workspace, unprotected, undelivered and
\* complete.
Sound(p) ==
  \A m \in Members : preview[p].assignments[m] # None =>
    LET c == preview[p].assignments[m] IN
    /\ usage[m]["here"] = "used" /\ Unprotected(protection[m]) /\ m \notin delivered
    /\ Clear(c) /\ Unprotected(protection[c]) /\ c \in complete \ delivered

\* An authorization whose epochs are still current rests on facts that still
\* hold, although its evidence was read outside the fence (rotationLocalFacts of
\* the removal and the join check nothing but the epochs).
EpochsCoverFacts ==
  \A p \in Previews :
    preview[p].status = "authorized" /\ preview[p].epochs = epoch =>
      Sound(p) /\ draft = preview[p].draft

\* A preview is only authorized for the facts its Owner confirmed: nothing
\* covered has changed since its snapshot, and they hold at this moment.
AuthorizedAsConfirmed ==
  [][\A p \in Previews :
       preview[p].status = "ready" /\ preview'[p].status = "authorized" =>
         /\ preview[p].epochs = epoch
         /\ draft = preview[p].draft
         /\ preview'[p].decision = preview[p].decision
         /\ Sound(p)']_vars
=============================================================================
