--------------------------- MODULE PreviewProofs ----------------------------
(***************************************************************************)
(* Proofs of what an expiry preview rests on: the evidence about its       *)
(* Workspace (WorkspaceAccess) and the preview with its confirmation       *)
(* (ExpiryRotation).  The two components share no variable; a theorem of   *)
(* one speaks of its own specification.                                    *)
(*                                                                         *)
(* ExpiryRotation: its rows keep their types, a confirmation that was      *)
(* answered stands, and an authorization whose epochs are current rests on *)
(* facts that hold.  The evidence of a request carries no invariant: what  *)
(* was read outside the fence may be worth nothing by the time it is used, *)
(* and the confirmation compares each row of it with the row of now.  What *)
(* carries over time is that epochs only grow (EpochsBehind), so that a    *)
(* writer takes the current epochs from every earlier preview at once, and *)
(* that a key is stored once (KeysStoredOnce).                             *)
(*                                                                         *)
(* WorkspaceAccess: rows keep the constraints of their tables, nothing of  *)
(* replaced credentials comes back, and evidence that may be chosen is of  *)
(* now.  What carries is that an attempt in flight knows where its row is  *)
(* (AttemptsCarried) and that exchanges are numbered once and grow with    *)
(* the reads of a Workspace (RowsNumbered): a read whose exchange is still *)
(* the one of the token was touched by nothing.                            *)
(***************************************************************************)
EXTENDS ExpiryRotation, WorkspaceAccess, SequenceTheorems, TLAPS

-----------------------------------------------------------------------------
(* ExpiryRotation *)

\* A confirmation names the preview and the key it is about.
Named(row) == row.act = "confirm" => row.preview \in Previews /\ row.key \in Keys
RequestsNamed == \A r \in Requests : Named(request[r])

\* The epochs of a preview are of the past or of now.
EpochsBehind == \A p \in Previews : \A s \in Scopes : preview[p].epochs[s] <= epoch[s]

\* UNIQUE(owner_id, idempotency_key).
KeysStoredOnce ==
  \A p, q \in Previews : preview[p].key = preview[q].key /\ preview[p].key # None => p = q

Confirmations == Previews \X Keys \X Assignments

\* An answered confirmation is the one its row keeps.
Kept(x) ==
  /\ preview[x[1]].status \in {"authorized", "revoked"}
  /\ preview[x[1]].key = x[2] /\ preview[x[1]].assignments = x[3]

AnswersKept == answers \subseteq Confirmations /\ \A x \in answers : Kept(x)

IInv == TypeOK /\ RequestsNamed /\ EpochsBehind /\ KeysStoredOnce /\ AnswersKept
        /\ EpochsCoverFacts

-----------------------------------------------------------------------------
(* Lemmas about the operators of the model *)

\* The answer to the next query about an account is a row.
LEMMA AnswerTyped ==
  ASSUME TypeOK, NEW a \in Accounts, NEW seen \in Rows, ~Complete(a, seen)
  PROVE  Answered(a, seen, Queries(a)[seen.read + 1]) \in Rows
<1> DEFINE query == Queries(a)[seen.read + 1]
<1>1. query \in {"material", "usage", "protection", "ledger"}
  <2>1. seen.read \in Nat
    BY DEF Rows
  <2>2. CASE a \in Members
    <3>1. Queries(a) = <<"usage", "protection">>
      BY <2>2 DEF Queries
    <3>2. seen.read = 0 \/ seen.read = 1
      BY <2>1, <3>1 DEF Complete
    <3> QED BY <3>1, <3>2
  <2>3. CASE a \notin Members
    <3>1. Queries(a) = <<"material", "usage", "protection", "ledger">>
      BY <2>3 DEF Queries
    <3>2. seen.read \in 0..3
      BY <2>1, <3>1 DEF Complete
    <3> QED BY <3>1, <3>2
  <2> QED BY <2>2, <2>3
<1>2. usage[a]["here"] \in UsageStates /\ protection[a] \in Protections
  <2>1. usage[a] \in [Places -> UsageStates] /\ protection[a] \in Protections
    BY DEF TypeOK
  <2> QED BY <2>1 DEF Places
<1>3. Absent(a) \in BOOLEAN /\ Clear(a) \in BOOLEAN
  BY DEF Absent, Clear
<1> DEFINE known == [seen EXCEPT !.read = @ + 1]
<1>4. known \in Rows
  BY DEF Rows
<1> HIDE DEF query, known
<1>5. \A x, y \in BOOLEAN : /\ [known EXCEPT !.complete = x, !.delivered = y] \in Rows
                             /\ [known EXCEPT !.absent = x, !.clear = y] \in Rows
  BY <1>4 DEF Rows
<1>6. (a \in complete) \in BOOLEAN /\ (a \in delivered) \in BOOLEAN
  OBVIOUS
<1>7. CASE query = "material"
  <2>1. Answered(a, seen, query) = [known EXCEPT !.complete = a \in complete,
                                                  !.delivered = a \in delivered]
    BY <1>7 DEF Answered, known
  <2> QED BY <2>1, <1>5, <1>6 DEF query
<1>8. CASE query = "ledger"
  <2>1. Answered(a, seen, query) = [known EXCEPT !.absent = Absent(a), !.clear = Clear(a)]
    BY <1>8 DEF Answered, known
  <2> QED BY <2>1, <1>3, <1>5 DEF query
<1>9. CASE query = "usage" \/ query = "protection"
  BY <1>2, <1>4, <1>9 DEF Answered, Rows, known, query
<1> QED BY <1>1, <1>7, <1>8, <1>9

LEMMA DecisionTyped ==
  ASSUME NEW a \in Accounts, NEW seen \in Rows
  PROVE  Decision(a, seen) \in Decisions
<1>1. SlotVerdict(seen) \in Decisions
  BY DEF SlotVerdict, Decisions
<1>2. SlotDecision(a, seen) \in Decisions
  BY <1>1 DEF SlotDecision, Decisions
<1>3. CandidateDecision(a, seen) \in Decisions
  BY DEF CandidateDecision, Decisions
<1> QED BY <1>2, <1>3 DEF Decision

LEMMA FreshTyped ==
  ASSUME TypeOK, NEW r \in Requests
  PROVE  FreshDecisions(r) \in [Accounts -> Decisions]
<1>1. \A a \in Accounts : request[r].seen[a] \in Rows
  BY DEF TypeOK, Request
<1> QED BY <1>1, DecisionTyped DEF FreshDecisions

\* A seat to replace was used, is not protected and was never delivered; the
\* row that was seen is the row of now.
LEMMA ReplaceableNow ==
  ASSUME NEW a \in Accounts, NEW seen \in Rows, Decision(a, seen) = "replaceable"
  PROVE  /\ a \in Members
         /\ usage[a]["here"] = "used" /\ Unprotected(protection[a]) /\ a \notin delivered
<1>1. a \in Members
  BY DEF Decision, CandidateDecision
<1>2. SlotDecision(a, seen) = "replaceable"
  BY <1>1 DEF Decision
<1>3. Valid(a, seen) /\ a \notin delivered /\ SlotVerdict(seen) = "replaceable"
  BY <1>2 DEF SlotDecision
<1>4. seen.here = "used" /\ Unprotected(seen.protection)
  BY <1>3 DEF SlotVerdict
<1>5. seen.here = usage[a]["here"] /\ seen.protection = protection[a]
  BY <1>3 DEF Valid, VerdictMatches
<1> QED BY <1>1, <1>3, <1>4, <1>5 DEF Unprotected

\* An eligible candidate is clear in every Workspace now, not only in the rows
\* that were seen.
LEMMA EligibleNow ==
  ASSUME NEW a \in Accounts, NEW seen \in Rows, Decision(a, seen) = "eligible"
  PROVE  Clear(a) /\ Unprotected(protection[a]) /\ a \in complete \ delivered
<1>1. a \in Candidates /\ a \notin Members
  <2>1. SlotVerdict(seen) # "eligible"
    BY DEF SlotVerdict
  <2>2. SlotDecision(a, seen) # "eligible"
    BY <2>1 DEF SlotDecision
  <2> QED BY <2>2 DEF Decision, Accounts
<1>2. CandidateDecision(a, seen) = "eligible"
  BY <1>1 DEF Decision
<1>3. /\ Valid(a, seen) /\ a \in complete /\ a \notin delivered
      /\ CandidateVerdict(seen) = "eligible"
  BY <1>2 DEF CandidateDecision
<1>4. Clear(a) /\ seen.protection = protection[a]
  BY <1>1, <1>3 DEF Valid, VerdictMatches
<1>5. Unprotected(seen.protection)
  BY <1>3 DEF CandidateVerdict
<1> QED BY <1>3, <1>4, <1>5 DEF Unprotected

\* What Sound says of the assignments, whatever the preview they are kept in.
SoundFor(assignments) ==
  \A m \in Members : assignments[m] # None =>
    LET c == assignments[m] IN
    /\ usage[m]["here"] = "used" /\ Unprotected(protection[m]) /\ m \notin delivered
    /\ Clear(c) /\ Unprotected(protection[c]) /\ c \in complete \ delivered

\* Soundness is about the facts and the frozen assignments only.
LEMMA SoundStays ==
  ASSUME NEW q \in Previews, UNCHANGED <<usage, protection, delivered, complete>>,
         preview'[q].assignments = preview[q].assignments
  PROVE  Sound(q) <=> Sound(q)'
BY DEF Sound, Unprotected, Clear

\* Assignments that follow the fresh decisions are sound for the facts of now,
\* although the evidence may be old.
LEMMA AssignedSound ==
  ASSUME TypeOK, NEW r \in Requests, NEW assignments \in Assignments,
         Assigned(FreshDecisions(r), assignments)
  PROVE  SoundFor(assignments)
<1> SUFFICES ASSUME NEW m \in Members, assignments[m] # None
             PROVE  /\ usage[m]["here"] = "used" /\ Unprotected(protection[m]) /\ m \notin delivered
                    /\ Clear(assignments[m]) /\ Unprotected(protection[assignments[m]])
                    /\ assignments[m] \in complete \ delivered
  BY DEF SoundFor
<1> DEFINE decision == FreshDecisions(r)  c == assignments[m]
<1>1. \A a \in Accounts : request[r].seen[a] \in Rows
  BY DEF TypeOK, Request
<1>2. m \in Accounts /\ decision[m] = "replaceable"
  BY DEF Assigned, Accounts
<1>3. c \in Accounts /\ decision[c] = "eligible"
  BY <1>2 DEF Assigned, Decided
<1>4. Decision(m, request[r].seen[m]) = "replaceable"
  BY <1>2 DEF FreshDecisions
<1>5. Decision(c, request[r].seen[c]) = "eligible"
  BY <1>3 DEF FreshDecisions
<1> QED BY <1>1, <1>2, <1>3, <1>4, <1>5, ReplaceableNow, EligibleNow

-----------------------------------------------------------------------------
(* The steps *)

\* A step of a request that leaves the previews and the answers alone.
LEMMA RequestMoves ==
  ASSUME IInv, UNCHANGED <<facts, preview, answers>>, request' \in [Requests -> Request],
         \A r \in Requests : Named(request'[r])
  PROVE  IInv'
<1>1. UNCHANGED <<usage, protection, delivered, complete, draft, verified, epoch>>
  BY DEF facts
<1>2. TypeOK'
  BY <1>1 DEF IInv, TypeOK, Authorization
<1>3. RequestsNamed' /\ EpochsBehind' /\ KeysStoredOnce' /\ AnswersKept'
  BY <1>1 DEF IInv, RequestsNamed, EpochsBehind, KeysStoredOnce, AnswersKept, Kept
<1>4. EpochsCoverFacts'
  <2>1. \A q \in Previews : Sound(q) => Sound(q)'
    BY <1>1, SoundStays
  <2> QED BY <1>1, <2>1 DEF IInv, EpochsCoverFacts
<1> QED BY <1>2, <1>3, <1>4 DEF IInv

LEMMA IdleTyped == Idle \in Request /\ Named(Idle)
<1>1. NotAssigned \in Assignments
  BY DEF NotAssigned, Assignments
<1>2. Unread \in Rows
  BY DEF Unread, Rows, UsageStates, Protections
<1> QED BY <1>1, <1>2 DEF Idle, Request, Named

LEMMA ReturnTyped ==
  ASSUME IInv, NEW r \in Requests, NEW row \in Request, Named(row), Update(r, row)
  PROVE  /\ request' \in [Requests -> Request]
         /\ \A q \in Requests : Named(request'[q])
BY DEF IInv, TypeOK, RequestsNamed, Update

LEMMA GatherKeeps ==
  ASSUME IInv, NEW r \in Requests,
         \/ PreviewExpiryRotation(r) \/ ReadRoster(r) \/ Fail(r)
         \/ \E a \in Accounts : ReadRows(r, a)
  PROVE  IInv'
<1>0. request[r] \in Request /\ Named(request[r]) /\ verified \in Nat
  BY DEF IInv, TypeOK, RequestsNamed
<1>1. CASE PreviewExpiryRotation(r)
  <2>1. [Idle EXCEPT !.pc = "roster"] \in Request /\ Named([Idle EXCEPT !.pc = "roster"])
    BY IdleTyped DEF Request, Named
  <2> QED BY <1>1, <2>1, ReturnTyped, RequestMoves DEF PreviewExpiryRotation
<1>2. CASE ReadRoster(r)
  <2>1. /\ [request[r] EXCEPT !.pc = "rows", !.roster = verified] \in Request
        /\ Named([request[r] EXCEPT !.pc = "rows", !.roster = verified])
    BY <1>0 DEF Request, Named
  <2>2. /\ [request[r] EXCEPT !.pc = "facts"] \in Request
        /\ Named([request[r] EXCEPT !.pc = "facts"])
    BY <1>0 DEF Request, Named
  <2>3. \E row \in Request : Named(row) /\ Update(r, row)
    BY <1>2, <2>1, <2>2, IdleTyped DEF ReadRoster, Return
  <2> QED BY <1>2, <2>3, ReturnTyped, RequestMoves DEF ReadRoster
<1>3. CASE Fail(r)
  BY <1>3, IdleTyped, ReturnTyped, RequestMoves DEF Fail, Return
<1>4. ASSUME NEW a \in Accounts, ReadRows(r, a) PROVE IInv'
  <2> DEFINE old == request[r].seen
             answer == Answered(a, old[a], Queries(a)[old[a].read + 1])
             pc == IF \A b \in Accounts : Complete(b, IF b = a THEN answer ELSE old[b])
                   THEN "facts" ELSE "rows"
             seen == [old EXCEPT ![a] = answer]
             row == [request[r] EXCEPT !.seen[a] = answer, !.pc = pc]
  <2>0. old \in [Accounts -> Rows] /\ answer \in Rows
    <3>1. old \in [Accounts -> Rows]
      BY <1>0 DEF Request
    <3>2. ~Complete(a, old[a])
      BY <1>4 DEF ReadRows
    <3> QED BY <3>1, <3>2, AnswerTyped DEF IInv
  <2>4. Update(r, row) /\ UNCHANGED <<facts, preview, answers>>
    BY <1>4 DEF ReadRows
  <2>5. pc \in {"facts", "rows"}
    OBVIOUS
  <2> HIDE DEF answer, pc
  <2>1. seen \in [Accounts -> Rows]
    BY <2>0
  <2>2. row = [request[r] EXCEPT !.seen = seen, !.pc = pc]
    BY <1>0 DEF Request
  <2>3. row \in Request /\ Named(row)
    BY <1>0, <2>1, <2>2, <2>5 DEF Request, Named
  <2> QED BY <2>3, <2>4, ReturnTyped, RequestMoves
<1> QED BY <1>1, <1>2, <1>3, <1>4

\* An answer is added for a row that keeps it; the previews stay.
LEMMA AnswerKept ==
  ASSUME AnswersKept, NEW x \in Confirmations, Kept(x)', answers' = answers \cup {x},
         \A y \in answers : Kept(y)'
  PROVE  AnswersKept'
BY DEF AnswersKept

LEMMA ConfirmKeeps ==
  ASSUME IInv, NEW r \in Requests, ConfirmExpiryRotation(r)
  PROVE  IInv'
<1> PICK p \in Previews, key \in Keys, assignments \in Assignments :
      LET row == preview[p] IN
       \/ /\ row.status = "authorized"
          /\ Replays(row, key, assignments)
          /\ answers' = answers \cup {<<p, key, assignments>>}
          /\ UNCHANGED request
       \/ /\ row.status = "ready"
          /\ Assigned(row.decision, assignments)
          /\ ~row.expired
          /\ Update(r, [Idle EXCEPT !.pc = "roster", !.act = "confirm", !.preview = p,
                                    !.key = key, !.assignments = assignments])
          /\ UNCHANGED answers
  BY DEF ConfirmExpiryRotation
<1>0. UNCHANGED <<facts, preview>> /\ UNCHANGED <<usage, protection, delivered, complete, draft, verified, epoch, preview>>
  BY DEF ConfirmExpiryRotation, facts
<1>1. CASE /\ preview[p].status = "authorized"
           /\ Replays(preview[p], key, assignments)
           /\ answers' = answers \cup {<<p, key, assignments>>}
           /\ UNCHANGED request
  <2> DEFINE x == <<p, key, assignments>>
  <2>1. x \in Confirmations /\ Kept(x)' /\ \A y \in answers : Kept(y)'
    BY <1>0, <1>1 DEF Confirmations, Kept, Replays, IInv, AnswersKept
  <2>2. AnswersKept'
    BY <1>1, <2>1, AnswerKept DEF IInv
  <2>3. TypeOK'
    BY <1>0, <1>1 DEF IInv, TypeOK, Authorization
  <2>4. RequestsNamed' /\ EpochsBehind' /\ KeysStoredOnce'
    BY <1>0, <1>1 DEF IInv, RequestsNamed, EpochsBehind, KeysStoredOnce
  <2>5. EpochsCoverFacts'
    <3>1. \A q \in Previews : Sound(q) => Sound(q)'
      BY <1>0, SoundStays
    <3> QED BY <1>0, <3>1 DEF IInv, EpochsCoverFacts
  <2> QED BY <2>2, <2>3, <2>4, <2>5 DEF IInv
<1>2. CASE /\ Update(r, [Idle EXCEPT !.pc = "roster", !.act = "confirm", !.preview = p,
                                     !.key = key, !.assignments = assignments])
           /\ UNCHANGED answers
  <2> DEFINE row == [Idle EXCEPT !.pc = "roster", !.act = "confirm", !.preview = p,
                                 !.key = key, !.assignments = assignments]
  <2>1. row \in Request /\ Named(row)
    BY IdleTyped DEF Request, Named
  <2> QED BY <1>0, <1>2, <2>1, ReturnTyped, RequestMoves
<1> QED BY <1>1, <1>2

LEMMA InsertKeeps ==
  ASSUME IInv, NEW r \in Requests, InsertPreview(r)
  PROVE  IInv'
<1> DEFINE decision == FreshDecisions(r)
<1> PICK p \in Previews, status \in {"ready", "not_ready"} :
       /\ preview[p].status = "none"
       /\ preview' = [preview EXCEPT ![p] =
            [NoPreview EXCEPT !.status = status, !.decision = decision,
                              !.draft = draft, !.epochs = epoch]]
  BY DEF InsertPreview
<1> DEFINE new == [NoPreview EXCEPT !.status = status, !.decision = decision,
                                    !.draft = draft, !.epochs = epoch]
<1>0. /\ UNCHANGED <<usage, protection, delivered, complete, draft, verified, epoch, answers>>
      /\ draft \in Nat /\ epoch \in [Scopes -> Nat] /\ preview \in [Previews -> PreviewRow]
  BY DEF InsertPreview, facts, IInv, TypeOK
<1>1. new \in PreviewRow /\ new.status = status /\ new.key = None
      /\ new.assignments = NotAssigned /\ new.epochs = epoch
  <2>1. NotAssigned \in Assignments
    BY DEF NotAssigned, Assignments
  <2>2. decision \in [Accounts -> Decisions]
    BY FreshTyped DEF IInv
  <2> QED BY <1>0, <2>1, <2>2 DEF NoPreview, PreviewRow
<1>2. preview' \in [Previews -> PreviewRow] /\ preview'[p] = new
      /\ \A q \in Previews : q # p => preview'[q] = preview[q]
  BY <1>0, <1>1
<1>3. request' \in [Requests -> Request] /\ \A q \in Requests : Named(request'[q])
  BY IdleTyped, ReturnTyped DEF InsertPreview, Return
<1>4. TypeOK'
  <2>1. \A q \in Previews : Authorization(q)'
    BY <1>1, <1>2 DEF IInv, TypeOK, Authorization
  <2> QED BY <1>0, <1>2, <1>3, <2>1 DEF IInv, TypeOK
<1>5. RequestsNamed'
  BY <1>3 DEF RequestsNamed
<1>6. EpochsBehind'
  BY <1>0, <1>1, <1>2 DEF IInv, EpochsBehind
<1>7. KeysStoredOnce'
  BY <1>1, <1>2 DEF IInv, KeysStoredOnce
<1>8. AnswersKept'
  <2>1. \A x \in answers : x[1] \in Previews /\ x[1] # p
    BY DEF IInv, AnswersKept, Kept, Confirmations
  <2> QED BY <1>0, <1>2, <2>1 DEF IInv, AnswersKept, Kept
<1>9. EpochsCoverFacts'
  <2>1. \A q \in Previews : q # p /\ Sound(q) => Sound(q)'
    BY <1>0, <1>2, SoundStays
  <2> QED BY <1>0, <1>1, <1>2, <2>1 DEF IInv, EpochsCoverFacts
<1> QED BY <1>4, <1>5, <1>6, <1>7, <1>8, <1>9 DEF IInv

\* The two outcomes of the transaction of a confirmation.
LEMMA AuthorizeCases ==
  ASSUME IInv, NEW r \in Requests, Authorize(r)
  PROVE  LET p == request[r].preview  key == request[r].key
             assignments == request[r].assignments IN
         /\ p \in Previews /\ key \in Keys /\ assignments \in Assignments
         /\ answers' = answers \cup {<<p, key, assignments>>}
         /\ UNCHANGED <<usage, protection, delivered, complete, draft, verified, epoch>>
         /\ request' \in [Requests -> Request] /\ \A q \in Requests : Named(request'[q])
         /\ \/ /\ preview[p].status = "authorized" /\ preview' = preview
               /\ preview[p].key = key /\ preview[p].assignments = assignments
            \/ /\ preview[p].status = "ready"
               /\ preview' = [preview EXCEPT ![p] = Authorized(preview[p], key, assignments)]
               /\ SoundFor(assignments) /\ assignments # NotAssigned
               /\ draft = preview[p].draft /\ epoch = preview[p].epochs
               /\ KeyFree(key)
<1>1. request[r] \in Request /\ Named(request[r])
  BY DEF IInv, TypeOK, RequestsNamed
<1>2. /\ request[r].preview \in Previews /\ request[r].key \in Keys
      /\ request[r].assignments \in Assignments
  BY <1>1 DEF Authorize, Named, Request
<1>3. request' \in [Requests -> Request] /\ \A q \in Requests : Named(request'[q])
  BY IdleTyped, ReturnTyped DEF Authorize, Return
<1>4. UNCHANGED <<usage, protection, delivered, complete, draft, verified, epoch>>
  BY DEF Authorize, facts
<1>5. Assigned(FreshDecisions(r), request[r].assignments) =>
        /\ SoundFor(request[r].assignments)
        /\ request[r].assignments # NotAssigned
  BY <1>2, AssignedSound DEF IInv, Assigned
<1> QED BY <1>2, <1>3, <1>4, <1>5 DEF Authorize, Replays, SameFacts

LEMMA AuthorizeKeeps ==
  ASSUME IInv, NEW r \in Requests, Authorize(r)
  PROVE  IInv'
<1> PICK p \in Previews, key \in Keys, assignments \in Assignments :
      p = request[r].preview /\ key = request[r].key /\ assignments = request[r].assignments
  BY AuthorizeCases
<1>1. /\ answers' = answers \cup {<<p, key, assignments>>}
      /\ UNCHANGED <<usage, protection, delivered, complete, draft, verified, epoch>>
      /\ request' \in [Requests -> Request] /\ \A q \in Requests : Named(request'[q])
      /\ \/ /\ preview[p].status = "authorized" /\ preview' = preview
            /\ preview[p].key = key /\ preview[p].assignments = assignments
         \/ /\ preview[p].status = "ready"
            /\ preview' = [preview EXCEPT ![p] = Authorized(preview[p], key, assignments)]
            /\ SoundFor(assignments) /\ assignments # NotAssigned
            /\ draft = preview[p].draft /\ epoch = preview[p].epochs
            /\ KeyFree(key)
  BY AuthorizeCases
<1> DEFINE x == <<p, key, assignments>>
<1>0. /\ preview \in [Previews -> PreviewRow] /\ x \in Confirmations
      /\ x[1] = p /\ x[2] = key /\ x[3] = assignments
  BY DEF IInv, TypeOK, Confirmations
<1>2. CASE /\ preview[p].status = "authorized" /\ preview' = preview
           /\ preview[p].key = key /\ preview[p].assignments = assignments
  <2>1. Kept(x)' /\ \A y \in answers : Kept(y)'
    BY <1>0, <1>1, <1>2 DEF Kept, IInv, AnswersKept
  <2>2. AnswersKept'
    BY <1>0, <1>1, <2>1, AnswerKept DEF IInv
  <2>3. TypeOK'
    BY <1>0, <1>1, <1>2 DEF IInv, TypeOK, Authorization
  <2>4. RequestsNamed' /\ EpochsBehind' /\ KeysStoredOnce'
    BY <1>0, <1>1, <1>2 DEF IInv, RequestsNamed, EpochsBehind, KeysStoredOnce
  <2>5. EpochsCoverFacts'
    <3>1. \A q \in Previews : Sound(q) => Sound(q)'
      BY <1>1, <1>2, SoundStays
    <3> QED BY <1>1, <1>2, <3>1 DEF IInv, EpochsCoverFacts
  <2> QED BY <2>2, <2>3, <2>4, <2>5 DEF IInv
<1>3. CASE /\ preview[p].status = "ready"
           /\ preview' = [preview EXCEPT ![p] = Authorized(preview[p], key, assignments)]
           /\ SoundFor(assignments) /\ assignments # NotAssigned
           /\ draft = preview[p].draft /\ epoch = preview[p].epochs
           /\ KeyFree(key)
  <2>1. /\ preview' \in [Previews -> PreviewRow]
        /\ preview'[p].status = "authorized" /\ preview'[p].key = key
        /\ preview'[p].assignments = assignments
        /\ preview'[p].draft = preview[p].draft /\ preview'[p].epochs = preview[p].epochs
        /\ \A q \in Previews : q # p => preview'[q] = preview[q]
    <3> DEFINE new == Authorized(preview[p], key, assignments)
    <3>1. new \in PreviewRow /\ new.status = "authorized" /\ new.key = key
          /\ new.assignments = assignments /\ new.draft = preview[p].draft
          /\ new.epochs = preview[p].epochs
      <4> DEFINE done == [preview[p] EXCEPT !.status = "authorized"]
                 keyed == [done EXCEPT !.key = key]
      <4>1. preview[p] \in PreviewRow /\ p \in Previews
            /\ key \in Keys \cup {None} /\ assignments \in Assignments
        BY <1>0, <1>1
      <4>2. new = [keyed EXCEPT !.assignments = assignments]
        BY <4>1 DEF Authorized, PreviewRow
      <4>3. /\ done \in PreviewRow /\ done.status = "authorized"
            /\ done.draft = preview[p].draft /\ done.epochs = preview[p].epochs
        BY <4>1 DEF PreviewRow
      <4> HIDE DEF done, new
      <4>4. /\ keyed \in PreviewRow /\ keyed.status = "authorized" /\ keyed.key = key
            /\ keyed.draft = preview[p].draft /\ keyed.epochs = preview[p].epochs
        BY <4>1, <4>3 DEF PreviewRow
      <4> HIDE DEF keyed
      <4> QED BY <4>1, <4>2, <4>4 DEF PreviewRow
    <3>2. preview' = [preview EXCEPT ![p] = new]
      BY <1>3
    <3> HIDE DEF new
    <3> QED BY <1>0, <3>1, <3>2
  <2>2. key # None
    BY <1>0, <1>1, NoneAssumption
  <2>3. TypeOK'
    <3>1. \A q \in Previews : Authorization(q)'
      BY <1>3, <2>1, <2>2 DEF IInv, TypeOK, Authorization
    <3> QED BY <1>0, <1>1, <2>1, <3>1 DEF IInv, TypeOK
  <2>4. RequestsNamed' /\ EpochsBehind'
    BY <1>0, <1>1, <2>1 DEF IInv, RequestsNamed, EpochsBehind
  <2>5. KeysStoredOnce'
    BY <1>3, <2>1 DEF IInv, KeysStoredOnce, KeyFree
  <2>6. AnswersKept'
    <3>1. \A y \in answers : y[1] \in Previews /\ y[1] # p
      BY <1>3 DEF IInv, AnswersKept, Kept, Confirmations
    <3>2. \A y \in answers : Kept(y)'
      BY <2>1, <3>1 DEF IInv, AnswersKept, Kept
    <3>3. Kept(x)'
      BY <1>0, <2>1 DEF Kept
    <3> QED BY <1>0, <1>1, <3>2, <3>3, AnswerKept DEF IInv
  <2>7. EpochsCoverFacts'
    <3>1. Sound(p)' /\ draft' = preview'[p].draft
      <4>1. usage' = usage /\ protection' = protection /\ delivered' = delivered
            /\ complete' = complete /\ draft' = draft
        BY <1>1
      <4>2. SoundFor(assignments)'
        BY <1>3, <4>1 DEF SoundFor, Unprotected, Clear
      <4>3. Sound(p)'
        BY <2>1, <4>2 DEF Sound, SoundFor
      <4> QED BY <1>3, <2>1, <4>1, <4>3
    <3>2. \A q \in Previews : q # p /\ preview[q].status = "authorized"
              /\ preview[q].epochs = epoch => Sound(q)' /\ draft' = preview'[q].draft
      <4> SUFFICES ASSUME NEW q \in Previews, q # p, preview[q].status = "authorized",
                          preview[q].epochs = epoch
                   PROVE  Sound(q)' /\ draft' = preview'[q].draft
        OBVIOUS
      <4>1. Sound(q) /\ draft = preview[q].draft
        BY DEF IInv, EpochsCoverFacts
      <4>2. /\ usage' = usage /\ protection' = protection /\ delivered' = delivered
            /\ complete' = complete /\ draft' = draft /\ preview'[q] = preview[q]
        BY <1>1, <2>1
      <4> QED BY <4>1, <4>2, SoundStays
    <3> QED BY <1>0, <1>1, <2>1, <3>1, <3>2 DEF EpochsCoverFacts
  <2> QED BY <2>3, <2>4, <2>5, <2>6, <2>7 DEF IInv
<1> QED BY <1>1, <1>2, <1>3

\* The Owner's revocation and the clock change a status and a flag.
LEMMA RowMarked ==
  ASSUME IInv, NEW p \in Previews, RevokeExpiryRotation(p) \/ PreviewExpires(p)
  PROVE  IInv'
<1>1. /\ UNCHANGED <<usage, protection, delivered, complete, draft, verified, epoch, request, answers>>
      /\ preview \in [Previews -> PreviewRow]
  BY DEF RevokeExpiryRotation, PreviewExpires, facts, IInv, TypeOK
<1>2. /\ preview' \in [Previews -> PreviewRow]
      /\ \A q \in Previews : q # p => preview'[q] = preview[q]
      /\ preview'[p].key = preview[p].key /\ preview'[p].epochs = preview[p].epochs
      /\ preview'[p].assignments = preview[p].assignments
      /\ preview'[p].draft = preview[p].draft
      /\ \/ preview[p].status = "authorized" /\ preview'[p].status = "revoked"
         \/ preview[p].status = "ready" /\ preview'[p].status = "ready"
  <2>1. CASE RevokeExpiryRotation(p)
    BY <1>1, <2>1 DEF RevokeExpiryRotation, RevokedRow, PreviewRow
  <2>2. CASE PreviewExpires(p)
    <3>1. preview' = [preview EXCEPT ![p] = [preview[p] EXCEPT !.expired = TRUE]]
      BY <1>1, <2>2 DEF PreviewExpires
    <3>2. preview[p].status = "ready"
      BY <2>2 DEF PreviewExpires
    <3>3. [preview[p] EXCEPT !.expired = TRUE] \in PreviewRow
      BY <1>1 DEF PreviewRow
    <3>4. /\ preview'[p] = [preview[p] EXCEPT !.expired = TRUE]
          /\ \A q \in Previews : q # p => preview'[q] = preview[q]
          /\ preview' \in [Previews -> PreviewRow]
      BY <1>1, <3>1, <3>3
    <3> QED BY <1>1, <3>2, <3>4 DEF PreviewRow
  <2> QED BY <2>1, <2>2
<1>3. \A q \in Previews :
        /\ preview'[q].key = preview[q].key /\ preview'[q].epochs = preview[q].epochs
        /\ preview'[q].assignments = preview[q].assignments
        /\ preview'[q].draft = preview[q].draft
        /\ (preview'[q].status \in {"authorized", "revoked"}
              <=> preview[q].status \in {"authorized", "revoked"})
        /\ preview'[q].status = "authorized" => preview[q].status = "authorized"
  BY <1>2
<1>4. TypeOK'
  <2>1. \A q \in Previews : Authorization(q)'
    BY <1>3 DEF IInv, TypeOK, Authorization
  <2> QED BY <1>1, <1>2, <2>1 DEF IInv, TypeOK
<1>5. RequestsNamed' /\ EpochsBehind' /\ KeysStoredOnce'
  BY <1>1, <1>3 DEF IInv, RequestsNamed, EpochsBehind, KeysStoredOnce
<1>6. AnswersKept'
  BY <1>1, <1>3 DEF IInv, AnswersKept, Kept, Confirmations
<1>7. EpochsCoverFacts'
  BY <1>1, <1>3 DEF IInv, EpochsCoverFacts, Sound, Unprotected, Clear
<1> QED BY <1>4, <1>5, <1>6, <1>7 DEF IInv

\* A writer takes the current epochs from every preview.
LEMMA WriterKeeps ==
  ASSUME IInv, Writer
  PROVE  IInv'
<1>1. PICK s \in Scopes : Advance(s)
  BY DEF Writer, RecordUsage, SetProtection, DeliverAccount, ChangeMaterial, ChangeSelection,
         Scopes
<1>2. UNCHANGED <<preview, request, answers>>
  BY DEF Writer, RecordUsage, SetProtection, DeliverAccount, ChangeMaterial, ChangeSelection
<1>3. /\ epoch \in [Scopes -> Nat] /\ epoch' \in [Scopes -> Nat]
      /\ epoch'[s] = epoch[s] + 1
      /\ \A t \in Scopes : epoch[t] <= epoch'[t]
  BY <1>1 DEF Advance, IInv, TypeOK
<1>4. /\ usage' \in [Accounts -> [Places -> UsageStates]]
      /\ protection' \in [Accounts -> Protections]
      /\ delivered' \subseteq Accounts /\ complete' \subseteq Accounts /\ draft' \in Nat /\ verified' \in Nat
  <2> USE DEF IInv, TypeOK
  <2>1. ASSUME NEW a \in Accounts, NEW place \in Places, NEW state \in UsageStates \ {"missing"},
               RecordUsage(a, place, state)
        PROVE  <1>4
    <3>1. usage[a] \in [Places -> UsageStates]
      OBVIOUS
    <3>2. Recorded(usage[a][place], state) \in UsageStates
      BY DEF Recorded, UsageStates
    <3>3. usage' = [usage EXCEPT ![a] = [usage[a] EXCEPT ![place] =
                                           Recorded(usage[a][place], state)]]
      BY <2>1, <3>1 DEF RecordUsage
    <3>4. [usage[a] EXCEPT ![place] = Recorded(usage[a][place], state)] \in [Places -> UsageStates]
      BY <3>1, <3>2
    <3> QED BY <2>1, <3>3, <3>4 DEF RecordUsage
  <2>2. ASSUME NEW a \in Accounts, NEW status \in Protections \ {"missing"},
               SetProtection(a, status)
        PROVE  <1>4
    BY <2>2 DEF SetProtection
  <2>3. ASSUME NEW a \in Accounts, DeliverAccount(a) \/ ChangeMaterial(a) PROVE <1>4
    BY <2>3 DEF DeliverAccount, ChangeMaterial
  <2>4. CASE ChangeSelection
    BY <2>4 DEF ChangeSelection
  <2> QED BY <2>1, <2>2, <2>3, <2>4 DEF Writer
<1>5. TypeOK'
  BY <1>2, <1>3, <1>4 DEF IInv, TypeOK, Authorization
<1>6. RequestsNamed' /\ KeysStoredOnce' /\ AnswersKept'
  BY <1>2 DEF IInv, RequestsNamed, KeysStoredOnce, AnswersKept, Kept
<1>7. \A p \in Previews : preview[p].epochs \in [Scopes -> Nat]
  BY DEF IInv, TypeOK, PreviewRow
<1>8. EpochsBehind'
  BY <1>2, <1>3, <1>7 DEF IInv, EpochsBehind
<1>9. EpochsCoverFacts'
  <2>1. \A p \in Previews : preview[p].epochs[s] < epoch'[s]
    BY <1>3, <1>7 DEF IInv, EpochsBehind
  <2>2. \A p \in Previews : preview'[p].epochs # epoch'
    BY <1>2, <1>3, <1>7, <2>1
  <2> QED BY <2>2 DEF EpochsCoverFacts
<1> QED BY <1>5, <1>6, <1>8, <1>9 DEF IInv

-----------------------------------------------------------------------------
(* The theorems *)

LEMMA InitInvariant == Init => IInv
<1> SUFFICES ASSUME Init PROVE IInv
  OBVIOUS
<1>1. NoPreview \in PreviewRow /\ NoPreview.status = "none" /\ NoPreview.key = None
      /\ NoPreview.assignments = NotAssigned /\ NoPreview.epochs = [s \in Scopes |-> 0]
  BY DEF NoPreview, PreviewRow, NotAssigned, Assignments, Decisions
<1>2. TypeOK
  <2>1. usage \in [Accounts -> [Places -> UsageStates]] /\ protection \in [Accounts -> Protections]
    BY DEF Init, UsageStates, Protections
  <2>2. \A p \in Previews : preview[p] = NoPreview /\ Authorization(p)
    BY <1>1 DEF Init, Authorization
  <2> QED BY <1>1, <2>1, <2>2, IdleTyped DEF Init, TypeOK
<1>3. RequestsNamed /\ EpochsBehind /\ KeysStoredOnce /\ AnswersKept /\ EpochsCoverFacts
  BY <1>1, IdleTyped DEF Init, RequestsNamed, EpochsBehind, KeysStoredOnce, AnswersKept,
                         EpochsCoverFacts
<1> QED BY <1>2, <1>3 DEF IInv

LEMMA StepKeeps == IInv /\ [Next]_vars => IInv'
<1> SUFFICES ASSUME IInv, [Next]_vars PROVE IInv'
  OBVIOUS
<1>1. ASSUME NEW r \in Requests, RequestStep(r) PROVE IInv'
  BY <1>1, GatherKeeps, ConfirmKeeps, InsertKeeps, AuthorizeKeeps DEF RequestStep
<1>2. CASE UNCHANGED vars
  BY <1>2, RequestMoves DEF vars, IInv, TypeOK, RequestsNamed
<1> QED BY <1>1, <1>2, RowMarked, WriterKeeps DEF Next

\* The invariant of the previews, the requests, the answers and the epochs.
THEOREM Invariance == Spec => []IInv
BY InitInvariant, StepKeeps, PTL DEF Spec

\* Every preview keeps the CHECK constraints of its table, and every row its
\* column's values (migration 00026).
THEOREM TypeCorrect == Spec => []TypeOK
<1>1. IInv => TypeOK
  BY DEF IInv
<1> QED BY <1>1, Invariance, PTL

\* A confirmation that was answered stays as it was answered, and a key answers
\* for one preview (ConfirmExpiryRotation).
THEOREM ConfirmationsStand == Spec => []AnswersStand
<1>1. IInv => AnswersStand
  <2> SUFFICES ASSUME IInv, NEW x \in answers, NEW y \in answers
               PROVE  /\ Kept(x)
                      /\ x[2] = y[2] => x = y
    BY DEF AnswersStand, Kept
  <2>1. Kept(x) /\ Kept(y) /\ x \in Confirmations /\ y \in Confirmations
    BY DEF IInv, AnswersKept
  <2>2. ASSUME x[2] = y[2] PROVE x = y
    <3>1. x[1] \in Previews /\ y[1] \in Previews /\ x[2] # None
      BY <2>1, NoneAssumption DEF Confirmations
    <3>2. x[1] = y[1] /\ x[3] = y[3]
      BY <2>1, <2>2, <3>1 DEF Kept, IInv, KeysStoredOnce
    <3> QED BY <2>1, <2>2, <3>2 DEF Confirmations
  <2> QED BY <2>1, <2>2
<1> QED BY <1>1, Invariance, PTL

\* While its epochs are current the facts of an authorization hold, whatever the
\* writers did between the reading of its evidence and now: the removal and the
\* join need to check nothing but the epochs (rotationLocalFacts).
THEOREM CurrentEpochsSuffice == Spec => []EpochsCoverFacts
<1>1. IInv => EpochsCoverFacts
  BY DEF IInv
<1> QED BY <1>1, Invariance, PTL

\* An authorization is given for the facts that were previewed, and they hold
\* when it is given (ConfirmExpiryRotation under the locked epochs).
THEOREM ConfirmedFactsAuthorize == Spec => AuthorizedAsConfirmed
<1> DEFINE Given == \A p \in Previews :
       preview[p].status = "ready" /\ preview'[p].status = "authorized" =>
         /\ preview[p].epochs = epoch
         /\ draft = preview[p].draft
         /\ preview'[p].decision = preview[p].decision
         /\ Sound(p)'
<1>1. IInv /\ [Next]_vars => [Given]_vars
  <2> SUFFICES ASSUME IInv, Next, NEW p \in Previews,
                      preview[p].status = "ready", preview'[p].status = "authorized"
               PROVE  /\ preview[p].epochs = epoch
                      /\ draft = preview[p].draft
                      /\ preview'[p].decision = preview[p].decision
                      /\ Sound(p)'
    OBVIOUS
  <2>1. preview \in [Previews -> PreviewRow]
    BY DEF IInv, TypeOK
  <2>2. PICK r \in Requests : Authorize(r)
    <3>1. preview' # preview
      OBVIOUS
    <3>2. ~Writer
      BY <3>1 DEF Writer, RecordUsage, SetProtection, DeliverAccount, ChangeMaterial,
                  ChangeSelection
    <3>3. \A q \in Previews : ~RevokeExpiryRotation(q) /\ ~PreviewExpires(q)
      BY <2>1 DEF RevokeExpiryRotation, PreviewExpires, RevokedRow, PreviewRow
    <3>4. \A q \in Requests : ~InsertPreview(q)
      BY <2>1 DEF InsertPreview, NoPreview, PreviewRow
    <3> QED BY <3>1, <3>2, <3>3, <3>4 DEF Next, RequestStep, PreviewExpiryRotation,
                  ConfirmExpiryRotation, ReadRoster, ReadRows, Fail
  <2>3. /\ p = request[r].preview
        /\ preview' = [preview EXCEPT ![p] = Authorized(preview[p], request[r].key,
                                                        request[r].assignments)]
        /\ draft = preview[p].draft /\ epoch = preview[p].epochs
        /\ UNCHANGED epoch
    BY <2>1, <2>2, AuthorizeCases
  <2>4. preview'[p].decision = preview[p].decision
    BY <2>1, <2>3 DEF Authorized, PreviewRow
  <2>5. preview'[p].epochs = epoch'
    BY <2>1, <2>3 DEF Authorized, PreviewRow
  <2>6. EpochsCoverFacts'
    BY <2>2, AuthorizeKeeps DEF IInv
  <2> QED BY <2>3, <2>4, <2>5, <2>6 DEF EpochsCoverFacts
<1> QED BY <1>1, Invariance, PTL DEF Spec, AuthorizedAsConfirmed

-----------------------------------------------------------------------------
(* WorkspaceAccess *)

\* What an attempt rests on: a login has the number of its session to be, an
\* exchange and a read a Workspace, and a read a row with its own binding.
Carried(a, rows) ==
  /\ a.pc = "login" => a.id # 0
  /\ a.pc \in {"exchange", "read"} => a.workspace \in Workspaces
  /\ a.pc = "read" =>
       /\ a.id \in DOMAIN rows[a.workspace]
       /\ rows[a.workspace][a.id].scope = a.scope
       /\ rows[a.workspace][a.id].attempt = a.attempt
       /\ rows[a.workspace][a.id].exchange = a.exchange

AttemptsCarried == \A r \in Handlers : Carried(attempt[r], verification)

\* A row of a read is of the token held, or of an earlier one.
OfToken(row, held) ==
  /\ row.exchange <= held.exchange
  /\ row.exchange = held.exchange =>
       row.scope = held.scope /\ row.attempt = held.attempt /\ ~row.touched

\* Exchanges are numbered for good: of the reads of a Workspace only those of
\* the token it has carry the number of that token, and nothing touched them.
RowsNumbered ==
  \A w \in Workspaces :
    /\ token[w].exchange <= issued.exchange
    /\ \A i \in DOMAIN verification[w] :
         /\ verification[w][i].exchange \in 1..issued.exchange
         /\ token[w] # NoToken => OfToken(verification[w][i], token[w])
         /\ \A j \in DOMAIN verification[w] :
              j <= i => verification[w][j].exchange <= verification[w][i].exchange

AccessInv == AccessTypeOK /\ AttemptsCarried /\ RowsNumbered /\ NothingOutlives

-----------------------------------------------------------------------------
(* Lemmas about the rows *)

SameRow(new, old) ==
  /\ new.scope = old.scope /\ new.attempt = old.attempt
  /\ new.exchange = old.exchange /\ new.outcome = old.outcome

\* No step takes a row away or changes its binding.
BindingsKept ==
  \A w \in Workspaces : \A i \in DOMAIN verification[w] :
    /\ i \in DOMAIN verification'[w]
    /\ verification'[w][i].scope = verification[w][i].scope
    /\ verification'[w][i].attempt = verification[w][i].attempt
    /\ verification'[w][i].exchange = verification[w][i].exchange

LEMMA TouchedRows ==
  ASSUME AccessTypeOK, NEW ws \in SUBSET Workspaces, verification' = Touched(ws)
  PROVE  /\ verification' \in [Workspaces -> Seq(Verification)]
         /\ \A w \in Workspaces :
              /\ DOMAIN verification'[w] = DOMAIN verification[w]
              /\ w \notin ws => verification'[w] = verification[w]
              /\ \A i \in DOMAIN verification[w] :
                   SameRow(verification'[w][i], verification[w][i])
<1>1. ASSUME NEW w \in Workspaces
      PROVE  /\ Touched(ws)[w] \in Seq(Verification)
             /\ DOMAIN Touched(ws)[w] = DOMAIN verification[w]
             /\ w \notin ws => Touched(ws)[w] = verification[w]
             /\ \A i \in DOMAIN verification[w] :
                  SameRow(Touched(ws)[w][i], verification[w][i])
  <2> DEFINE rows == verification[w]
             marked == [i \in DOMAIN rows |-> [rows[i] EXCEPT !.touched = TRUE]]
  <2>1. rows \in Seq(Verification)
    BY DEF AccessTypeOK
  <2>2. Len(rows) \in Nat /\ DOMAIN rows = 1..Len(rows) /\ rows \in [1..Len(rows) -> Verification]
    BY <2>1, LenProperties
  <2>3. \A i \in DOMAIN rows : /\ [rows[i] EXCEPT !.touched = TRUE] \in Verification
                               /\ SameRow([rows[i] EXCEPT !.touched = TRUE], rows[i])
    BY <2>2 DEF Verification, SameRow
  <2>4. marked \in [1..Len(rows) -> Verification]
    BY <2>2, <2>3
  <2>5. marked \in Seq(Verification)
    BY <2>2, <2>4, SeqDef
  <2>6. Touched(ws)[w] = IF w \in ws THEN marked ELSE rows
    BY DEF Touched
  <2>7. CASE w \in ws
    BY <2>3, <2>5, <2>6, <2>7
  <2>8. CASE w \notin ws
    <3>1. Touched(ws)[w] = rows
      BY <2>6, <2>8
    <3> QED BY <2>1, <2>8, <3>1 DEF SameRow
  <2> QED BY <2>7, <2>8
<1>2. Touched(ws) = [w \in Workspaces |-> Touched(ws)[w]]
  BY DEF Touched
<1>3. Touched(ws) \in [Workspaces -> Seq(Verification)]
  <2> DEFINE rows(w) == Touched(ws)[w]
  <2>1. \A w \in Workspaces : rows(w) \in Seq(Verification)
    BY <1>1
  <2>2. Touched(ws) = [w \in Workspaces |-> rows(w)]
    BY <1>2
  <2> HIDE DEF rows
  <2>3. [w \in Workspaces |-> rows(w)] \in [Workspaces -> Seq(Verification)]
    BY <2>1
  <2> QED BY <2>2, <2>3
<1>4. verification' \in [Workspaces -> Seq(Verification)]
  BY <1>3
<1>5. \A w \in Workspaces : verification'[w] = Touched(ws)[w]
  OBVIOUS
<1> QED BY <1>1, <1>4, <1>5

LEMMA TouchedKeepsBindings ==
  ASSUME AccessTypeOK, NEW ws \in SUBSET Workspaces, verification' = Touched(ws)
  PROVE  BindingsKept
BY TouchedRows DEF BindingsKept, SameRow

\* A handler goes on with a row that carries what it rests on.
LEMMA AttemptMoves ==
  ASSUME AccessTypeOK, AttemptsCarried, BindingsKept, NEW r \in Handlers, NEW a \in Attempt,
         attempt' = [attempt EXCEPT ![r] = a], Carried(a, verification')
  PROVE  attempt' \in [Handlers -> Attempt] /\ AttemptsCarried'
<1>1. attempt \in [Handlers -> Attempt]
  BY DEF AccessTypeOK
<1>2. attempt' \in [Handlers -> Attempt]
  BY <1>1
<1>3. ASSUME NEW q \in Handlers PROVE Carried(attempt'[q], verification')
  <2>1. CASE q = r
    BY <1>1, <2>1
  <2>2. CASE q # r
    <3>1. attempt'[q] = attempt[q] /\ Carried(attempt[q], verification)
      BY <1>1, <2>2 DEF AttemptsCarried
    <3> QED BY <3>1 DEF Carried, BindingsKept
  <2> QED BY <2>1, <2>2
<1> QED BY <1>2, <1>3 DEF AttemptsCarried

LEMMA NoAttemptTyped == NoAttempt \in Attempt /\ \A rows : Carried(NoAttempt, rows)
BY DEF NoAttempt, Attempt, NoScope, Scope, Carried

LEMMA AttemptDone ==
  ASSUME AccessTypeOK, AttemptsCarried, BindingsKept, NEW r \in Handlers, Done(r)
  PROVE  attempt' \in [Handlers -> Attempt] /\ AttemptsCarried'
<1>1. NoAttempt \in Attempt /\ Carried(NoAttempt, verification')
  BY NoAttemptTyped
<1> QED BY <1>1, AttemptMoves DEF Done

LEMMA AttemptsStay ==
  ASSUME AccessTypeOK, AttemptsCarried, BindingsKept, UNCHANGED attempt
  PROVE  attempt' \in [Handlers -> Attempt] /\ AttemptsCarried'
<1>1. \A q \in Handlers : Carried(attempt[q], verification')
  BY DEF AttemptsCarried, Carried, BindingsKept
<1> QED BY <1>1 DEF AccessTypeOK, AttemptsCarried

LEMMA RowsStay ==
  ASSUME UNCHANGED verification
  PROVE  BindingsKept
BY DEF BindingsKept

LEMMA Numbers ==
  ASSUME AccessTypeOK, NEW w \in Workspaces
  PROVE  /\ token[w].exchange \in Nat /\ issued.exchange \in Nat
         /\ token[w].attempt \in Nat /\ token[w].scope \in Scope
         /\ token[w].exchange = 0 <=> token[w] = NoToken
         /\ Len(verification[w]) \in Nat /\ DOMAIN verification[w] = 1..Len(verification[w])
         /\ \A i \in DOMAIN verification[w] : verification[w][i] \in Verification
<1>1. token[w] \in {NoToken} \cup TokenRow /\ issued.exchange \in Nat
      /\ verification[w] \in Seq(Verification)
  BY DEF AccessTypeOK
<1>2. /\ token[w].exchange \in Nat /\ token[w].attempt \in Nat /\ token[w].scope \in Scope
      /\ token[w].exchange = 0 <=> token[w] = NoToken
  <2>1. CASE token[w] = NoToken
    BY <2>1 DEF NoToken, NoScope, Scope
  <2>2. CASE token[w] \in TokenRow
    <3>1. NoToken.exchange = 0
      BY DEF NoToken
    <3> QED BY <2>2, <3>1 DEF TokenRow, Positive
  <2> QED BY <1>1, <2>1, <2>2
<1>3. Len(verification[w]) \in Nat /\ DOMAIN verification[w] = 1..Len(verification[w])
      /\ verification[w] \in [1..Len(verification[w]) -> Verification]
  BY <1>1, LenProperties
<1> QED BY <1>1, <1>2, <1>3

\* Where a token goes, its rows are those of no token.
LEMMA RowsForgotten ==
  ASSUME AccessTypeOK, RowsNumbered, NEW ws \in SUBSET Workspaces, verification' = Touched(ws),
         \A w \in Workspaces : token'[w] = IF w \in ws THEN NoToken ELSE token[w],
         issued'.exchange = issued.exchange
  PROVE  RowsNumbered'
<1> SUFFICES ASSUME NEW w \in Workspaces
             PROVE  /\ token'[w].exchange <= issued'.exchange
                    /\ \A i \in DOMAIN verification'[w] :
                         /\ verification'[w][i].exchange \in 1..issued'.exchange
                         /\ token'[w] # NoToken => OfToken(verification'[w][i], token'[w])
                         /\ \A j \in DOMAIN verification'[w] :
                              j <= i => verification'[w][j].exchange <= verification'[w][i].exchange
  BY DEF RowsNumbered, NoToken, OfToken
<1>1. /\ DOMAIN verification'[w] = DOMAIN verification[w]
      /\ w \notin ws => verification'[w] = verification[w]
      /\ \A i \in DOMAIN verification[w] :
           verification'[w][i].exchange = verification[w][i].exchange
  BY TouchedRows DEF SameRow
<1>2. NoToken.exchange = 0 /\ issued.exchange \in Nat
  BY Numbers DEF NoToken
<1>3. CASE w \in ws
  BY <1>1, <1>2, <1>3 DEF RowsNumbered
<1>4. CASE w \notin ws
  BY <1>1, <1>4 DEF RowsNumbered
<1> QED BY <1>3, <1>4

LEMMA NumbersStay ==
  ASSUME RowsNumbered, UNCHANGED <<token, verification>>, issued'.exchange = issued.exchange
  PROVE  RowsNumbered'
BY DEF RowsNumbered, OfToken, NoToken, NoScope

\* Without a session, a discovery and tokens nothing outlives anything.
LEMMA NothingLeft ==
  ASSUME session' = NoSession, discovery' = NoDiscovery, visibility' = NoVisibility,
         token' = NoTokens
  PROVE  /\ NothingOutlives'
         /\ session' \in {NoSession} \cup SessionRow
         /\ discovery' \in {NoDiscovery} \cup DiscoveryRow
         /\ visibility' \in [Workspaces -> {"none", "readable", "denied"}]
         /\ token' \in [Workspaces -> {NoToken} \cup TokenRow]
BY DEF NothingOutlives, NoSession, NoDiscovery, NoVisibility, NoTokens, NoToken

-----------------------------------------------------------------------------
(* The Personal session and the discovery *)

LEMMA LoginReserved ==
  ASSUME AccessInv, NEW r \in Handlers, ReservePersonalRefresh(r)
  PROVE  AccessInv'
<1> USE DEF AccessInv
<1>0. /\ account \in [active : BOOLEAN, revision : Positive]
      /\ access.attempt \in Nat
      /\ issued \in [login : Nat, run : Nat, exchange : Nat]
  BY DEF AccessTypeOK, NoAccess, AccessRow, Positive
<1>1. /\ NothingOutlives'
      /\ session' \in {NoSession} \cup SessionRow
      /\ discovery' \in {NoDiscovery} \cup DiscoveryRow
      /\ visibility' \in [Workspaces -> {"none", "readable", "denied"}]
      /\ token' \in [Workspaces -> {NoToken} \cup TokenRow]
  BY NothingLeft DEF ReservePersonalRefresh
<1>2. /\ account' \in [active : BOOLEAN, revision : Positive]
      /\ access' \in {NoAccess} \cup AccessRow /\ access'.attempt \in Nat
  BY <1>0 DEF ReservePersonalRefresh, AccessRow, Positive
<1>3. /\ issued' \in [login : Nat, run : Nat, exchange : Nat]
      /\ issued'.login \in Positive /\ issued'.exchange = issued.exchange
  BY <1>0 DEF ReservePersonalRefresh, Positive
<1>4. verification' = Touched(Workspaces) /\ BindingsKept
      /\ verification' \in [Workspaces -> Seq(Verification)]
  BY TouchedRows, TouchedKeepsBindings DEF ReservePersonalRefresh
<1>5. RowsNumbered'
  <2>1. \A w \in Workspaces : token'[w] = NoToken
    BY DEF ReservePersonalRefresh, NoTokens
  <2> QED BY <1>3, <1>4, <2>1, RowsForgotten
<1>6. attempt' \in [Handlers -> Attempt] /\ AttemptsCarried'
  <2> DEFINE a == [NoAttempt EXCEPT !.pc = "login", !.attempt = access'.attempt,
                     !.id = issued'.login, !.scope.revision = account.revision]
  <2>1. a \in Attempt /\ a.pc = "login" /\ a.id = issued'.login
    BY <1>0, <1>2, <1>3 DEF NoAttempt, NoScope, Attempt, Scope, Positive
  <2>2. Carried(a, verification')
    BY <1>3, <2>1 DEF Carried, Positive
  <2>3. attempt' = [attempt EXCEPT ![r] = a]
    BY DEF ReservePersonalRefresh
  <2> QED BY <1>4, <2>1, <2>2, <2>3, AttemptMoves
<1> QED BY <1>1, <1>2, <1>3, <1>4, <1>5, <1>6 DEF AccessTypeOK

LEMMA LoginFinished ==
  ASSUME AccessInv, NEW r \in Handlers, NEW answer \in LoginAnswers,
         FinishPersonalRefresh(r, answer)
  PROVE  AccessInv'
<1> USE DEF AccessInv
<1>1. UNCHANGED <<account, discovery, visibility, token, verification, issued>> /\ Done(r)
  BY DEF FinishPersonalRefresh
<1>2. attempt' \in [Handlers -> Attempt] /\ AttemptsCarried' /\ RowsNumbered'
  BY <1>1, AttemptDone, RowsStay, NumbersStay
<1>3. /\ attempt[r] \in Attempt /\ attempt[r].id # 0
      /\ account \in [active : BOOLEAN, revision : Positive]
  BY DEF FinishPersonalRefresh, In, AccessTypeOK, AttemptsCarried, Carried
<1>4. CASE ~(LoginIsLatest(r) /\ ~(answer = "ready" /\ session # NoSession))
  <2>1. UNCHANGED <<access, session>>
    BY <1>4 DEF FinishPersonalRefresh
  <2> QED BY <1>1, <1>2, <2>1 DEF AccessTypeOK, NothingOutlives
<1>5. CASE LoginIsLatest(r) /\ ~(answer = "ready" /\ session # NoSession)
  <2>1. access' \in {NoAccess} \cup AccessRow
    <3>1. access \in AccessRow
      BY <1>5 DEF AccessTypeOK, LoginIsLatest, NoAccess
    <3> QED BY <1>5, <3>1 DEF FinishPersonalRefresh, AccessRow
  <2>2. CASE answer = "ready"
    <3>1. session' = [generation |-> attempt[r].id, revision |-> account.revision,
                      expired |-> FALSE]
      BY <1>5, <2>2 DEF FinishPersonalRefresh, LoginIsLatest
    <3>2. session' \in SessionRow /\ session'.revision = account.revision
      BY <1>3, <3>1 DEF SessionRow, Attempt, Positive
    <3>3. account.active
      BY <1>5 DEF LoginIsLatest
    <3> QED BY <1>1, <1>2, <2>1, <3>2, <3>3 DEF AccessTypeOK, NothingOutlives
  <2>3. CASE answer # "ready"
    <3>1. UNCHANGED session
      BY <1>5, <2>3 DEF FinishPersonalRefresh
    <3> QED BY <1>1, <1>2, <2>1, <3>1 DEF AccessTypeOK, NothingOutlives
  <2> QED BY <2>2, <2>3
<1> QED BY <1>4, <1>5

LEMMA GenerationTyped ==
  ASSUME AccessTypeOK
  PROVE  Generation \in Nat
<1>1. session.generation \in Nat
  BY DEF AccessTypeOK, NoSession, SessionRow, Positive
<1> QED BY <1>1 DEF Generation

LEMMA DiscoveryReserved ==
  ASSUME AccessInv, NEW r \in Handlers, NEW generation \in Joined,
         ReserveMotherDiscovery(r, generation)
  PROVE  AccessInv'
<1> USE DEF AccessInv
<1>0. /\ account \in [active : BOOLEAN, revision : Positive]
      /\ discovery.attempt \in Nat /\ generation \in Nat
      /\ issued \in [login : Nat, run : Nat, exchange : Nat]
  BY GenerationTyped DEF Joined, AccessTypeOK, NoDiscovery, DiscoveryRow, Positive
<1>1. /\ issued' \in [login : Nat, run : Nat, exchange : Nat]
      /\ issued'.run \in Positive /\ issued'.exchange = issued.exchange
  BY <1>0 DEF ReserveMotherDiscovery, Positive
<1>2. /\ discovery' \in DiscoveryRow /\ discovery'.revision = account.revision
      /\ discovery'.attempt \in Nat
  BY <1>0, <1>1 DEF ReserveMotherDiscovery, DiscoveryRow, Positive
<1>3. /\ UNCHANGED <<account, access, session>> /\ account.active
      /\ verification' = Touched(Workspaces) /\ BindingsKept
      /\ verification' \in [Workspaces -> Seq(Verification)]
  BY TouchedRows, TouchedKeepsBindings DEF ReserveMotherDiscovery
<1>4. /\ \A w \in Workspaces : token'[w] = NoToken /\ visibility'[w] = "none"
      /\ visibility' \in [Workspaces -> {"none", "readable", "denied"}]
      /\ token' \in [Workspaces -> {NoToken} \cup TokenRow]
  BY DEF ReserveMotherDiscovery, NoTokens, NoVisibility
<1>5. RowsNumbered'
  BY <1>1, <1>3, <1>4, RowsForgotten
<1>6. attempt' \in [Handlers -> Attempt] /\ AttemptsCarried'
  <2> DEFINE a == [NoAttempt EXCEPT !.pc = "discover", !.attempt = discovery'.attempt,
                     !.scope.generation = generation, !.scope.revision = account.revision]
  <2>1. a \in Attempt /\ a.pc = "discover"
    BY <1>0, <1>2 DEF NoAttempt, NoScope, Attempt, Scope, Positive
  <2>2. Carried(a, verification')
    BY <2>1 DEF Carried
  <2>3. attempt' = [attempt EXCEPT ![r] = a]
    BY DEF ReserveMotherDiscovery
  <2> QED BY <1>3, <2>1, <2>2, <2>3, AttemptMoves
<1>7. NothingOutlives'
  BY <1>2, <1>3, <1>4 DEF NothingOutlives, NoToken
<1> QED BY <1>1, <1>2, <1>3, <1>4, <1>5, <1>6, <1>7 DEF AccessTypeOK

LEMMA DiscoveryFinished ==
  ASSUME AccessInv, NEW r \in Handlers, NEW answer \in DiscoveryAnswers,
         FinishMotherDiscovery(r, answer)
  PROVE  AccessInv'
<1> USE DEF AccessInv
<1>1. UNCHANGED <<account, access, token, verification, issued>> /\ Done(r)
  BY DEF FinishMotherDiscovery
<1>2. attempt' \in [Handlers -> Attempt] /\ AttemptsCarried' /\ RowsNumbered'
  BY <1>1, AttemptDone, RowsStay, NumbersStay
<1>3. CASE ~DiscoveryIsLatest(r)
  <2>1. UNCHANGED <<session, discovery, visibility>>
    BY <1>3 DEF FinishMotherDiscovery
  <2> QED BY <1>1, <1>2, <2>1 DEF AccessTypeOK, NothingOutlives
<1>4. CASE DiscoveryIsLatest(r)
  <2>1. session' \in {session, NoSession}
    BY <1>4 DEF FinishMotherDiscovery
  <2>2. /\ discovery \in DiscoveryRow /\ discovery' \in DiscoveryRow
        /\ discovery'.run = discovery.run /\ discovery'.revision = discovery.revision
    <3>1. discovery \in DiscoveryRow
      BY <1>4 DEF DiscoveryIsLatest, AccessTypeOK, NoDiscovery
    <3> QED BY <1>4, <3>1 DEF FinishMotherDiscovery, DiscoveryRow
  <2>3. visibility' \in [Workspaces -> {"none", "readable", "denied"}]
    BY <1>4 DEF FinishMotherDiscovery, DiscoveryAnswers, DiscoveryAnswer, NoVisibility
  <2>4. AccessTypeOK'
    BY <1>1, <1>2, <2>1, <2>2, <2>3 DEF AccessTypeOK
  <2>5. NothingOutlives'
    BY <1>1, <2>1, <2>2 DEF NothingOutlives, NoSession, DiscoveryRow, Positive
  <2> QED BY <1>2, <2>4, <2>5
<1> QED BY <1>3, <1>4

-----------------------------------------------------------------------------
(* One Workspace *)

LEMMA ScopeTyped ==
  ASSUME AccessTypeOK
  PROVE  CurrentScope \in Scope
<1>1. discovery.run \in Nat /\ session.generation \in Nat /\ account.revision \in Nat
  BY DEF AccessTypeOK, NoDiscovery, DiscoveryRow, NoSession, SessionRow, Positive
<1> QED BY <1>1 DEF CurrentScope, Scope

\* A new exchange is numbered beyond every read.
LEMMA ExchangeReserved ==
  ASSUME AccessInv, NEW r \in Handlers, NEW w \in Workspaces, ReserveExchange(r, w)
  PROVE  AccessInv'
<1> USE DEF AccessInv
<1> DEFINE held == [status |-> "exchanging", attempt |-> token[w].attempt + 1,
                    exchange |-> issued'.exchange, scope |-> CurrentScope, expired |-> FALSE]
<1>0. /\ CurrentScope \in Scope /\ token[w].attempt \in Nat
      /\ issued \in [login : Nat, run : Nat, exchange : Nat]
      /\ token \in [Workspaces -> {NoToken} \cup TokenRow]
  BY ScopeTyped, Numbers DEF AccessTypeOK
<1>1. /\ issued' \in [login : Nat, run : Nat, exchange : Nat]
      /\ issued'.exchange = issued.exchange + 1
  BY <1>0 DEF ReserveExchange
<1>2. /\ UNCHANGED <<account, access, session, discovery, visibility>>
      /\ verification' = Touched({w}) /\ BindingsKept
      /\ verification' \in [Workspaces -> Seq(Verification)]
  BY TouchedRows, TouchedKeepsBindings DEF ReserveExchange
<1>3. token' = [token EXCEPT ![w] = held]
  BY DEF ReserveExchange
<1>4. held \in TokenRow /\ held.exchange = issued.exchange + 1
  BY <1>0, <1>1 DEF TokenRow, Positive
<1>5. /\ token' \in [Workspaces -> {NoToken} \cup TokenRow] /\ token'[w] = held
      /\ \A v \in Workspaces : v # w => token'[v] = token[v]
  BY <1>0, <1>3, <1>4
<1> HIDE DEF held
<1>6. AccessTypeOK' /\ AttemptsCarried'
  <2> DEFINE a == [NoAttempt EXCEPT !.pc = "exchange", !.workspace = w, !.scope = CurrentScope,
                     !.attempt = token'[w].attempt, !.exchange = issued'.exchange]
  <2>1. held.attempt \in Nat
    BY <1>4 DEF TokenRow, Positive
  <2>2. a \in Attempt /\ a.pc = "exchange" /\ a.workspace = w
    BY <1>0, <1>1, <1>5, <2>1 DEF NoAttempt, NoScope, Attempt
  <2>3. Carried(a, verification')
    BY <2>2 DEF Carried
  <2>4. attempt' = [attempt EXCEPT ![r] = a]
    BY DEF ReserveExchange
  <2>5. attempt' \in [Handlers -> Attempt] /\ AttemptsCarried'
    BY <1>2, <2>2, <2>3, <2>4, AttemptMoves
  <2> QED BY <1>1, <1>2, <1>5, <2>5 DEF AccessTypeOK
<1>7. RowsNumbered'
  <2> SUFFICES ASSUME NEW v \in Workspaces
               PROVE  /\ token'[v].exchange <= issued'.exchange
                      /\ \A i \in DOMAIN verification'[v] :
                           /\ verification'[v][i].exchange \in 1..issued'.exchange
                           /\ token'[v] # NoToken => OfToken(verification'[v][i], token'[v])
                           /\ \A j \in DOMAIN verification'[v] : j <= i =>
                                verification'[v][j].exchange <= verification'[v][i].exchange
    BY DEF RowsNumbered, OfToken, NoToken, NoScope
  <2>1. /\ DOMAIN verification'[v] = DOMAIN verification[v]
        /\ v # w => verification'[v] = verification[v]
        /\ \A i \in DOMAIN verification[v] :
             verification'[v][i].exchange = verification[v][i].exchange
    <3>1. {w} \in SUBSET Workspaces /\ (v # w => v \notin {w})
      OBVIOUS
    <3>2. /\ DOMAIN verification'[v] = DOMAIN verification[v]
          /\ v \notin {w} => verification'[v] = verification[v]
          /\ \A i \in DOMAIN verification[v] :
               SameRow(verification'[v][i], verification[v][i])
      BY <1>2, <3>1, TouchedRows
    <3> QED BY <3>1, <3>2 DEF SameRow
  <2>2. CASE v = w
    <3>1. ASSUME NEW i \in DOMAIN verification'[v]
          PROVE  OfToken(verification'[v][i], held)
      <4>1. verification'[v][i].exchange \in 1..issued.exchange
        BY <2>1, <3>1 DEF RowsNumbered
      <4> QED BY <1>0, <1>4, <4>1 DEF OfToken
    <3> QED BY <1>0, <1>1, <1>4, <1>5, <2>1, <2>2, <3>1 DEF RowsNumbered
  <2>3. CASE v # w
    <3>1. verification'[v] = verification[v] /\ token'[v] = token[v]
      BY <1>0, <1>1, <1>5, <2>1, <2>3
    <3>2. \A n : n \in 1..issued.exchange => n \in 1..issued'.exchange
      BY <1>0, <1>1, <1>5, Numbers
    <3>3. token[v].exchange <= issued'.exchange
      <4>1. token[v].exchange \in Nat
        BY Numbers
      <4>2. token[v].exchange <= issued.exchange
        BY DEF RowsNumbered
      <4> QED BY <1>0, <1>1, <4>1, <4>2
    <3>4. \A i \in DOMAIN verification[v] :
            /\ verification[v][i].exchange \in 1..issued'.exchange
            /\ token[v] # NoToken => OfToken(verification[v][i], token[v])
            /\ \A j \in DOMAIN verification[v] : j <= i =>
                 verification[v][j].exchange <= verification[v][i].exchange
      BY <3>2 DEF RowsNumbered
    <3> QED BY <3>1, <3>3, <3>4
  <2> QED BY <2>2, <2>3
<1>8. NothingOutlives'
  <2>1. /\ account.active /\ held.scope.revision = account.revision
        /\ held.scope.run = discovery.run
    BY DEF ReserveExchange, Selected, CurrentScope, held
  <2> QED BY <1>2, <1>5, <2>1 DEF NothingOutlives
<1> QED BY <1>6, <1>7, <1>8

SameToken(new, old) ==
  new.attempt = old.attempt /\ new.exchange = old.exchange /\ new.scope = old.scope

\* A token that is answered or expires keeps its number, attempt and scope.
LEMMA TokenAnswers ==
  ASSUME AccessTypeOK, RowsNumbered, NothingOutlives, NEW w \in Workspaces,
         UNCHANGED <<account, session, discovery, visibility, verification, issued>>,
         token[w] \in TokenRow, token'[w] \in TokenRow, SameToken(token'[w], token[w]),
         \A v \in Workspaces : v # w => token'[v] = token[v]
  PROVE  RowsNumbered' /\ NothingOutlives'
<1>1. token[w] # NoToken /\ token'[w] # NoToken /\ token[w].status # "none"
  BY DEF TokenRow, NoToken
<1>2. ASSUME NEW v \in Workspaces
      PROVE  /\ token'[v].exchange = token[v].exchange /\ token'[v].scope = token[v].scope
             /\ token'[v].attempt = token[v].attempt
             /\ token'[v] # NoToken <=> token[v] # NoToken
             /\ token'[v].status # "none" => token[v].status # "none"
  BY <1>1 DEF SameToken
<1>3. RowsNumbered'
  <2>1. \A v \in Workspaces : \A row :
          token[v] # NoToken /\ OfToken(row, token[v]) => OfToken(row, token'[v])
    BY <1>2 DEF OfToken
  <2> SUFFICES ASSUME NEW v \in Workspaces
               PROVE  /\ token'[v].exchange <= issued.exchange
                      /\ \A i \in DOMAIN verification[v] :
                           /\ verification[v][i].exchange \in 1..issued.exchange
                           /\ token'[v] # NoToken => OfToken(verification[v][i], token'[v])
                           /\ \A j \in DOMAIN verification[v] : j <= i =>
                                verification[v][j].exchange <= verification[v][i].exchange
    BY DEF RowsNumbered, OfToken, NoToken, NoScope
  <2> QED BY <1>2, <2>1 DEF RowsNumbered
<1>4. NothingOutlives'
  BY <1>2 DEF NothingOutlives
<1> QED BY <1>3, <1>4

\* The token of a Workspace answers: its number, attempt and scope stay.
LEMMA ExchangeFinished ==
  ASSUME AccessInv, NEW r \in Handlers, NEW answer \in ExchangeAnswers,
         FinishExchange(r, answer)
  PROVE  AccessInv'
<1> USE DEF AccessInv
<1> DEFINE w == attempt[r].workspace
<1>1. /\ UNCHANGED <<account, access, session, discovery, visibility, verification, issued>>
      /\ Done(r) /\ w \in Workspaces
  BY DEF FinishExchange, In, AttemptsCarried, Carried
<1>2. attempt' \in [Handlers -> Attempt] /\ AttemptsCarried'
  BY <1>1, AttemptDone, RowsStay
<1>3. PICK status \in {"ready", "failed"} :
        \/ token' = token
        \/ /\ token[w].status = "exchanging"
           /\ token' = [token EXCEPT ![w].status = status]
  BY DEF FinishExchange
<1>4. CASE token' = token
  BY <1>1, <1>2, <1>4, NumbersStay DEF AccessTypeOK, NothingOutlives
<1>5. CASE /\ token[w].status = "exchanging"
           /\ token' = [token EXCEPT ![w].status = status]
  <2>1. token \in [Workspaces -> {NoToken} \cup TokenRow] /\ token[w] \in TokenRow
    BY <1>1, <1>5 DEF AccessTypeOK, NoToken
  <2>2. /\ token' \in [Workspaces -> {NoToken} \cup TokenRow]
        /\ token'[w] \in TokenRow /\ SameToken(token'[w], token[w])
        /\ \A v \in Workspaces : v # w => token'[v] = token[v]
    BY <1>1, <1>5, <2>1 DEF TokenRow, SameToken
  <2> QED BY <1>1, <1>2, <2>1, <2>2, TokenAnswers DEF AccessTypeOK
<1> QED BY <1>3, <1>4, <1>5

\* A read appends a row of the token the Workspace has.
LEMMA ReadReserved ==
  ASSUME AccessInv, NEW r \in Handlers, NEW w \in Workspaces, ReserveRead(r, w)
  PROVE  AccessInv'
<1> USE DEF AccessInv
<1> DEFINE row == [scope |-> CurrentScope, attempt |-> token[w].attempt,
                   exchange |-> token[w].exchange, outcome |-> "verifying", touched |-> FALSE]
           rows == verification[w]
           n == Len(rows) + 1
<1>0. /\ CurrentScope \in Scope /\ token[w].attempt \in Nat /\ token[w].exchange \in Nat
      /\ issued.exchange \in Nat /\ Len(rows) \in Nat /\ DOMAIN rows = 1..Len(rows)
      /\ rows \in Seq(Verification)
  BY ScopeTyped, Numbers DEF AccessTypeOK
<1>1. UNCHANGED <<account, access, session, discovery, visibility, token, issued>>
  BY DEF ReserveRead
<1>2. token[w].status = "ready" /\ token[w].scope = CurrentScope
  BY DEF ReserveRead, TokenReady
<1>3. /\ token[w].exchange \in 1..issued.exchange /\ token[w] # NoToken
  <2>1. token[w] # NoToken
    BY <1>2 DEF NoToken
  <2> QED BY <1>0, <2>1, Numbers DEF RowsNumbered
<1>4. /\ row \in Verification /\ row.scope = token[w].scope /\ ~row.touched
      /\ row.attempt = token[w].attempt /\ row.exchange = token[w].exchange
      /\ row.scope = CurrentScope
  BY <1>0, <1>2 DEF Verification
<1>5. verification' = [verification EXCEPT ![w] = Append(rows, row)]
  BY DEF ReserveRead
<1> HIDE DEF row
<1>6. /\ Append(rows, row) \in Seq(Verification) /\ Len(Append(rows, row)) = n
      /\ Append(rows, row)[n] = row
      /\ \A i \in 1..Len(rows) : Append(rows, row)[i] = rows[i]
      /\ DOMAIN Append(rows, row) = 1..n
  BY <1>0, <1>4, AppendProperties, LenProperties
<1>7. /\ verification' \in [Workspaces -> Seq(Verification)]
      /\ verification'[w] = Append(rows, row)
      /\ \A v \in Workspaces : v # w => verification'[v] = verification[v]
  BY <1>5, <1>6 DEF AccessTypeOK
<1>8. BindingsKept
  <2> SUFFICES ASSUME NEW v \in Workspaces, NEW i \in DOMAIN verification[v]
               PROVE  i \in DOMAIN verification'[v] /\ verification'[v][i] = verification[v][i]
    BY DEF BindingsKept
  <2>1. CASE v = w
    <3>1. rows \in Seq(Verification) /\ DOMAIN rows = 1..Len(rows) /\ Len(rows) \in Nat
      BY <1>0, LenProperties
    <3>2. i \in 1..Len(rows) /\ i \in 1..n
      BY <2>1, <3>1
    <3> QED BY <1>6, <1>7, <2>1, <3>2
  <2>2. CASE v # w
    BY <1>7, <2>2
  <2> QED BY <2>1, <2>2
<1>9. attempt' \in [Handlers -> Attempt] /\ AttemptsCarried'
  <2> DEFINE a == [pc |-> "read", workspace |-> w, scope |-> CurrentScope,
                   attempt |-> token[w].attempt, exchange |-> token[w].exchange, id |-> n]
  <2>1. /\ a \in Attempt /\ a.pc = "read" /\ a.workspace = w /\ a.id = n
        /\ a.scope = CurrentScope /\ a.attempt = token[w].attempt
        /\ a.exchange = token[w].exchange
    BY <1>0 DEF Attempt
  <2>2. attempt' = [attempt EXCEPT ![r] = a]
    <3>1. Len(verification'[w]) = n
      BY <1>6, <1>7
    <3>2. attempt' = [attempt EXCEPT ![r] =
            [pc |-> "read", workspace |-> w, scope |-> CurrentScope,
             attempt |-> token[w].attempt, exchange |-> token[w].exchange,
             id |-> Len(verification'[w])]]
      BY Zenon DEF ReserveRead
    <3> QED BY <3>1, <3>2
  <2> HIDE DEF a
  <2>3. n \in DOMAIN verification'[w] /\ verification'[w][n] = row
    BY <1>0, <1>6, <1>7
  <2>4. Carried(a, verification')
    BY <1>4, <2>1, <2>3 DEF Carried
  <2> QED BY <1>8, <2>1, <2>2, <2>4, AttemptMoves
<1>10. RowsNumbered'
  <2> SUFFICES ASSUME NEW v \in Workspaces
               PROVE  /\ token[v].exchange <= issued.exchange
                      /\ \A i \in DOMAIN verification'[v] :
                           /\ verification'[v][i].exchange \in 1..issued.exchange
                           /\ token[v] # NoToken => OfToken(verification'[v][i], token[v])
                           /\ \A j \in DOMAIN verification'[v] : j <= i =>
                                verification'[v][j].exchange <= verification'[v][i].exchange
    BY <1>1 DEF RowsNumbered, OfToken, NoToken, NoScope
  <2>1. CASE v # w
    BY <1>7, <2>1 DEF RowsNumbered
  <2>2. CASE v = w
    <3>1. \A i \in DOMAIN verification'[w] :
            \/ i \in DOMAIN rows /\ verification'[w][i] = rows[i]
            \/ i = n /\ verification'[w][i] = row
      BY <1>0, <1>6, <1>7
    <3>2. row.exchange \in 1..issued.exchange /\ OfToken(row, token[w])
      BY <1>0, <1>3, <1>4 DEF OfToken
    <3>3. \A i \in DOMAIN rows : /\ rows[i].exchange \in 1..issued.exchange
                                 /\ OfToken(rows[i], token[w])
      BY <1>3 DEF RowsNumbered
    <3>4. \A i \in DOMAIN rows : rows[i].exchange <= row.exchange
      BY <1>4, <3>3 DEF OfToken
    <3>5. ASSUME NEW i \in DOMAIN verification'[w], NEW j \in DOMAIN verification'[w], j <= i
          PROVE  verification'[w][j].exchange <= verification'[w][i].exchange
      <4>1. CASE i = n
        BY <1>0, <3>1, <3>2, <3>4, <4>1
      <4>2. CASE i # n
        <5>1. i \in 1..Len(rows) /\ j \in 1..Len(rows)
          BY <1>0, <1>6, <1>7, <3>5, <4>2
        <5>2. verification'[w][i] = rows[i] /\ verification'[w][j] = rows[j]
          BY <1>6, <1>7, <5>1
        <5> QED BY <1>0, <3>5, <5>1, <5>2 DEF RowsNumbered
      <4> QED BY <4>1, <4>2
    <3>6. token[w].exchange <= issued.exchange
      BY DEF RowsNumbered
    <3> HIDE DEF rows
    <3> QED BY <2>2, <3>1, <3>2, <3>3, <3>5, <3>6
  <2> QED BY <2>1, <2>2
<1>11. NothingOutlives'
  BY <1>1 DEF NothingOutlives
<1> QED BY <1>1, <1>7, <1>9, <1>10, <1>11 DEF AccessTypeOK

\* The outcome of a read changes nothing else.
LEMMA ReadFinished ==
  ASSUME AccessInv, NEW r \in Handlers, NEW status \in ReadStatuses, FinishRead(r, status)
  PROVE  AccessInv'
<1> USE DEF AccessInv
<1> DEFINE w == attempt[r].workspace
           k == attempt[r].id
<1>1. /\ UNCHANGED <<account, access, session, discovery, visibility, token, issued>>
      /\ Done(r) /\ w \in Workspaces /\ k \in DOMAIN verification[w]
  BY DEF FinishRead, In, AttemptsCarried, Carried
<1>2. PICK outcome \in {"verified", "other"} :
        \/ verification' = verification
        \/ verification' = [verification EXCEPT ![w][k].outcome = outcome]
  BY DEF FinishRead
<1>3. CASE verification' = verification
  <2>1. BindingsKept
    BY <1>3, RowsStay
  <2> QED BY <1>1, <1>3, <2>1, AttemptDone, NumbersStay DEF AccessTypeOK, NothingOutlives
<1>4. CASE verification' = [verification EXCEPT ![w][k].outcome = outcome]
  <2> DEFINE rows == verification[w]
             row == [rows[k] EXCEPT !.outcome = outcome]
  <2>1. /\ rows \in Seq(Verification) /\ DOMAIN rows = 1..Len(rows) /\ Len(rows) \in Nat
        /\ rows[k] \in Verification
    BY <1>1, Numbers DEF AccessTypeOK
  <2>2. /\ row \in Verification /\ row.scope = rows[k].scope /\ row.attempt = rows[k].attempt
        /\ row.exchange = rows[k].exchange /\ row.touched = rows[k].touched
    BY <2>1 DEF Verification
  <2>3. verification' = [verification EXCEPT ![w] = [rows EXCEPT ![k] = row]]
    BY <1>4
  <2> HIDE DEF row
  <2>4. /\ [rows EXCEPT ![k] = row] \in Seq(Verification)
        /\ DOMAIN [rows EXCEPT ![k] = row] = DOMAIN rows
        /\ \A i \in DOMAIN rows : [rows EXCEPT ![k] = row][i] = IF i = k THEN row ELSE rows[i]
    <3>1. k \in 1..Len(rows)
      BY <1>1, <2>1
    <3>2. [rows EXCEPT ![k] = row] \in Seq(Verification)
      BY <2>1, <2>2, <3>1, ExceptSeq
    <3> QED BY <2>1, <3>2
  <2>5. /\ verification' \in [Workspaces -> Seq(Verification)]
        /\ \A v \in Workspaces :
             /\ DOMAIN verification'[v] = DOMAIN verification[v]
             /\ \A i \in DOMAIN verification[v] :
                  /\ verification'[v][i].scope = verification[v][i].scope
                  /\ verification'[v][i].attempt = verification[v][i].attempt
                  /\ verification'[v][i].exchange = verification[v][i].exchange
                  /\ verification'[v][i].touched = verification[v][i].touched
    <3>1. verification \in [Workspaces -> Seq(Verification)]
      BY DEF AccessTypeOK
    <3>2. verification' \in [Workspaces -> Seq(Verification)]
      BY <1>1, <2>3, <2>4, <3>1
    <3>3. verification'[w] = [rows EXCEPT ![k] = row]
          /\ \A v \in Workspaces : v # w => verification'[v] = verification[v]
      BY <1>1, <2>3, <3>1
    <3>4. ASSUME NEW v \in Workspaces
          PROVE  /\ DOMAIN verification'[v] = DOMAIN verification[v]
                 /\ \A i \in DOMAIN verification[v] :
                      /\ verification'[v][i].scope = verification[v][i].scope
                      /\ verification'[v][i].attempt = verification[v][i].attempt
                      /\ verification'[v][i].exchange = verification[v][i].exchange
                      /\ verification'[v][i].touched = verification[v][i].touched
      <4>1. CASE v = w
        BY <2>2, <2>4, <3>3, <4>1
      <4>2. CASE v # w
        BY <3>3, <4>2
      <4> QED BY <4>1, <4>2
    <3> QED BY <3>2, <3>4
  <2>6. BindingsKept
    BY <2>5 DEF BindingsKept
  <2>7. RowsNumbered'
    <3> SUFFICES ASSUME NEW v \in Workspaces
                 PROVE  /\ token[v].exchange <= issued.exchange
                        /\ \A i \in DOMAIN verification'[v] :
                             /\ verification'[v][i].exchange \in 1..issued.exchange
                             /\ token[v] # NoToken => OfToken(verification'[v][i], token[v])
                             /\ \A j \in DOMAIN verification'[v] : j <= i =>
                                  verification'[v][j].exchange <= verification'[v][i].exchange
      BY <1>1 DEF RowsNumbered, OfToken, NoToken, NoScope
    <3> QED BY <2>5 DEF RowsNumbered, OfToken
  <2> QED BY <1>1, <2>5, <2>6, <2>7, AttemptDone DEF AccessTypeOK, NothingOutlives
<1> QED BY <1>2, <1>3, <1>4

-----------------------------------------------------------------------------
(* The account and time *)

LEMMA AccountChanged ==
  ASSUME AccessInv, Forget, UNCHANGED <<attempt, issued>>,
         account' \in [active : BOOLEAN, revision : Positive]
  PROVE  AccessInv'
<1> USE DEF AccessInv
<1>1. /\ NothingOutlives' /\ access' = NoAccess
      /\ session' \in {NoSession} \cup SessionRow
      /\ discovery' \in {NoDiscovery} \cup DiscoveryRow
      /\ visibility' \in [Workspaces -> {"none", "readable", "denied"}]
      /\ token' \in [Workspaces -> {NoToken} \cup TokenRow]
  BY NothingLeft DEF Forget
<1>2. verification' = Touched(Workspaces) /\ BindingsKept
      /\ verification' \in [Workspaces -> Seq(Verification)]
  BY TouchedRows, TouchedKeepsBindings DEF Forget
<1>3. RowsNumbered'
  <2>1. \A w \in Workspaces : token'[w] = NoToken
    BY DEF Forget, NoTokens
  <2> QED BY <1>2, <2>1, RowsForgotten
<1> QED BY <1>1, <1>2, <1>3, AttemptsStay DEF AccessTypeOK

LEMMA AccountKeeps ==
  ASSUME AccessInv, Disable \/ Enable \/ \E active \in BOOLEAN : UpdateCredential(active)
  PROVE  AccessInv'
<1>0. account \in [active : BOOLEAN, revision : Positive]
  BY DEF AccessInv, AccessTypeOK
<1>1. CASE Disable
  BY <1>0, <1>1, AccountChanged DEF Disable
<1>2. ASSUME NEW active \in BOOLEAN, UpdateCredential(active) PROVE AccessInv'
  <2>1. account' \in [active : BOOLEAN, revision : Positive]
    BY <1>0, <1>2 DEF UpdateCredential, Positive
  <2> QED BY <1>2, <2>1, AccountChanged DEF UpdateCredential
<1>3. CASE Enable
  <2>1. /\ UNCHANGED <<access, session, discovery, visibility, token, verification,
                       attempt, issued>>
        /\ account' \in [active : BOOLEAN, revision : Positive] /\ ~account.active
    BY <1>0, <1>3 DEF Enable
  <2>2. NothingOutlives'
    BY <2>1 DEF NothingOutlives, AccessInv
  <2> QED BY <2>1, <2>2, AttemptsStay, RowsStay, NumbersStay DEF AccessInv, AccessTypeOK
<1> QED BY <1>1, <1>2, <1>3

\* What expires keeps its binding.
LEMMA TimeKeeps ==
  ASSUME AccessInv,
         SessionExpires \/ DiscoveryAges \/ \E w \in Workspaces : TokenExpires(w) \/ TokenDeleted(w)
  PROVE  AccessInv'
<1> USE DEF AccessInv
<1>1. CASE SessionExpires
  <2>1. /\ UNCHANGED <<account, access, discovery, visibility, token, verification,
                       attempt, issued>>
        /\ session \in SessionRow /\ session' \in SessionRow
        /\ session'.revision = session.revision /\ session.generation # 0
    <3>1. session \in SessionRow
      BY <1>1 DEF SessionExpires, AccessTypeOK, NoSession
    <3> QED BY <1>1, <3>1 DEF SessionExpires, SessionRow
  <2> QED BY <2>1, AttemptsStay, RowsStay, NumbersStay DEF AccessTypeOK, NothingOutlives
<1>2. CASE DiscoveryAges
  <2>1. /\ UNCHANGED <<account, access, session, visibility, token, verification,
                       attempt, issued>>
        /\ discovery \in DiscoveryRow /\ discovery' \in DiscoveryRow
        /\ discovery'.revision = discovery.revision /\ discovery'.run = discovery.run
    <3>1. discovery \in DiscoveryRow
      BY <1>2 DEF DiscoveryAges, AccessTypeOK, NoDiscovery
    <3> QED BY <1>2, <3>1 DEF DiscoveryAges, DiscoveryRow
  <2> QED BY <2>1, AttemptsStay, RowsStay, NumbersStay DEF AccessTypeOK, NothingOutlives
<1>3. ASSUME NEW w \in Workspaces, TokenExpires(w) PROVE AccessInv'
  <2>1. UNCHANGED <<account, access, session, discovery, visibility, verification,
                    attempt, issued>>
    BY <1>3 DEF TokenExpires
  <2>2. token \in [Workspaces -> {NoToken} \cup TokenRow] /\ token[w] \in TokenRow
    BY <1>3 DEF TokenExpires, AccessTypeOK, NoToken
  <2>3. /\ token' \in [Workspaces -> {NoToken} \cup TokenRow]
        /\ token'[w] \in TokenRow /\ SameToken(token'[w], token[w])
        /\ \A v \in Workspaces : v # w => token'[v] = token[v]
    BY <1>3, <2>2 DEF TokenExpires, TokenRow, SameToken
  <2> QED BY <2>1, <2>2, <2>3, TokenAnswers, AttemptsStay, RowsStay DEF AccessTypeOK
<1>4. ASSUME NEW w \in Workspaces, TokenDeleted(w) PROVE AccessInv'
  <2>1. /\ UNCHANGED <<account, access, session, discovery, visibility, attempt, issued>>
        /\ {w} \in SUBSET Workspaces /\ verification' = Touched({w})
    BY <1>4 DEF TokenDeleted
  <2>2. /\ token' \in [Workspaces -> {NoToken} \cup TokenRow]
        /\ \A v \in Workspaces : token'[v] = IF v \in {w} THEN NoToken ELSE token[v]
    BY <1>4 DEF TokenDeleted, AccessTypeOK
  <2>3. BindingsKept /\ verification' \in [Workspaces -> Seq(Verification)]
    BY <2>1, TouchedRows, TouchedKeepsBindings
  <2>4. RowsNumbered'
    BY <2>1, <2>2, RowsForgotten
  <2>5. NothingOutlives'
    BY <2>1, <2>2 DEF NothingOutlives, NoToken
  <2> QED BY <2>1, <2>2, <2>3, <2>4, <2>5, AttemptsStay DEF AccessTypeOK
<1> QED BY <1>1, <1>2, <1>3, <1>4

-----------------------------------------------------------------------------
(* The theorems *)

LEMMA AccessStarts == AccessInit => AccessInv
<1> SUFFICES ASSUME AccessInit PROVE AccessInv
  OBVIOUS
<1>1. \A w \in Workspaces : verification[w] = << >> /\ DOMAIN verification[w] = {}
                            /\ verification[w] \in Seq(Verification)
  <2>1. \A w \in Workspaces : verification[w] = << >>
    BY DEF AccessInit
  <2>2. << >> \in Seq(Verification) /\ DOMAIN << >> = {}
    BY EmptySeq
  <2> QED BY <2>1, <2>2
<1>2. \A w \in Workspaces : token[w] = NoToken /\ visibility[w] = "none"
  BY DEF AccessInit, NoTokens, NoVisibility
<1>3. AccessTypeOK
  BY <1>1, NoAttemptTyped DEF AccessInit, AccessTypeOK, NoTokens, NoVisibility, Positive
<1>4. AttemptsCarried
  BY NoAttemptTyped DEF AccessInit, AttemptsCarried
<1>5. RowsNumbered
  <2>1. issued.exchange = 0 /\ NoToken.exchange = 0
    BY DEF AccessInit, NoToken
  <2>2. ASSUME NEW w \in Workspaces
        PROVE  token[w].exchange <= issued.exchange /\ DOMAIN verification[w] = {}
    BY <1>1, <1>2, <2>1
  <2> QED BY <2>2 DEF RowsNumbered
<1>6. NothingOutlives
  BY <1>2 DEF AccessInit, NothingOutlives, NoSession, NoDiscovery, NoToken
<1> QED BY <1>3, <1>4, <1>5, <1>6 DEF AccessInv

LEMMA HandlerKeeps ==
  ASSUME AccessInv, NEW r \in Handlers, HandlerStep(r)
  PROVE  AccessInv'
<1>1. CASE RefreshMotherPersonalAccess(r)
  BY <1>1, LoginReserved, LoginFinished DEF RefreshMotherPersonalAccess
<1>2. CASE RunMotherDiscovery(r)
  BY <1>2, DiscoveryReserved, DiscoveryFinished DEF RunMotherDiscovery
<1>3. CASE ExchangeSelectedWorkspaceToken(r)
  BY <1>3, ExchangeReserved, ExchangeFinished DEF ExchangeSelectedWorkspaceToken
<1>4. CASE VerifySelectedWorkspace(r)
  BY <1>4, ReadReserved, ReadFinished DEF VerifySelectedWorkspace
<1>5. CASE Abandon(r)
  <2>1. UNCHANGED <<account, access, session, discovery, visibility, token,
                    verification, issued>> /\ Done(r)
    BY <1>5 DEF Abandon
  <2> QED BY <2>1, AttemptDone, RowsStay, NumbersStay
          DEF AccessInv, AccessTypeOK, NothingOutlives
<1> QED BY <1>1, <1>2, <1>3, <1>4, <1>5 DEF HandlerStep

LEMMA AccessKept == AccessInv /\ [AccessNext]_AccessVars => AccessInv'
<1> SUFFICES ASSUME AccessInv, [AccessNext]_AccessVars PROVE AccessInv'
  OBVIOUS
<1>1. CASE UNCHANGED AccessVars
  <2>1. UNCHANGED <<account, access, session, discovery, visibility, token,
                    verification, attempt, issued>>
    BY <1>1 DEF AccessVars
  <2> QED BY <2>1, AttemptsStay, RowsStay, NumbersStay
          DEF AccessInv, AccessTypeOK, NothingOutlives
<1> QED BY <1>1, HandlerKeeps, AccountKeeps, TimeKeeps DEF AccessNext

\* The invariant of the attempts, the tokens and the reads.
THEOREM AccessInvariance == AccessSpec => []AccessInv
BY AccessStarts, AccessKept, PTL DEF AccessSpec

\* Every row of an account keeps the CHECK constraints of its table.
THEOREM AccessTypeCorrect == AccessSpec => []AccessTypeOK
<1>1. AccessInv => AccessTypeOK
  BY DEF AccessInv
<1> QED BY <1>1, AccessInvariance, PTL

\* Nothing obtained with replaced credentials, or for a disabled account, is
\* there again (updateMotherAccount and the fences of every attempt).
THEOREM NothingOutlivesTheAccount == AccessSpec => []NothingOutlives
<1>1. AccessInv => NothingOutlives
  BY DEF AccessInv
<1> QED BY <1>1, AccessInvariance, PTL

\* Evidence that a draft or a preview may choose was read under the login, the
\* discovery and the token of now (selectedWorkspace).
THEOREM SelectableIsCurrent == AccessSpec => []EvidenceIsCurrent
<1>1. AccessInv => EvidenceIsCurrent
  <2> SUFFICES ASSUME AccessInv, NEW w \in Workspaces, NEW i \in DOMAIN verification[w],
                      Selectable(w, i)
               PROVE  ~verification[w][i].touched
    BY DEF EvidenceIsCurrent
  <2>1. token[w] # NoToken /\ verification[w][i].exchange = token[w].exchange
    BY DEF Selectable, TokenReady, BindingIsCurrent, NoToken
  <2> QED BY <2>1 DEF AccessInv, RowsNumbered, OfToken
<1> QED BY <1>1, AccessInvariance, PTL

\* finishSelectedWorkspace publishes nothing of a read when a newer one of its
\* Workspace was begun, or what it rests on was replaced, while it ran.
THEOREM SlowReadsStaySilent == AccessSpec => SlowNeverPublishes
<1> DEFINE Silent ==
      \A w \in Workspaces : \A i \in DOMAIN verification[w] :
        verification'[w][i].outcome # verification[w][i].outcome =>
          i = Len(verification[w]) /\ ~verification[w][i].touched
<1>1. AccessInv /\ [AccessNext]_AccessVars => [Silent]_AccessVars
  <2> SUFFICES ASSUME AccessInv, AccessNext, NEW w \in Workspaces,
                      NEW i \in DOMAIN verification[w],
                      verification'[w][i].outcome # verification[w][i].outcome
               PROVE  i = Len(verification[w]) /\ ~verification[w][i].touched
    OBVIOUS
  <2>1. PICK r \in Handlers, status \in ReadStatuses : FinishRead(r, status)
    <3>1. \A ws \in SUBSET Workspaces : verification' # Touched(ws)
      BY TouchedRows DEF AccessInv, SameRow
    <3>2. verification' # verification
      OBVIOUS
    <3>3. {w} \in SUBSET Workspaces /\ \A v \in Workspaces : {v} \in SUBSET Workspaces
      OBVIOUS
    <3>4. ASSUME NEW r \in Handlers, NEW v \in Workspaces, ReserveRead(r, v) PROVE FALSE
      <4> DEFINE row == [scope |-> CurrentScope, attempt |-> token[v].attempt,
                         exchange |-> token[v].exchange, outcome |-> "verifying",
                         touched |-> FALSE]
      <4>1. verification' = [verification EXCEPT ![v] = Append(verification[v], row)]
        BY <3>4 DEF ReserveRead
      <4>2. /\ verification \in [Workspaces -> Seq(Verification)]
            /\ DOMAIN verification[v] = 1..Len(verification[v])
            /\ CurrentScope \in Scope /\ token[v].attempt \in Nat /\ token[v].exchange \in Nat
        BY Numbers, ScopeTyped DEF AccessInv, AccessTypeOK
      <4>3. row \in Verification
        BY <4>2 DEF Verification
      <4> HIDE DEF row
      <4>4. \A j \in DOMAIN verification[v] : Append(verification[v], row)[j] = verification[v][j]
        BY <4>2, <4>3, AppendProperties
      <4>5. verification'[w][i] = verification[w][i]
        BY <4>1, <4>2, <4>4
      <4> QED BY <4>5
    <3>5. ~(Disable \/ Enable \/ \E active \in BOOLEAN : UpdateCredential(active))
      BY <3>1, <3>2 DEF Disable, Enable, UpdateCredential, Forget
    <3>6. /\ ~SessionExpires /\ ~DiscoveryAges
          /\ \A v \in Workspaces : ~TokenExpires(v) /\ ~TokenDeleted(v)
      BY <3>1, <3>2, <3>3 DEF SessionExpires, DiscoveryAges, TokenExpires, TokenDeleted
    <3>7. \A r \in Handlers :
            /\ ~RefreshMotherPersonalAccess(r) /\ ~RunMotherDiscovery(r) /\ ~Abandon(r)
            /\ ~ExchangeSelectedWorkspaceToken(r)
      BY <3>1, <3>2, <3>3
         DEF RefreshMotherPersonalAccess, ReservePersonalRefresh, FinishPersonalRefresh,
             RunMotherDiscovery, ReserveMotherDiscovery, FinishMotherDiscovery, Abandon,
             ExchangeSelectedWorkspaceToken, ReserveExchange, FinishExchange
    <3> QED BY <3>4, <3>5, <3>6, <3>7 DEF AccessNext, HandlerStep, VerifySelectedWorkspace
  <2> DEFINE k == attempt[r].id
  <2>2. /\ attempt[r].workspace \in Workspaces /\ k \in DOMAIN verification[attempt[r].workspace]
        /\ Carried(attempt[r], verification) /\ attempt[r].pc = "read"
    BY <2>1 DEF FinishRead, In, AccessInv, AttemptsCarried, Carried
  <2>3. PICK outcome : verification' =
          [verification EXCEPT ![attempt[r].workspace][k].outcome = outcome]
    BY <2>1 DEF FinishRead
  <2>4. w = attempt[r].workspace /\ i = k
    BY <2>2, <2>3, Numbers DEF AccessInv, AccessTypeOK
  <2>5. /\ TokenReady(w, attempt[r].scope) /\ ReadIsLatest(r)
        /\ token[w].attempt = attempt[r].attempt /\ token[w].exchange = attempt[r].exchange
    BY <2>1, <2>4 DEF FinishRead
  <2>6. /\ token[w] # NoToken /\ token[w].scope = attempt[r].scope
        /\ verification[w][i].exchange = token[w].exchange
    BY <2>2, <2>4, <2>5 DEF TokenReady, NoToken, Carried
  <2>7. ~verification[w][i].touched
    BY <2>6 DEF AccessInv, RowsNumbered, OfToken
  <2>8. /\ Len(verification[w]) \in Nat /\ DOMAIN verification[w] = 1..Len(verification[w])
        /\ token[w].exchange \in Nat
        /\ \A j \in DOMAIN verification[w] : verification[w][j].exchange \in Nat
    BY Numbers DEF AccessInv, Verification
  <2>9. ASSUME NEW j \in DOMAIN verification[w], i <= j PROVE j <= i
    <3>1. verification[w][j].exchange = token[w].exchange
      <4>1. verification[w][i].exchange <= verification[w][j].exchange
        BY <2>9 DEF AccessInv, RowsNumbered
      <4>2. verification[w][j].exchange <= token[w].exchange
        BY <2>6 DEF AccessInv, RowsNumbered, OfToken
      <4> QED BY <2>6, <2>8, <4>1, <4>2
    <3>2. SameBinding(verification[w][j], r)
      BY <2>5, <2>6, <3>1 DEF AccessInv, RowsNumbered, OfToken, SameBinding
    <3> QED BY <2>4, <2>5, <3>2 DEF ReadIsLatest
  <2> QED BY <2>7, <2>8, <2>9
<1> QED BY <1>1, AccessInvariance, PTL DEF AccessSpec, SlowNeverPublishes
=============================================================================
