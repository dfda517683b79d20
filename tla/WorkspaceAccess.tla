-------------------------- MODULE WorkspaceAccess --------------------------
(***************************************************************************)
(* How a mother account gets at its Workspaces: a login opens its Personal *)
(* session (runtime/mother_personal_access.go), a discovery lists the      *)
(* Workspaces the session sees (mother_discovery.go), an exchange turns it *)
(* into a token of one Workspace (selected_workspace_access.go) and a read *)
(* under that token verifies its facts (selected_workspace.go).  Drafts    *)
(* and rotation previews may choose what was verified.                     *)
(*                                                                         *)
(* Each is an attempt that is reserved in one transaction and published in *)
(* another, with the platform in between; what it rests on may be gone by  *)
(* then.  A transaction locks the rows of the account, so it is one step.  *)
(***************************************************************************)
EXTENDS Naturals, Sequences

CONSTANTS
  Workspaces,     \* Workspaces the account may see
  NoWorkspace,    \* none of them
  Handlers,       \* concurrent runs of the handlers
  MaxRevision,    \* bound on secret_revision
  MaxLogins,      \* bound on refreshes
  MaxRuns,        \* bound on discoveries
  MaxExchanges,   \* bound on token exchanges
  MaxReads        \* bound on reads of a Workspace

ASSUME WorkspacesAssumption == NoWorkspace \notin Workspaces
ASSUME BoundsAssumption ==
  {MaxRevision, MaxLogins, MaxRuns, MaxExchanges, MaxReads} \subseteq Nat

VARIABLES
  account,       \* tsw_mother_accounts and its credentials
  access,        \* tsw_mother_personal_access
  session,       \* tsw_mother_personal_sessions; generation 0 without a row
  discovery,     \* tsw_mother_discoveries; run 0 without a row
  visibility,    \* tsw_mother_workspace_visibility of the run
  token,         \* tsw_selected_workspace_tokens
  verification,  \* tsw_workspace_verifications, in the order of their ids
  attempt,       \* what each handler carries between its transactions
  issued         \* how many logins, runs and exchanges were numbered

AccessVars == <<account, access, session, discovery, visibility, token,
               verification, attempt, issued>>

-----------------------------------------------------------------------------
(* Rows *)

\* What an exchange and a read are bound to.
Scope == [run : Nat, generation : Nat, revision : Nat]
NoScope == [run |-> 0, generation |-> 0, revision |-> 0]

Positive == Nat \ {0}
AccessRow == [status : {"verifying", "ready", "other"}, attempt : Positive,
              revision : Positive]
SessionRow == [generation : Positive, revision : Positive, expired : BOOLEAN]
DiscoveryRow == [run : Positive, attempt : Positive, revision : Positive,
                 generation : Nat, status : {"discovering", "discovered", "other"},
                 old : BOOLEAN]
TokenRow == [status : {"exchanging", "ready", "failed"}, attempt : Positive,
             exchange : Positive, scope : Scope, expired : BOOLEAN]

\* No row.  An attempt is numbered within its row: a new row starts again at 1.
NoAccess == [status |-> "none", attempt |-> 0, revision |-> 0]
NoSession == [generation |-> 0, revision |-> 0, expired |-> FALSE]
NoDiscovery == [run |-> 0, attempt |-> 0, revision |-> 0, generation |-> 0,
                status |-> "none", old |-> FALSE]
NoToken == [status |-> "none", attempt |-> 0, exchange |-> 0, scope |-> NoScope,
            expired |-> FALSE]
NoVisibility == [w \in Workspaces |-> "none"]
NoTokens == [w \in Workspaces |-> NoToken]

\* touched is history: something the read rests on was replaced since it began.
Verification == [scope : Scope, attempt : Nat, exchange : Nat,
                 outcome : {"verifying", "verified", "other"}, touched : BOOLEAN]

Attempt == [pc : {"idle", "login", "discover", "exchange", "read"},
            workspace : Workspaces \cup {NoWorkspace}, scope : Scope,
            attempt : Nat, exchange : Nat, id : Nat]
NoAttempt == [pc |-> "idle", workspace |-> NoWorkspace, scope |-> NoScope,
              attempt |-> 0, exchange |-> 0, id |-> 0]

\* Every variable holds a value the schema and the handlers allow.
AccessTypeOK ==
  /\ account \in [active : BOOLEAN, revision : Positive]
  /\ access \in {NoAccess} \cup AccessRow
  /\ session \in {NoSession} \cup SessionRow
  /\ discovery \in {NoDiscovery} \cup DiscoveryRow
  /\ visibility \in [Workspaces -> {"none", "readable", "denied"}]
  /\ token \in [Workspaces -> {NoToken} \cup TokenRow]
  /\ verification \in [Workspaces -> Seq(Verification)]
  /\ attempt \in [Handlers -> Attempt]
  /\ issued \in [login : Nat, run : Nat, exchange : Nat]

AccessInit ==
  /\ account = [active |-> TRUE, revision |-> 1]
  /\ access = NoAccess
  /\ session = NoSession
  /\ discovery = NoDiscovery
  /\ visibility = NoVisibility
  /\ token = NoTokens
  /\ verification = [w \in Workspaces |-> << >>]
  /\ attempt = [r \in Handlers |-> NoAttempt]
  /\ issued = [login |-> 0, run |-> 0, exchange |-> 0]

In(r, pc) == attempt[r].pc = pc
Done(r) == attempt' = [attempt EXCEPT ![r] = NoAttempt]

\* Reads of the Workspaces ws that began before the step.
Touched(ws) ==
  [w \in Workspaces |->
     IF w \in ws
     THEN [i \in DOMAIN verification[w] |-> [verification[w][i] EXCEPT !.touched = TRUE]]
     ELSE verification[w]]

-----------------------------------------------------------------------------
(* What the platform may answer; no transaction is open meanwhile. *)

\* RefreshPersonal goes step by step and stops at the first that fails.  A 401 to
\* the password or the code says that the credentials are wrong; any other failure
\* says nothing of them, and only the session read after the code is a login.
LoginSteps == {"identifier", "password", "code", "session"}

LoginAnswer(stop, unauthorized) ==
  IF stop = "nowhere" THEN "ready"
  ELSE IF unauthorized /\ stop \in {"password", "code"} THEN "invalid_login"
  ELSE "refresh_failed"

LoginAnswers ==
  {LoginAnswer(stop, unauthorized) :
     stop \in LoginSteps \cup {"nowhere"}, unauthorized \in BOOLEAN}

\* Discover: a 401 says that the platform does not know the session any more, and
\* a list with one doubtful entry is no list at all.
DiscoveryAnswer(status, entries) ==
  [over  |-> status = "unauthorized",
   found |-> IF status = "listed" /\ \A w \in Workspaces : entries[w] # "doubtful"
             THEN [w \in Workspaces |-> IF entries[w] = "team" THEN "readable" ELSE "none"]
             ELSE NoVisibility]

DiscoveryAnswers ==
  {DiscoveryAnswer(status, entries) :
     status \in {"listed", "unauthorized", "failed"},
     entries \in [Workspaces -> {"team", "excluded", "doubtful"}]}

\* ExchangeWorkspace: a token of this Workspace that lasts, or no answer of use.
ExchangeAnswers == {"granted", "unavailable"}

\* A read asks four sources one after the other, whatever the others answered.
Sources == {"subscriptions", "seat_type_counts", "workspace_members", "outbound_invites"}

\* A response fits when its fields are there and in range; a page also when it
\* keeps to the total and the offset declared, and repeats or doubts no entry.
Responses == [status : {"ok", "unauthorized", "forbidden", "failed"}, fits : BOOLEAN]

PageAnswer(response) ==
  CASE response.status \in {"unauthorized", "forbidden"} -> "denied"
    [] response.status = "ok" /\ response.fits -> "read"
    [] OTHER -> "unknown"

\* The first page that is not read decides for its list, which is kept whole or
\* not at all.
SourceAnswer(pages) ==
  LET unread == {i \in DOMAIN pages : PageAnswer(pages[i]) # "read"} IN
  IF unread = {} THEN "read"
  ELSE PageAnswer(pages[CHOOSE i \in unread : \A j \in unread : i <= j])

\* Subscriptions and counts are one page each, members and invites are lists; two
\* pages stand for any number.
SourceAnswers == {SourceAnswer(pages) : pages \in UNION {[1..n -> Responses] : n \in 1..2}}

\* One denial denies the read; short of that, only four complete answers verify.
ReadStatus(answers) ==
  IF \E s \in Sources : answers[s] = "denied" THEN "permission_denied"
  ELSE IF \A s \in Sources : answers[s] = "read" THEN "verified"
  ELSE "partial"

ReadStatuses == {ReadStatus(answers) : answers \in [Sources -> SourceAnswers]}

-----------------------------------------------------------------------------
(* The Personal session *)

\* reservePersonalRefresh: everything obtained with the last session goes.
ReservePersonalRefresh(r) ==
  /\ In(r, "idle")
  /\ account.active
  /\ issued.login < MaxLogins
  /\ access' = [status |-> "verifying", attempt |-> access.attempt + 1,
                revision |-> account.revision]
  /\ session' = NoSession /\ discovery' = NoDiscovery
  /\ visibility' = NoVisibility /\ token' = NoTokens
  /\ issued' = [issued EXCEPT !.login = @ + 1]
  /\ attempt' = [attempt EXCEPT ![r] =
       [NoAttempt EXCEPT !.pc = "login", !.attempt = access'.attempt, !.id = issued'.login,
          !.scope.revision = account.revision]]
  /\ verification' = Touched(Workspaces)
  /\ UNCHANGED account

LoginIsLatest(r) ==
  /\ account.active
  /\ account.revision = attempt[r].scope.revision
  /\ access.status # "none" /\ access.attempt = attempt[r].attempt

\* The login, and the rest of RefreshMotherPersonalAccess.  A second session
\* row violates the primary key, which takes the whole transaction back.
FinishPersonalRefresh(r, answer) ==
  LET ready == answer = "ready" IN
  /\ In(r, "login")
  /\ IF LoginIsLatest(r) /\ ~(ready /\ session # NoSession)
     THEN /\ access' = [access EXCEPT !.status = IF ready THEN "ready" ELSE "other"]
          /\ session' = IF ready
                        THEN [generation |-> attempt[r].id,
                              revision |-> attempt[r].scope.revision, expired |-> FALSE]
                        ELSE session
     ELSE UNCHANGED <<access, session>>
  /\ Done(r)
  /\ UNCHANGED <<account, discovery, visibility, token, verification, issued>>

-----------------------------------------------------------------------------
(* Discovery *)

\* The generation a session of these credentials has; NULL is 0.
Generation == IF session.revision = account.revision THEN session.generation ELSE 0

\* What a discovery finds of it.  The joined session is not locked: one that was
\* opened while the statement waited for the account is missed.
Joined == {Generation, 0}

ReserveMotherDiscovery(r, generation) ==
  /\ In(r, "idle")
  /\ account.active
  /\ issued.run < MaxRuns
  /\ issued' = [issued EXCEPT !.run = @ + 1]
  /\ discovery' = [run |-> issued'.run, attempt |-> discovery.attempt + 1,
                   revision |-> account.revision, generation |-> generation,
                   status |-> "discovering", old |-> FALSE]
  /\ token' = NoTokens /\ visibility' = NoVisibility
  /\ attempt' = [attempt EXCEPT ![r] =
       [NoAttempt EXCEPT !.pc = "discover", !.attempt = discovery'.attempt,
          !.scope.generation = generation, !.scope.revision = account.revision]]
  /\ verification' = Touched(Workspaces)
  /\ UNCHANGED <<account, access, session>>

DiscoveryIsLatest(r) ==
  LET scope == attempt[r].scope IN
  /\ account.active /\ account.revision = scope.revision
  /\ discovery.run # 0 /\ discovery.attempt = attempt[r].attempt
  /\ discovery.generation = scope.generation /\ scope.generation \in Joined
  /\ scope.generation # 0 =>
       access.status = "ready" /\ access.revision = account.revision

\* Discover, and the rest of RunMotherDiscovery.  Without a session nothing is
\* asked, and what an expired one found is not kept.
FinishMotherDiscovery(r, answer) ==
  LET ended == answer.over \/ (attempt[r].scope.generation # 0 /\ session.expired)
      found == IF session.expired THEN NoVisibility ELSE answer.found
  IN
  /\ In(r, "discover")
  /\ attempt[r].scope.generation = 0 => ~answer.over /\ answer.found = NoVisibility
  /\ IF DiscoveryIsLatest(r)
     THEN /\ session' = IF ended THEN NoSession ELSE session
          /\ discovery' = [discovery EXCEPT !.old = FALSE,
               !.status = IF found = NoVisibility THEN "other" ELSE "discovered"]
          /\ visibility' = found
     ELSE UNCHANGED <<session, discovery, visibility>>
  /\ Done(r)
  /\ UNCHANGED <<account, access, token, verification, issued>>

-----------------------------------------------------------------------------
(* One Workspace of the account *)

\* selectedWorkspaceFromSQL, the join of every transaction below: the discovery
\* and the session a Workspace is reached through.
Selected(w) ==
  /\ account.active /\ visibility[w] # "none"
  /\ discovery.status = "discovered" /\ ~discovery.old
  /\ session.generation # 0 /\ ~session.expired
  /\ discovery.generation = session.generation
  /\ {discovery.revision, session.revision} = {account.revision}

CurrentScope == [run |-> discovery.run, generation |-> session.generation,
                 revision |-> account.revision]

\* The row is locked FOR SHARE and is what the handler began with.
SelectedAsBefore(r) ==
  /\ Selected(attempt[r].workspace)
  /\ visibility[attempt[r].workspace] = "readable"
  /\ CurrentScope = attempt[r].scope

\* reserveWorkspaceTokenExchange: the token of the last exchange goes.
ReserveExchange(r, w) ==
  /\ In(r, "idle")
  /\ Selected(w) /\ visibility[w] = "readable"
  /\ issued.exchange < MaxExchanges
  /\ issued' = [issued EXCEPT !.exchange = @ + 1]
  /\ token' = [token EXCEPT ![w] =
       [status |-> "exchanging", attempt |-> @.attempt + 1,
        exchange |-> issued'.exchange, scope |-> CurrentScope, expired |-> FALSE]]
  /\ attempt' = [attempt EXCEPT ![r] =
       [NoAttempt EXCEPT !.pc = "exchange", !.workspace = w, !.scope = CurrentScope,
          !.attempt = token'[w].attempt, !.exchange = issued'.exchange]]
  /\ verification' = Touched({w})
  /\ UNCHANGED <<account, access, session, discovery, visibility>>

\* The exchange, and finishWorkspaceTokenExchange.
FinishExchange(r, answer) ==
  LET w == attempt[r].workspace IN
  /\ In(r, "exchange")
  /\ token' = IF /\ SelectedAsBefore(r)
                 /\ token[w].status = "exchanging"
                 /\ token[w].attempt = attempt[r].attempt
                 /\ token[w].exchange = attempt[r].exchange
              THEN [token EXCEPT ![w].status = IF answer = "granted" THEN "ready" ELSE "failed"]
              ELSE token
  /\ Done(r)
  /\ UNCHANGED <<account, access, session, discovery, visibility, verification, issued>>

\* currentWorkspaceAccessTx.
TokenReady(w, scope) ==
  token[w].status = "ready" /\ ~token[w].expired /\ token[w].scope = scope

\* reserveSelectedWorkspace
ReserveRead(r, w) ==
  /\ In(r, "idle")
  /\ Selected(w) /\ visibility[w] = "readable"
  /\ TokenReady(w, CurrentScope)
  /\ Len(verification[w]) < MaxReads
  /\ verification' = [verification EXCEPT ![w] = Append(@,
       [scope |-> CurrentScope, attempt |-> token[w].attempt,
        exchange |-> token[w].exchange, outcome |-> "verifying", touched |-> FALSE])]
  /\ attempt' = [attempt EXCEPT ![r] =
       [pc |-> "read", workspace |-> w, scope |-> CurrentScope,
        attempt |-> token[w].attempt, exchange |-> token[w].exchange,
        id |-> Len(verification'[w])]]
  /\ UNCHANGED <<account, access, session, discovery, visibility, token, issued>>

SameBinding(row, r) ==
  /\ row.scope = attempt[r].scope
  /\ row.attempt = attempt[r].attempt /\ row.exchange = attempt[r].exchange

\* Mutant: an earlier read of the same binding may answer last.
ReadOfBinding(r) == TRUE

ReadIsLatest(r) ==
  LET rows == verification[attempt[r].workspace]
  IN \A i \in DOMAIN rows : SameBinding(rows[i], r) => i <= attempt[r].id

\* The read, and finishSelectedWorkspace.
FinishRead(r, status) ==
  LET w == attempt[r].workspace IN
  /\ In(r, "read")
  /\ verification' =
       IF /\ SelectedAsBefore(r)
          /\ TokenReady(w, attempt[r].scope)
          /\ token[w].attempt = attempt[r].attempt
          /\ token[w].exchange = attempt[r].exchange
          /\ verification[w][attempt[r].id].outcome = "verifying"
          /\ ReadIsLatest(r)
       THEN [verification EXCEPT ![w][attempt[r].id].outcome =
              IF status = "verified" THEN "verified" ELSE "other"]
       ELSE verification
  /\ Done(r)
  /\ UNCHANGED <<account, access, session, discovery, visibility, token, issued>>

\* The process of a handler stops, its context ends or its transaction fails.
Abandon(r) ==
  /\ ~In(r, "idle")
  /\ Done(r)
  /\ UNCHANGED <<account, access, session, discovery, visibility, token,
                 verification, issued>>

\* Mutant: only the attempt tells one token of a Workspace from the next.
BindingByAttempt(row, w) ==
  row.scope = CurrentScope /\ row.attempt = token[w].attempt

BindingIsCurrent(row, w) ==
  /\ row.scope = CurrentScope
  /\ row.attempt = token[w].attempt /\ row.exchange = token[w].exchange

\* The evidence a draft or a preview may choose, and GET shows as verified.
Selectable(w, i) ==
  LET rows == verification[w] IN
  /\ Selected(w) /\ visibility[w] = "readable"
  /\ TokenReady(w, CurrentScope)
  /\ BindingIsCurrent(rows[i], w) /\ rows[i].outcome = "verified"
  /\ \A j \in DOMAIN rows : BindingIsCurrent(rows[j], w) => j <= i

-----------------------------------------------------------------------------
(* The account *)

\* Mutant: tokens of Workspaces are left to their expiry.
ForgetLogin ==
  /\ access' = NoAccess /\ session' = NoSession /\ discovery' = NoDiscovery
  /\ visibility' = NoVisibility /\ token' = token
  /\ verification' = Touched(Workspaces)

\* Everything obtained with the credentials goes in the same transaction.
Forget ==
  /\ access' = NoAccess /\ session' = NoSession /\ discovery' = NoDiscovery
  /\ visibility' = NoVisibility /\ token' = NoTokens
  /\ verification' = Touched(Workspaces)

\* updateMotherAccount: new credentials.
UpdateCredential(active) ==
  /\ account.revision < MaxRevision
  /\ account' = [active |-> active, revision |-> account.revision + 1]
  /\ Forget
  /\ UNCHANGED <<attempt, issued>>

Disable ==
  /\ account' = [account EXCEPT !.active = FALSE]
  /\ Forget
  /\ UNCHANGED <<attempt, issued>>

Enable ==
  /\ ~account.active
  /\ account' = [account EXCEPT !.active = TRUE]
  /\ UNCHANGED <<access, session, discovery, visibility, token, verification,
                 attempt, issued>>

-----------------------------------------------------------------------------
(* Time *)

SessionExpires ==
  /\ session.generation # 0
  /\ session' = [session EXCEPT !.expired = TRUE]
  /\ UNCHANGED <<account, access, discovery, visibility, token, verification,
                 attempt, issued>>

DiscoveryAges ==
  /\ discovery.run # 0
  /\ discovery' = [discovery EXCEPT !.old = TRUE]
  /\ UNCHANGED <<account, access, session, visibility, token, verification,
                 attempt, issued>>

TokenExpires(w) ==
  /\ token[w].status = "ready"
  /\ token' = [token EXCEPT ![w].expired = TRUE]
  /\ UNCHANGED <<account, access, session, discovery, visibility, verification,
                 attempt, issued>>

\* DeleteExpiredWorkspaceTx: a token that expired, or an exchange that got none
\* seven days ago.  The attempts of the next token start again.
TokenDeleted(w) ==
  /\ token[w].status # "none"
  /\ token[w].status = "ready" => token[w].expired
  /\ token' = [token EXCEPT ![w] = NoToken]
  /\ verification' = Touched({w})
  /\ UNCHANGED <<account, access, session, discovery, visibility, attempt, issued>>

-----------------------------------------------------------------------------
(* Each handler reserves an attempt, asks the platform and finishes. *)

RefreshMotherPersonalAccess(r) ==
  \/ ReservePersonalRefresh(r)
  \/ \E answer \in LoginAnswers : FinishPersonalRefresh(r, answer)

RunMotherDiscovery(r) ==
  \/ \E generation \in Joined : ReserveMotherDiscovery(r, generation)
  \/ \E answer \in DiscoveryAnswers : FinishMotherDiscovery(r, answer)

ExchangeSelectedWorkspaceToken(r) ==
  \/ \E w \in Workspaces : ReserveExchange(r, w)
  \/ \E answer \in ExchangeAnswers : FinishExchange(r, answer)

VerifySelectedWorkspace(r) ==
  \/ \E w \in Workspaces : ReserveRead(r, w)
  \/ \E status \in ReadStatuses : FinishRead(r, status)

HandlerStep(r) ==
  \/ RefreshMotherPersonalAccess(r)
  \/ RunMotherDiscovery(r)
  \/ ExchangeSelectedWorkspaceToken(r)
  \/ VerifySelectedWorkspace(r)
  \/ Abandon(r)

AccessNext ==
  \/ \E r \in Handlers : HandlerStep(r)
  \/ \E active \in BOOLEAN : UpdateCredential(active)
  \/ Disable \/ Enable \/ SessionExpires \/ DiscoveryAges
  \/ \E w \in Workspaces : TokenExpires(w) \/ TokenDeleted(w)

AccessSpec == AccessInit /\ [][AccessNext]_AccessVars

-----------------------------------------------------------------------------
(* Properties *)

\* Evidence a draft or a preview may choose (the joins of selected_workspace.go)
\* rests on the login, the discovery and the token that its read began with:
\* none of them was replaced, and the account was not disabled, since.
EvidenceIsCurrent ==
  \A w \in Workspaces : \A i \in DOMAIN verification[w] :
    Selectable(w, i) => ~verification[w][i].touched

\* finishSelectedWorkspace publishes nothing of a read when a newer one of the
\* Workspace was begun, or what it rests on was replaced, while it ran.
SlowNeverPublishes ==
  [][\A w \in Workspaces : \A i \in DOMAIN verification[w] :
       verification'[w][i].outcome # verification[w][i].outcome =>
         i = Len(verification[w]) /\ ~verification[w][i].touched]_AccessVars

\* What was obtained with replaced credentials, or for an account that is
\* disabled, is gone, and nothing in flight brings it back
\* (updateMotherAccount and the fences of every attempt).
NothingOutlives ==
  LET current(rev) == account.active /\ rev = account.revision IN
  /\ session.generation # 0 => current(session.revision)
  /\ discovery.run # 0 => current(discovery.revision)
  /\ \A w \in Workspaces :
       /\ visibility[w] # "none" => discovery.run # 0
       /\ token[w].status # "none" =>
            current(token[w].scope.revision) /\ token[w].scope.run = discovery.run
=============================================================================
