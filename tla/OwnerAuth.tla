------------------------------ MODULE OwnerAuth ------------------------------
(***************************************************************************)
(* Authentication of the Owner: password logins under a rate limit, the    *)
(* sessions they open, their refresh, rotation and revocation              *)
(* (runtime/owner_auth.go), and the commands on the host that create the   *)
(* Owner and reset the password (app/owner_cli.go).                        *)
(*                                                                         *)
(* Logins and revocations are transactions of several statements; what a   *)
(* statement reads without a lock may be over when the next one writes.    *)
(* A statement that writes a locked row waits; PostgreSQL aborts one of    *)
(* two transactions that wait for each other.  now() is the start of the   *)
(* transaction.  Times are ticks; the sessions of a login are those that   *)
(* replaced its first one by rotation.                                     *)
(***************************************************************************)
EXTENDS Naturals, FiniteSets

CONSTANTS
  Names,       \* user names of login requests
  OwnerName,   \* the name of the only Owner
  Addresses,   \* addresses login requests come from
  Passwords,   \* passwords, right and wrong
  Sessions,    \* rows of tsw_owner_sessions
  NoSession,   \* no row
  Requests,    \* concurrent requests
  Limit,       \* failures of a subject in a window (5)
  Window,      \* length of a window (15 minutes)
  Block,       \* how long a subject is blocked (15 minutes)
  IdleTime,    \* idle lifetime of a session (8 hours)
  Lifetime,    \* absolute lifetime of a login (24 hours)
  MaxTime,     \* bound on the clock
  MaxVersion   \* bound on auth_version

ASSUME NamesAssumption == OwnerName \in Names /\ Names \cap Addresses = {}
ASSUME NoSessionAssumption == NoSession \notin Sessions
ASSUME LimitAssumption == Limit \in Nat \ {0}
ASSUME TimesAssumption ==
  /\ Window \in Nat \ {0} /\ Block \in Nat /\ Block >= Window
  /\ IdleTime \in Nat \ {0} /\ Lifetime \in Nat \ {0}
  /\ MaxTime \in Nat /\ MaxVersion \in Nat

Subjects == Names \cup Addresses
Times == 0 .. MaxTime
Windows == {t \div Window : t \in Times}

VARIABLES
  now,      \* database time
  owner,    \* the row of tsw_owners; version 0 without one
  session,  \* tsw_owner_sessions
  bucket,   \* tsw_rate_limit_buckets
  request,  \* requests in progress
  reset,    \* a reset holds the row of the Owner
  refused,  \* history: logins of a subject answered with a failure, by window
  ended     \* history: logins ended by a logout, a revocation or a reset

vars == <<now, owner, session, bucket, request, reset, refused, ended>>

-----------------------------------------------------------------------------
(* Rows *)

SessionRow == [status : {"none", "open", "revoked"}, login : Sessions \cup {NoSession},
               version : Nat, verified : Nat, began : Nat, idle : Nat, absolute : Nat]
NoRow == [status |-> "none", login |-> NoSession, version |-> 0, verified |-> 0,
          began |-> 0, idle |-> 0, absolute |-> 0]

\* blocked is 0 for NULL.
Bucket == [count : 0 .. Limit, blocked : Nat]

Request == [pc : {"idle", "limit", "verify", "refuse", "open",
                  "revoke", "rotate", "insert"},
            name : Names, address : Addresses \cup Names, password : Passwords,
            session : Sessions \cup {NoSession}, target : Sessions \cup {NoSession},
            version : Nat, absolute : Nat, start : Nat]

\* No request: the fields of the last one are gone.
Idle == [pc |-> "idle", name |-> OwnerName, address |-> OwnerName,
         password |-> CHOOSE p \in Passwords : TRUE, session |-> NoSession,
         target |-> NoSession, version |-> 0, absolute |-> 0, start |-> 0]

\* Every variable holds a value the schema and the handlers allow.
TypeOK ==
  /\ now \in Times
  /\ owner \in [version : Nat, password : Passwords]
  /\ session \in [Sessions -> SessionRow]
  /\ bucket \in [Subjects -> [Windows -> Bucket]]
  /\ request \in [Requests -> Request]
  /\ reset \in BOOLEAN
  /\ refused \in [Subjects -> [Windows -> Nat]]
  /\ ended \subseteq Sessions

Init ==
  /\ now = 0
  /\ owner \in [version : {0}, password : Passwords]
  /\ session = [s \in Sessions |-> NoRow]
  /\ bucket = [x \in Subjects |-> [w \in Windows |-> [count |-> 0, blocked |-> 0]]]
  /\ request = [r \in Requests |-> Idle]
  /\ reset = FALSE
  /\ refused = [x \in Subjects |-> [w \in Windows |-> 0]]
  /\ ended = {}

At(r, pc) == request[r].pc = pc
Goto(r, pc) == request' = [request EXCEPT ![r].pc = pc]
Done(r) == request' = [request EXCEPT ![r] = Idle]

Least(a, b) == IF a < b THEN a ELSE b

-----------------------------------------------------------------------------
(* Logins *)

\* login_account and login_ip.
SubjectsOf(r) == {request[r].name, request[r].address}
WindowOf(r) == request[r].start \div Window

\* The buckets r has locked, or would lock: those of its window.
Buckets(r) == {<<x, WindowOf(r)>> : x \in SubjectsOf(r)}
Locked == UNION {Buckets(q) : q \in {p \in Requests : request[p].pc \in {"verify", "refuse", "open"}}}

\* Mutant: the buckets are read without locking them.
LocksIgnored(r) == TRUE

LocksFree(r) == Buckets(r) \cap Locked = {}

\* retryAfterTx: in whatever window the subject was blocked.
Blocked(r) ==
  \E x \in SubjectsOf(r), w \in Windows : bucket[x][w].blocked > request[r].start

\* The transaction starts.
LoginOwner(r) ==
  /\ At(r, "idle")
  /\ \E n \in Names, a \in Addresses, p \in Passwords :
       request' = [request EXCEPT ![r] =
         [Idle EXCEPT !.pc = "limit", !.name = n, !.address = a, !.password = p,
                      !.start = now]]
  /\ UNCHANGED <<now, owner, session, bucket, reset, refused, ended>>

\* lockRateSubjects and retryAfterTx.  A denied request charges nothing.
LockRateSubjects(r) ==
  /\ At(r, "limit")
  /\ LocksFree(r)
  /\ IF Blocked(r) THEN Done(r) ELSE Goto(r, "verify")
  /\ UNCHANGED <<now, owner, session, bucket, reset, refused, ended>>

Matches(r) ==
  /\ owner.version > 0
  /\ request[r].name = OwnerName /\ request[r].password = owner.password

\* findOwnerTx and VerifyPassword: the row is read without a lock.
VerifyPassword(r) ==
  /\ At(r, "verify")
  /\ request' = [request EXCEPT ![r].pc = IF Matches(r) THEN "open" ELSE "refuse",
                                ![r].version = owner.version,
                                ![r].password = Idle.password]
  /\ UNCHANGED <<now, owner, session, bucket, reset, refused, ended>>

\* One more failure; the last one allowed blocks the subject.
Charged(b, start) ==
  [count |-> Least(Limit, b.count + 1),
   blocked |-> IF b.count >= Limit - 1 THEN start + Block ELSE b.blocked]

\* authenticationFailed: both subjects are charged with the answer.
AuthenticationFailed(r) ==
  /\ At(r, "refuse")
  /\ owner.version > 0
  /\ bucket' = [x \in Subjects |->
       IF x \in SubjectsOf(r)
       THEN [bucket[x] EXCEPT ![WindowOf(r)] = Charged(@, request[r].start)]
       ELSE bucket[x]]
  /\ refused' = [x \in Subjects |->
       IF x \in SubjectsOf(r) THEN [refused[x] EXCEPT ![WindowOf(r)] = @ + 1]
       ELSE refused[x]]
  /\ Done(r)
  /\ UNCHANGED <<now, owner, session, reset, ended>>

\* Mutant: the version is read again when the row is inserted.
VersionNow(r) == owner.version

\* The version that was read with the password.
VersionRead(r) == request[r].version

\* insertSessionTx of a login.  Its reference to the Owner waits for a reset.
OpenSession(r, s) ==
  /\ At(r, "open")
  /\ ~reset
  /\ session[s].status = "none"
  /\ session' = [session EXCEPT ![s] =
       [status |-> "open", login |-> s, version |-> VersionRead(r),
        verified |-> request[r].version, began |-> request[r].start,
        idle |-> request[r].start + Least(IdleTime, Lifetime),
        absolute |-> request[r].start + Lifetime]]
  /\ Done(r)
  /\ UNCHANGED <<now, owner, bucket, reset, refused, ended>>

-----------------------------------------------------------------------------
(* Sessions *)

\* The WHERE clause of session().
Usable(s) ==
  /\ session[s].status = "open"
  /\ session[s].version = owner.version
  /\ session[s].idle > now /\ session[s].absolute > now

\* Rows an open revocation has updated: its target, then its own session.
RowsOf(r) ==
  CASE At(r, "rotate") -> {request[r].target}
    [] At(r, "insert") -> {request[r].target, request[r].session}
    [] OTHER -> {}
Free(s) == \A r \in Requests : s \notin RowsOf(r)

\* RefreshOwnerSession, one statement.
RefreshOwnerSession(s) ==
  /\ Usable(s) /\ Free(s)
  /\ session' = [session EXCEPT ![s].idle = Least(now + IdleTime, session[s].absolute)]
  /\ UNCHANGED <<now, owner, bucket, request, reset, refused, ended>>

\* session() of LogoutOwner (t is s) and RevokeOwnerSession.
ReadSession(r, s, t) ==
  /\ At(r, "idle")
  /\ Usable(s)
  /\ request' = [request EXCEPT ![r] =
       [Idle EXCEPT !.pc = "revoke", !.session = s, !.target = t,
                    !.version = session[s].version, !.absolute = session[s].absolute,
                    !.start = now]]
  /\ UNCHANGED <<now, owner, session, bucket, reset, refused, ended>>

\* Nothing reads the deadlines of a revoked row.
Revoked(rows, ids) ==
  [s \in Sessions |->
     IF s \in ids THEN [rows[s] EXCEPT !.status = "revoked", !.idle = 0, !.absolute = 0]
                  ELSE rows[s]]

\* LogoutOwner, or RevokeOwnerSession of the caller's own session.
RevokeOwn(r) ==
  LET s == request[r].session IN
  /\ At(r, "revoke") /\ request[r].target = s
  /\ Free(s)
  /\ IF session[s].status = "open"
     THEN /\ session' = Revoked(session, {s})
          /\ ended' = ended \cup {session[s].login}
     ELSE UNCHANGED <<session, ended>>
  /\ Done(r)
  /\ UNCHANGED <<now, owner, bucket, reset, refused>>

\* RevokeOwnerSession of another session, in a transaction that began at some
\* time since session(): one that is not open is answered as revoked, an open
\* one stays locked until the caller's session is rotated.
RevokeTarget(r) ==
  LET t == request[r].target IN
  /\ At(r, "revoke") /\ t # request[r].session
  /\ Free(t)
  /\ IF session[t].status = "open"
     THEN \E begin \in request[r].start .. now :
            request' = [request EXCEPT ![r].pc = "rotate", ![r].start = begin]
     ELSE Done(r)
  /\ UNCHANGED <<now, owner, session, bucket, reset, refused, ended>>

\* Mutant: the rows affected by the update of the own session are not counted.
AnyRow(r) == TRUE

OwnIsOpen(r) == session[request[r].session].status = "open"

\* rotateSessionTx: nothing is revoked unless the own session still is open.
RotateOwn(r) ==
  /\ At(r, "rotate")
  /\ Free(request[r].session)
  /\ IF OwnIsOpen(r) THEN Goto(r, "insert") ELSE Done(r)
  /\ UNCHANGED <<now, owner, session, bucket, reset, refused, ended>>

\* insertSessionTx of a rotation, and the commit: same version, same absolute
\* deadline.  tsw_owner_sessions_expiry_ck refuses a session that is over.
InsertRotated(r, s) ==
  LET own == request[r].session IN
  /\ At(r, "insert")
  /\ ~reset
  /\ session[s].status = "none"
  /\ request[r].absolute > request[r].start
  /\ session' = [Revoked(session, {own, request[r].target}) EXCEPT ![s] =
       [session[own] EXCEPT !.status = "open", !.version = request[r].version,
          !.idle = Least(request[r].start + IdleTime, request[r].absolute),
          !.absolute = request[r].absolute]]
  /\ ended' = ended \cup {session[request[r].target].login}
  /\ Done(r)
  /\ UNCHANGED <<now, owner, bucket, reset, refused>>

\* Any error, a closed connection, a deadlock: the transaction is rolled back.
Abort(r) ==
  /\ ~At(r, "idle")
  /\ Done(r)
  /\ UNCHANGED <<now, owner, session, bucket, reset, refused, ended>>

-----------------------------------------------------------------------------
(* The host and the clock *)

\* owner-create: tsw_owners_singleton_uq allows one.
CreateOwner(p) ==
  /\ owner.version = 0
  /\ owner' = [version |-> 1, password |-> p]
  /\ UNCHANGED <<now, session, bucket, request, reset, refused, ended>>

\* owner-reset locks the Owner first.
LockOwner ==
  /\ ~reset /\ owner.version \in 1 .. MaxVersion - 1
  /\ reset' = TRUE
  /\ UNCHANGED <<now, owner, session, bucket, request, refused, ended>>

\* The rest of resetOwner: it waits for the rows of the sessions it revokes.
ResetOwner(p) ==
  LET open == {s \in Sessions : session[s].status = "open"} IN
  /\ reset
  /\ \A s \in open : Free(s)
  /\ owner' = [version |-> owner.version + 1, password |-> p]
  /\ session' = Revoked(session, open)
  /\ ended' = ended \cup {session[s].login : s \in open}
  /\ reset' = FALSE
  /\ UNCHANGED <<now, bucket, request, refused>>

\* A deadlock with a rotation that has its rows and waits for the Owner.
ResetAborts == reset /\ reset' = FALSE /\ UNCHANGED <<now, owner, session, bucket, request, refused, ended>>

Tick ==
  /\ now < MaxTime
  /\ now' = now + 1
  /\ UNCHANGED <<owner, session, bucket, request, reset, refused, ended>>

-----------------------------------------------------------------------------
LoginStep(r) ==
  \/ LoginOwner(r) \/ LockRateSubjects(r) \/ VerifyPassword(r)
  \/ AuthenticationFailed(r) \/ \E s \in Sessions : OpenSession(r, s)

SessionStep(r) ==
  \/ \E s, t \in Sessions : ReadSession(r, s, t)
  \/ RevokeOwn(r) \/ RevokeTarget(r) \/ RotateOwn(r)
  \/ \E s \in Sessions : InsertRotated(r, s)

Host ==
  \/ \E p \in Passwords : CreateOwner(p) \/ ResetOwner(p)
  \/ LockOwner \/ ResetAborts

Next ==
  \/ \E r \in Requests : LoginStep(r) \/ SessionStep(r) \/ Abort(r)
  \/ \E s \in Sessions : RefreshOwnerSession(s)
  \/ Host \/ Tick

Spec == Init /\ [][Next]_vars

-----------------------------------------------------------------------------
(* Properties *)

\* After a reset nothing that an earlier password opened can be used, whichever
\* login or rotation was under way (resetOwner, auth_version in session()).
ResetEndsAccess ==
  \A s \in Sessions : Usable(s) => session[s].verified = owner.version

\* A login has one open session at most, through rotations that race with each
\* other and with their own revocation; none once it was ended, and none that is
\* usable beyond its lifetime, however often it was rotated and refreshed
\* (rotateSessionTx, insertSessionTx).
LoginsEnd ==
  /\ \A s, t \in Sessions :
       /\ session[s].status = "open" /\ session[t].status = "open"
       /\ session[s].login = session[t].login
       => s = t
  /\ \A s \in Sessions :
       /\ session[s].status = "open" => session[s].login \notin ended
       /\ Usable(s) => now < session[s].began + Lifetime

\* A subject is given no more than Limit failed answers in a window, whatever
\* number of requests guess at the same time (lockRateSubjects).
GuessesBounded == \A x \in Subjects, w \in Windows : refused[x][w] <= Limit
=============================================================================
