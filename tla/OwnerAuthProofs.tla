--------------------------- MODULE OwnerAuthProofs ---------------------------
(***************************************************************************)
(* Proofs about OwnerAuth, for any number of addresses, passwords,         *)
(* sessions and concurrent requests and any limits that satisfy the        *)
(* assumptions.                                                            *)
(*                                                                         *)
(* The argument: a request that revokes holds the rows it has updated      *)
(* (RowsHeld, RowsApart), and the session it was made with exists under    *)
(* the version it read (HasSession); a row keeps the version its login was *)
(* verified with, and an open one its absolute deadline (RowsSound).  A    *)
(* full bucket is blocked beyond its window (FullIsBlocked), and a request *)
(* that passed the limit owns its buckets (BucketsHeld).                   *)
(***************************************************************************)
EXTENDS OwnerAuth, TLAPS

\* A request began in the past.
Started == \A r \in Requests : request[r].start <= now

Revoking == {"revoke", "rotate", "insert"}

\* The session of a revocation exists as it was read.
HasSession(r) ==
  LET own == request[r].session IN
  request[r].pc \in Revoking =>
    /\ own \in Sessions /\ request[r].target \in Sessions
    /\ session[own].status # "none"
    /\ session[own].version = request[r].version
    /\ session[own].status = "open" => session[own].absolute = request[r].absolute

\* What a revocation has updated stays as it found it.
RowsHeld(r) ==
  /\ request[r].pc \in {"rotate", "insert"} =>
       request[r].target # request[r].session /\ session[request[r].target].status = "open"
  /\ request[r].pc = "insert" => session[request[r].session].status = "open"

RowsApart(r, q) == q # r => RowsOf(q) \cap RowsOf(r) = {}

RequestsSound ==
  /\ \A r \in Requests : HasSession(r) /\ RowsHeld(r)
  /\ \A r, q \in Requests : RowsApart(r, q)

RowSound(s) ==
  /\ session[s].status # "none" =>
       /\ session[s].verified = session[s].version
       /\ session[s].login \in Sessions /\ session[session[s].login].status # "none"
  /\ session[s].status = "open" => session[s].absolute = session[s].began + Lifetime

RowsSound ==
  /\ \A s \in Sessions : RowSound(s)
  /\ \A s \in ended : session[s].status # "none"

OneOpen ==
  /\ \A s, t \in Sessions :
       /\ session[s].status = "open" /\ session[t].status = "open"
       /\ session[s].login = session[t].login
       => s = t
  /\ \A s \in Sessions : session[s].status = "open" => session[s].login \notin ended

\* A bucket that is full refuses whoever starts in its window.
FullIsBlocked ==
  \A x \in Subjects, w \in Windows, t \in Times :
    bucket[x][w].count = Limit /\ t \div Window = w => t < bucket[x][w].blocked

PastLimit == {"verify", "refuse", "open"}

\* Whoever passed the limit found room, and nobody else charges meanwhile.
BucketsHeld ==
  \A r \in Requests : request[r].pc \in PastLimit =>
    /\ \A x \in SubjectsOf(r) : bucket[x][WindowOf(r)].count < Limit
    /\ \A q \in Requests \ {r} : request[q].pc \in PastLimit =>
         Buckets(q) \cap Buckets(r) = {}

\* A failed answer is counted.
RefusedCounted ==
  \A x \in Subjects, w \in Windows : refused[x][w] <= bucket[x][w].count

IInv ==
  /\ TypeOK
  /\ Started
  /\ RequestsSound
  /\ RowsSound
  /\ OneOpen
  /\ FullIsBlocked
  /\ BucketsHeld
  /\ RefusedCounted

-----------------------------------------------------------------------------
(* Types *)

LEMMA IdleType ==
  ASSUME TypeOK
  PROVE  /\ Idle \in Request /\ Idle.pc = "idle" /\ Idle.start = 0
         /\ NoRow \in SessionRow
<1>1. owner.password \in Passwords
  BY DEF TypeOK
<1>2. (CHOOSE p \in Passwords : TRUE) \in Passwords
  BY <1>1
<1>3. Idle \in Request /\ Idle.pc = "idle" /\ Idle.start = 0
  BY <1>2, NamesAssumption DEF Idle, Request
<1> QED BY <1>3, NoSessionAssumption DEF NoRow, SessionRow

\* A table with a row replaced is a table.
LEMMA Replaced ==
  ASSUME NEW D, NEW R, NEW f \in [D -> R], NEW x, NEW v, x \in D => v \in R
  PROVE  [f EXCEPT ![x] = v] \in [D -> R]
OBVIOUS

LEMMA LeastType == \A a, b \in Nat : Least(a, b) \in Nat /\ Least(a, b) <= a
BY DEF Least

\* Going on, and ending, are steps between requests.
LEMMA GotoType ==
  ASSUME TypeOK, NEW r \in Requests,
         \/ Done(r)
         \/ \E pc \in {"verify", "insert"} : Goto(r, pc)
  PROVE  request' \in [Requests -> Request]
<1>1. request[r] \in Request /\ request \in [Requests -> Request]
  BY DEF TypeOK
<1>2. CASE Done(r)
  BY <1>1, <1>2, IdleType DEF Done
<1>3. ASSUME NEW pc \in {"verify", "insert"}, Goto(r, pc)
      PROVE  request' \in [Requests -> Request]
  <2>1. [request[r] EXCEPT !.pc = pc] \in Request
    BY <1>1 DEF Request
  <2>2. request' = [request EXCEPT ![r] = [request[r] EXCEPT !.pc = pc]]
    BY <1>3 DEF Goto
  <2> QED BY <1>1, <2>1, <2>2
<1> QED BY <1>2, <1>3

LEMMA RevokedType ==
  ASSUME NEW rows \in [Sessions -> SessionRow], NEW ids
  PROVE  /\ Revoked(rows, ids) \in [Sessions -> SessionRow]
         /\ \A s \in Sessions \ ids : Revoked(rows, ids)[s] = rows[s]
         /\ \A s \in Sessions : s \in ids =>
              /\ Revoked(rows, ids)[s].status = "revoked"
              /\ Revoked(rows, ids)[s].login = rows[s].login
              /\ Revoked(rows, ids)[s].version = rows[s].version
              /\ Revoked(rows, ids)[s].verified = rows[s].verified
<1>1. \A s \in Sessions : rows[s] \in SessionRow
  OBVIOUS
<1>2. \A row \in SessionRow :
        /\ [row EXCEPT !.status = "revoked", !.idle = 0, !.absolute = 0] \in SessionRow
        /\ [row EXCEPT !.status = "revoked", !.idle = 0, !.absolute = 0].status = "revoked"
        /\ [row EXCEPT !.status = "revoked", !.idle = 0, !.absolute = 0].login = row.login
        /\ [row EXCEPT !.status = "revoked", !.idle = 0, !.absolute = 0].version = row.version
        /\ [row EXCEPT !.status = "revoked", !.idle = 0, !.absolute = 0].verified = row.verified
  BY DEF SessionRow
<1> QED BY <1>1, <1>2 DEF Revoked

LEMMA LoginTypes ==
  ASSUME TypeOK, NEW r \in Requests, LoginStep(r)
  PROVE  TypeOK'
<1>0. request[r] \in Request /\ request \in [Requests -> Request]
  BY DEF TypeOK
<1>1. CASE LoginOwner(r)
  <2>1. PICK n \in Names, a \in Addresses, p \in Passwords :
          request' = [request EXCEPT ![r] =
            [Idle EXCEPT !.pc = "limit", !.name = n, !.address = a, !.password = p,
                         !.start = now]]
    BY <1>1 DEF LoginOwner
  <2>2. now \in Nat
    BY TimesAssumption DEF TypeOK, Times
  <2>3. [Idle EXCEPT !.pc = "limit", !.name = n, !.address = a, !.password = p,
                     !.start = now] \in Request
    BY <2>2, IdleType DEF Request
  <2> QED BY <1>0, <1>1, <2>1, <2>3 DEF LoginOwner, TypeOK
<1>2. CASE LockRateSubjects(r)
  <2>1. request' \in [Requests -> Request]
    BY <1>2, GotoType DEF LockRateSubjects
  <2> QED BY <1>2, <2>1 DEF LockRateSubjects, TypeOK
<1>3. CASE VerifyPassword(r)
  <2>1. PICK pc \in {"open", "refuse"} :
          request' = [request EXCEPT ![r].pc = pc, ![r].version = owner.version,
                                     ![r].password = Idle.password]
    BY <1>3 DEF VerifyPassword
  <2>2. request' = [request EXCEPT ![r] = [request[r] EXCEPT !.pc = pc,
                      !.version = owner.version, !.password = Idle.password]]
    BY <1>0, <2>1 DEF Request
  <2>3. owner.version \in Nat /\ Idle.password \in Passwords
    BY IdleType DEF TypeOK, Request
  <2>4. [request[r] EXCEPT !.pc = pc, !.version = owner.version,
                           !.password = Idle.password] \in Request
    <3> DEFINE moved == [request[r] EXCEPT !.pc = pc]
               bound == [moved EXCEPT !.version = owner.version]
               row == [bound EXCEPT !.password = Idle.password]
    <3>1. request[r] \in Request
      BY <1>0
    <3>2. moved \in Request
      BY <3>1 DEF Request
    <3> HIDE DEF moved
    <3>3. bound \in Request
      BY <2>3, <3>2 DEF Request
    <3> HIDE DEF bound
    <3>4. row \in Request
      BY <2>3, <3>3 DEF Request
    <3> USE DEF moved, bound
    <3>5. row = [request[r] EXCEPT !.pc = pc, !.version = owner.version,
                                   !.password = Idle.password]
      BY <3>1 DEF Request
    <3> QED BY <3>4, <3>5
  <2> DEFINE row == [request[r] EXCEPT !.pc = pc, !.version = owner.version,
                                       !.password = Idle.password]
  <2>5. request' \in [Requests -> Request]
    <3> HIDE DEF row
    <3> QED BY <1>0, <2>2, <2>4
  <2> QED BY <1>3, <2>5 DEF VerifyPassword, TypeOK
<1>4. CASE AuthenticationFailed(r)
  <2>1. request' \in [Requests -> Request]
    BY <1>4, GotoType DEF AuthenticationFailed
  <2>2. \A b \in Bucket : Charged(b, request[r].start) \in Bucket
    BY <1>0, LimitAssumption, TimesAssumption DEF Charged, Bucket, Least, Request
  <2> DEFINE w == WindowOf(r)
  <2>3. bucket' \in [Subjects -> [Windows -> Bucket]]
    <3>1. \A x \in Subjects :
            [bucket[x] EXCEPT ![w] = Charged(@, request[r].start)] \in [Windows -> Bucket]
      <4> HIDE DEF w
      <4>1. \A x \in Subjects : bucket[x] \in [Windows -> Bucket]
        BY DEF TypeOK
      <4> QED BY <2>2, <4>1
    <3>2. \A x \in Subjects : bucket[x] \in [Windows -> Bucket]
      BY DEF TypeOK
    <3> QED BY <1>4, <3>1, <3>2 DEF AuthenticationFailed
  <2>4. refused' \in [Subjects -> [Windows -> Nat]]
    <3>1. \A x \in Subjects : refused[x] \in [Windows -> Nat]
      BY DEF TypeOK
    <3>2. \A x \in Subjects : [refused[x] EXCEPT ![w] = @ + 1] \in [Windows -> Nat]
      <4> HIDE DEF w
      <4> SUFFICES ASSUME NEW x \in Subjects
                   PROVE  [refused[x] EXCEPT ![w] = @ + 1] \in [Windows -> Nat]
        OBVIOUS
      <4>1. w \in Windows => refused[x][w] + 1 \in Nat
        BY <3>1
      <4> QED BY <3>1, <4>1, Replaced
    <3> QED BY <1>4, <3>1, <3>2 DEF AuthenticationFailed
  <2> QED BY <1>4, <2>1, <2>3, <2>4 DEF AuthenticationFailed, TypeOK
<1>5. ASSUME NEW s \in Sessions, OpenSession(r, s)
      PROVE  TypeOK'
  <2>1. request' \in [Requests -> Request]
    BY <1>5, GotoType DEF OpenSession
  <2> DEFINE row == [status |-> "open", login |-> s, version |-> VersionRead(r),
                     verified |-> request[r].version, began |-> request[r].start,
                     idle |-> request[r].start + Least(IdleTime, Lifetime),
                     absolute |-> request[r].start + Lifetime]
  <2>2. request[r].version \in Nat /\ request[r].start \in Nat
    BY <1>0 DEF Request
  <2>3. Least(IdleTime, Lifetime) \in Nat /\ Lifetime \in Nat
    BY LeastType, TimesAssumption
  <2>4. row \in SessionRow
    BY <2>2, <2>3 DEF SessionRow, VersionRead
  <2>5. session' = [session EXCEPT ![s] = row]
    BY <1>5 DEF OpenSession
  <2> HIDE DEF row
  <2> QED BY <1>5, <2>1, <2>4, <2>5 DEF OpenSession, TypeOK
<1> QED BY <1>1, <1>2, <1>3, <1>4, <1>5 DEF LoginStep

LEMMA SessionTypes ==
  ASSUME TypeOK, Started, RequestsSound, RowsSound, NEW r \in Requests, SessionStep(r)
  PROVE  TypeOK'
<1>0. /\ request[r] \in Request /\ request \in [Requests -> Request]
      /\ session \in [Sessions -> SessionRow] /\ now \in Nat
  BY TimesAssumption DEF TypeOK, Times
<1>1. ASSUME NEW s \in Sessions, NEW t \in Sessions, ReadSession(r, s, t)
      PROVE  TypeOK'
  <2>1. session[s].version \in Nat /\ session[s].absolute \in Nat
    BY <1>0 DEF SessionRow
  <2> DEFINE row == [Idle EXCEPT !.pc = "revoke", !.session = s, !.target = t,
                      !.version = session[s].version, !.absolute = session[s].absolute,
                      !.start = now]
  <2>2. row \in Request
    BY <1>0, <2>1, IdleType DEF Request
  <2>3. request' = [request EXCEPT ![r] = row]
    BY <1>1 DEF ReadSession
  <2> HIDE DEF row
  <2> QED BY <1>0, <1>1, <2>2, <2>3 DEF ReadSession, TypeOK
<1>2. CASE RevokeOwn(r)
  <2>1. request' \in [Requests -> Request]
    BY <1>2, GotoType DEF RevokeOwn
  <2>2. request[r].session \in Sessions /\ session[request[r].session].status # "none"
    BY <1>2 DEF RevokeOwn, At, RequestsSound, HasSession, Revoking
  <2>3. session[request[r].session].login \in Sessions
    BY <2>2 DEF RowsSound, RowSound
  <2> QED BY <1>0, <1>2, <2>1, <2>3, RevokedType DEF RevokeOwn, TypeOK
<1>3. CASE RevokeTarget(r)
  <2>1. CASE Done(r)
    <3>1. request' \in [Requests -> Request]
      BY <2>1, GotoType
    <3> QED BY <1>3, <3>1 DEF RevokeTarget, TypeOK
  <2>2. CASE \E begin \in request[r].start .. now :
               request' = [request EXCEPT ![r].pc = "rotate", ![r].start = begin]
    <3>1. PICK begin \in request[r].start .. now :
            request' = [request EXCEPT ![r].pc = "rotate", ![r].start = begin]
      BY <2>2
    <3>2. begin \in Nat
      BY <1>0 DEF Request
    <3>3. [request[r] EXCEPT !.pc = "rotate", !.start = begin] \in Request
      BY <1>0, <3>2 DEF Request
    <3>4. request' = [request EXCEPT ![r] =
                        [request[r] EXCEPT !.pc = "rotate", !.start = begin]]
      BY <1>0, <3>1 DEF Request
    <3> QED BY <1>0, <1>3, <3>3, <3>4 DEF RevokeTarget, TypeOK
  <2> QED BY <1>3, <2>1, <2>2 DEF RevokeTarget
<1>4. CASE RotateOwn(r)
  <2>1. request' \in [Requests -> Request]
    BY <1>4, GotoType DEF RotateOwn
  <2> QED BY <1>4, <2>1 DEF RotateOwn, TypeOK
<1>5. ASSUME NEW s \in Sessions, InsertRotated(r, s)
      PROVE  TypeOK'
  <2> DEFINE own == request[r].session
             target == request[r].target
             row == [session[own] EXCEPT !.status = "open", !.version = request[r].version,
                       !.idle = Least(request[r].start + IdleTime, request[r].absolute),
                       !.absolute = request[r].absolute]
  <2>1. own \in Sessions /\ target \in Sessions /\ session[target].status = "open"
    BY <1>5 DEF InsertRotated, At, RequestsSound, HasSession, RowsHeld, Revoking
  <2>2. session[target].login \in Sessions
    BY <2>1 DEF RowsSound, RowSound
  <2>3. request[r].start + IdleTime \in Nat /\ request[r].absolute \in Nat
        /\ request[r].version \in Nat
    BY <1>0, TimesAssumption DEF Request
  <2>4. Least(request[r].start + IdleTime, request[r].absolute) \in Nat
    BY <2>3, LeastType
  <2>5. row \in SessionRow
    <3> DEFINE idle == Least(request[r].start + IdleTime, request[r].absolute)
               base == session[own]
    <3>1. base \in SessionRow
      BY <1>0, <2>1
    <3>2. idle \in Nat
      BY <2>4
    <3> HIDE DEF idle, base
    <3>3. [base EXCEPT !.status = "open", !.version = request[r].version,
                       !.idle = idle, !.absolute = request[r].absolute] \in SessionRow
      BY <2>3, <3>1, <3>2 DEF SessionRow
    <3> QED BY <3>3 DEF idle, base
  <2>6. session' = [Revoked(session, {own, target}) EXCEPT ![s] = row]
        /\ ended' = ended \cup {session[target].login}
    BY <1>5 DEF InsertRotated
  <2>7. Revoked(session, {own, target}) \in [Sessions -> SessionRow]
    BY <1>0, RevokedType
  <2>8. request' \in [Requests -> Request]
    BY <1>5, GotoType DEF InsertRotated
  <2> HIDE DEF row, own, target
  <2>9. session' \in [Sessions -> SessionRow]
    BY <2>5, <2>6, <2>7
  <2>10. ended' \subseteq Sessions
    BY <2>2, <2>6 DEF TypeOK
  <2> QED BY <1>5, <2>8, <2>9, <2>10 DEF InsertRotated, TypeOK
<1> QED BY <1>1, <1>2, <1>3, <1>4, <1>5 DEF SessionStep

LEMMA NextTypes ==
  ASSUME TypeOK, Started, RequestsSound, RowsSound, [Next]_vars
  PROVE  TypeOK'
<1>1. CASE UNCHANGED vars
  BY <1>1 DEF TypeOK, vars
<1>2. ASSUME NEW r \in Requests, LoginStep(r) \/ SessionStep(r) \/ Abort(r)
      PROVE  TypeOK'
  <2>1. CASE Abort(r)
    <3>1. request' \in [Requests -> Request]
      BY <2>1, GotoType DEF Abort
    <3> QED BY <2>1, <3>1 DEF Abort, TypeOK
  <2> QED BY <1>2, <2>1, LoginTypes, SessionTypes
<1>3. ASSUME NEW s \in Sessions, RefreshOwnerSession(s)
      PROVE  TypeOK'
  <2> DEFINE idle == Least(now + IdleTime, session[s].absolute)
  <2>1. session[s] \in SessionRow /\ now + IdleTime \in Nat /\ session[s].absolute \in Nat
    BY TimesAssumption DEF TypeOK, Times, SessionRow
  <2>2. idle \in Nat
    BY <2>1, LeastType
  <2>3. session' = [session EXCEPT ![s] = [session[s] EXCEPT !.idle = idle]]
    BY <1>3 DEF RefreshOwnerSession
  <2> HIDE DEF idle
  <2>4. [session[s] EXCEPT !.idle = idle] \in SessionRow
    BY <2>1, <2>2 DEF SessionRow
  <2> QED BY <1>3, <2>3, <2>4 DEF RefreshOwnerSession, TypeOK
<1>4. CASE Host
  <2>1. CASE \E p \in Passwords : CreateOwner(p)
    BY <2>1 DEF CreateOwner, TypeOK
  <2>2. ASSUME NEW p \in Passwords, ResetOwner(p)
        PROVE  TypeOK'
    <3> DEFINE open == {s \in Sessions : session[s].status = "open"}
    <3>1. \A s \in open : session[s].login \in Sessions
      BY DEF RowsSound, RowSound
    <3>2. session' = Revoked(session, open) /\ ended' = ended \cup {session[s].login : s \in open}
      BY <2>2 DEF ResetOwner
    <3> HIDE DEF open
    <3>3. session' \in [Sessions -> SessionRow] /\ ended' \subseteq Sessions
      BY <3>1, <3>2, RevokedType DEF TypeOK
    <3>4. owner' = [version |-> owner.version + 1, password |-> p] /\ owner.version + 1 \in Nat
      BY <2>2 DEF ResetOwner, TypeOK
    <3>5. owner' \in [version : Nat, password : Passwords]
      BY <3>4
    <3> QED BY <2>2, <3>3, <3>5 DEF ResetOwner, TypeOK
  <2>3. CASE LockOwner
    BY <2>3 DEF LockOwner, TypeOK
  <2>4. CASE ResetAborts
    BY <2>4 DEF ResetAborts, TypeOK
  <2> QED BY <1>4, <2>1, <2>2, <2>3, <2>4 DEF Host
<1>5. CASE Tick
  BY <1>5, TimesAssumption DEF Tick, TypeOK, Times
<1> QED BY <1>1, <1>2, <1>3, <1>4, <1>5 DEF Next

-----------------------------------------------------------------------------
(* Rows and the requests that hold them *)

LEMMA RowsOfFacts ==
  ASSUME NEW r \in Requests
  PROVE  /\ request[r].pc = "rotate" => RowsOf(r) = {request[r].target}
         /\ request[r].pc = "insert" => RowsOf(r) = {request[r].target, request[r].session}
         /\ request[r].pc \notin {"rotate", "insert"} => RowsOf(r) = {}
BY DEF RowsOf, At

LEMMA NextRowsOfFacts ==
  ASSUME NEW r \in Requests
  PROVE  /\ request'[r].pc = "rotate" => RowsOf(r)' = {request'[r].target}
         /\ request'[r].pc = "insert" => RowsOf(r)' = {request'[r].target, request'[r].session}
         /\ request'[r].pc \notin {"rotate", "insert"} => RowsOf(r)' = {}
         /\ request'[r] = request[r] => RowsOf(r)' = RowsOf(r)
BY DEF RowsOf, At

\* A request that holds no row is no obstacle.
LEMMA QuietApart ==
  ASSUME NEW r \in Requests, request'[r].pc \notin {"rotate", "insert"}, RequestsSound,
         \A q \in Requests \ {r} : request'[q] = request[q]
  PROVE  \A p, q \in Requests : RowsApart(p, q)'
<1>1. RowsOf(r)' = {}
  BY NextRowsOfFacts
<1>2. \A q \in Requests \ {r} : RowsOf(q)' = RowsOf(q)
  BY NextRowsOfFacts
<1> QED BY <1>1, <1>2 DEF RequestsSound, RowsApart

Sound == RequestsSound /\ RowsSound /\ OneOpen

\* A step of a request that is not a revocation, sessions unchanged.
LEMMA QuietStep ==
  ASSUME Sound, NEW r \in Requests, request'[r].pc \notin Revoking,
         session' = session, ended' = ended,
         \A q \in Requests \ {r} : request'[q] = request[q]
  PROVE  Sound'
<1>1. \A p, q \in Requests : RowsApart(p, q)'
  BY QuietApart DEF Sound, Revoking
<1>2. ASSUME NEW q \in Requests PROVE (HasSession(q) /\ RowsHeld(q))'
  BY DEF Sound, RequestsSound, HasSession, RowsHeld, Revoking
<1>3. RowsSound' /\ OneOpen'
  BY DEF Sound, RowsSound, RowSound, OneOpen
<1> QED BY <1>1, <1>2, <1>3 DEF Sound, RequestsSound

LEMMA NothingStep ==
  ASSUME Sound, session' = session, ended' = ended, request' = request
  PROVE  Sound'
BY DEF Sound, RequestsSound, RowsSound, RowSound, OneOpen, HasSession, RowsHeld, RowsApart,
       RowsOf, At

\* Rows that nobody holds are revoked, and their logins end.
LEMMA RevokeStep ==
  ASSUME TypeOK, Sound, NEW ids \in SUBSET Sessions,
         \A s \in ids : session[s].status = "open" /\ Free(s),
         session' = Revoked(session, ids),
         ended' = ended \cup {session[s].login : s \in ids},
         \A q \in Requests : request'[q] = request[q] \/ request'[q].pc \notin Revoking
  PROVE  Sound'
<1>0. /\ session \in [Sessions -> SessionRow]
      /\ \A s \in Sessions \ ids : session'[s] = session[s]
      /\ \A s \in ids : /\ session'[s].status = "revoked"
                        /\ session'[s].login = session[s].login
                        /\ session'[s].version = session[s].version
                        /\ session'[s].verified = session[s].verified
  <2>1. session \in [Sessions -> SessionRow]
    BY DEF TypeOK
  <2> QED BY <2>1, RevokedType
<1>1. \A s \in Sessions : session'[s].status = "open" => s \notin ids
  BY <1>0
<1>2. \A s \in Sessions : session[s].status # "none" <=> session'[s].status # "none"
  BY <1>0
<1>3. ASSUME NEW q \in Requests PROVE (HasSession(q) /\ RowsHeld(q))'
  <2>1. CASE request'[q].pc \notin Revoking
    BY <2>1 DEF HasSession, RowsHeld, Revoking
  <2>2. CASE request'[q] = request[q]
    <3>1. HasSession(q) /\ RowsHeld(q)
      BY DEF Sound, RequestsSound
    <3>2. RowsOf(q) \cap ids = {}
      BY DEF Free
    <3>3. HasSession(q)'
      BY <1>0, <1>2, <2>2, <3>1 DEF HasSession
    <3>4. RowsHeld(q)'
      <4>1. request[q].pc \in {"rotate", "insert"} =>
              request[q].target \in Sessions /\ request[q].session \in Sessions
        BY <3>1 DEF HasSession, Revoking
      <4>2. request[q].pc \in {"rotate", "insert"} => request[q].target \notin ids
        BY <3>2, RowsOfFacts
      <4>3. request[q].pc = "insert" => request[q].session \notin ids
        BY <3>2, RowsOfFacts
      <4> QED BY <1>0, <2>2, <3>1, <4>1, <4>2, <4>3 DEF RowsHeld
    <3> QED BY <3>3, <3>4
  <2> QED BY <2>1, <2>2
<1>4. ASSUME NEW p \in Requests, NEW q \in Requests PROVE RowsApart(p, q)'
  <2>1. \A o \in Requests : RowsOf(o)' \subseteq RowsOf(o)
    BY NextRowsOfFacts DEF Revoking
  <2> QED BY <2>1 DEF Sound, RequestsSound, RowsApart
<1>5. RowsSound'
  <2>1. ASSUME NEW s \in Sessions PROVE RowSound(s)'
    <3>1. RowSound(s)
      BY DEF Sound, RowsSound
    <3> QED BY <1>0, <1>2, <3>1 DEF RowSound
  <2>2. \A s \in ended' : session'[s].status # "none"
    <3>1. \A s \in ids : session[s].login \in Sessions
                         /\ session[session[s].login].status # "none"
      BY DEF Sound, RowsSound, RowSound
    <3>2. \A s \in ended : s \in Sessions /\ session[s].status # "none"
      BY DEF Sound, RowsSound, TypeOK
    <3> QED BY <1>2, <3>1, <3>2
  <2> QED BY <2>1, <2>2 DEF RowsSound
<1>6. OneOpen'
  <2>1. \A s \in Sessions : session'[s].status = "open" => session'[s] = session[s]
    BY <1>0, <1>1
  <2>2. ASSUME NEW s \in Sessions, session'[s].status = "open"
        PROVE  session'[s].login \notin ended'
    <3>1. session[s].login \notin ended
      BY <2>1, <2>2 DEF Sound, OneOpen
    <3>2. \A t \in ids : session[t].login # session[s].login
      BY <1>1, <2>1, <2>2 DEF Sound, OneOpen
    <3> QED BY <2>1, <2>2, <3>1, <3>2
  <2>3. \A s, t \in Sessions :
          /\ session'[s].status = "open" /\ session'[t].status = "open"
          /\ session'[s].login = session'[t].login
          => s = t
    BY <2>1 DEF Sound, OneOpen
  <2> QED BY <2>2, <2>3 DEF OneOpen
<1> QED BY <1>3, <1>4, <1>5, <1>6 DEF Sound, RequestsSound

LEMMA LoginSound ==
  ASSUME TypeOK, Sound, NEW r \in Requests, LoginStep(r)
  PROVE  Sound'
<1>0. /\ request[r] \in Request /\ request \in [Requests -> Request]
      /\ session \in [Sessions -> SessionRow]
  BY DEF TypeOK
<1>1. CASE LoginOwner(r)
  <2>1. request'[r].pc = "limit" /\ \A q \in Requests \ {r} : request'[q] = request[q]
    BY <1>0, <1>1, IdleType DEF LoginOwner, Request
  <2>2. request'[r].pc \notin Revoking
    BY <2>1 DEF Revoking
  <2> QED BY <1>1, <2>1, <2>2, QuietStep DEF LoginOwner
<1>2. CASE LockRateSubjects(r)
  <2>1. request'[r].pc \in {"idle", "verify"}
        /\ \A q \in Requests \ {r} : request'[q] = request[q]
    BY <1>0, <1>2, IdleType DEF LockRateSubjects, Goto, Done, Request
  <2>2. request'[r].pc \notin Revoking
    BY <2>1 DEF Revoking
  <2> QED BY <1>2, <2>1, <2>2, QuietStep DEF LockRateSubjects
<1>3. CASE VerifyPassword(r)
  <2>1. request'[r].pc \in {"open", "refuse"}
        /\ \A q \in Requests \ {r} : request'[q] = request[q]
    BY <1>0, <1>3 DEF VerifyPassword, Request
  <2>2. request'[r].pc \notin Revoking
    BY <2>1 DEF Revoking
  <2> QED BY <1>3, <2>1, <2>2, QuietStep DEF VerifyPassword
<1>4. CASE AuthenticationFailed(r)
  <2>1. request'[r].pc = "idle" /\ \A q \in Requests \ {r} : request'[q] = request[q]
    BY <1>0, <1>4, IdleType DEF AuthenticationFailed, Done
  <2>2. request'[r].pc \notin Revoking
    BY <2>1 DEF Revoking
  <2> QED BY <1>4, <2>1, <2>2, QuietStep DEF AuthenticationFailed
<1>5. ASSUME NEW s \in Sessions, OpenSession(r, s)
      PROVE  Sound'
  <2>1. request'[r].pc = "idle" /\ \A q \in Requests \ {r} : request'[q] = request[q]
    BY <1>0, <1>5, IdleType DEF OpenSession, Done
  <2>2. session[s].status = "none" /\ ended' = ended
    BY <1>5 DEF OpenSession
  <2>3. /\ session'[s].status = "open" /\ session'[s].login = s
        /\ session'[s].verified = session'[s].version
        /\ session'[s].absolute = session'[s].began + Lifetime
        /\ \A t \in Sessions \ {s} : session'[t] = session[t]
    BY <1>0, <1>5 DEF OpenSession, VersionRead
  <2>4. \A p, q \in Requests : RowsApart(p, q)'
    BY <2>1, QuietApart DEF Sound
  <2>5. ASSUME NEW q \in Requests PROVE (HasSession(q) /\ RowsHeld(q))'
    <3>1. CASE q = r
      BY <2>1, <3>1 DEF HasSession, RowsHeld, Revoking
    <3>2. CASE q # r
      <4>1. HasSession(q) /\ RowsHeld(q) /\ request'[q] = request[q]
        BY <2>1, <3>2 DEF Sound, RequestsSound
      <4>2. HasSession(q)'
        BY <2>2, <2>3, <4>1 DEF HasSession
      <4>3. request[q].pc \in {"rotate", "insert"} =>
              request[q].target \in Sessions /\ request[q].session \in Sessions
        BY <4>1 DEF HasSession, Revoking
      <4>4. RowsHeld(q)'
        BY <2>2, <2>3, <4>1, <4>3 DEF RowsHeld
      <4> QED BY <4>2, <4>4
    <3> QED BY <3>1, <3>2
  <2>6. RowsSound'
    <3>1. ASSUME NEW t \in Sessions PROVE RowSound(t)'
      BY <2>2, <2>3 DEF Sound, RowsSound, RowSound
    <3>2. \A t \in ended' : session'[t].status # "none"
      BY <2>2, <2>3 DEF Sound, RowsSound, TypeOK
    <3> QED BY <3>1, <3>2 DEF RowsSound
  <2>7. OneOpen'
    <3>1. \A t \in Sessions \ {s} : session[t].status = "open" => session[t].login # s
      BY <2>2 DEF Sound, RowsSound, RowSound
    <3>2. s \notin ended
      BY <2>2 DEF Sound, RowsSound
    <3> QED BY <2>2, <2>3, <3>1, <3>2 DEF Sound, OneOpen
  <2> QED BY <2>4, <2>5, <2>6, <2>7 DEF Sound, RequestsSound
<1> QED BY <1>1, <1>2, <1>3, <1>4, <1>5 DEF LoginStep

LEMMA SessionSound ==
  ASSUME TypeOK, Sound, NEW r \in Requests, SessionStep(r)
  PROVE  Sound'
<1>0. /\ request[r] \in Request /\ request \in [Requests -> Request]
      /\ session \in [Sessions -> SessionRow]
      /\ HasSession(r) /\ RowsHeld(r)
  BY DEF TypeOK, Sound, RequestsSound
<1> DEFINE own == request[r].session
           target == request[r].target
<1>1. ASSUME NEW s \in Sessions, NEW t \in Sessions, ReadSession(r, s, t)
      PROVE  Sound'
  <2>1. /\ request'[r].pc = "revoke" /\ request'[r].session = s /\ request'[r].target = t
        /\ request'[r].version = session[s].version
        /\ request'[r].absolute = session[s].absolute
        /\ \A q \in Requests \ {r} : request'[q] = request[q]
    BY <1>0, <1>1, IdleType DEF ReadSession, Request
  <2>2. session[s].status = "open" /\ session' = session /\ ended' = ended
    BY <1>1 DEF ReadSession, Usable
  <2>3. \A p, q \in Requests : RowsApart(p, q)'
    BY <2>1, QuietApart DEF Sound
  <2>4. ASSUME NEW q \in Requests PROVE (HasSession(q) /\ RowsHeld(q))'
    <3>1. CASE q = r
      BY <2>1, <2>2, <3>1 DEF HasSession, RowsHeld
    <3>2. CASE q # r
      BY <2>1, <2>2, <3>2 DEF HasSession, RowsHeld, Sound, RequestsSound
    <3> QED BY <3>1, <3>2
  <2>5. RowsSound' /\ OneOpen'
    BY <2>2 DEF Sound, RowsSound, RowSound, OneOpen
  <2> QED BY <2>3, <2>4, <2>5 DEF Sound, RequestsSound
<1>2. CASE RevokeOwn(r)
  <2>1. request'[r].pc = "idle" /\ \A q \in Requests \ {r} : request'[q] = request[q]
    BY <1>0, <1>2, IdleType DEF RevokeOwn, Done
  <2>2. request'[r].pc \notin Revoking
    BY <2>1 DEF Revoking
  <2>3. own \in Sessions /\ Free(own)
    BY <1>0, <1>2 DEF RevokeOwn, At, HasSession, Revoking
  <2>4. CASE session[own].status = "open"
    <3> DEFINE ids == {own}
    <3>1. session' = Revoked(session, ids) /\ ended' = ended \cup {session[own].login}
      BY <1>2, <2>4 DEF RevokeOwn
    <3>2. {session[s].login : s \in ids} = {session[own].login}
      OBVIOUS
    <3>3. ids \in SUBSET Sessions /\ \A s \in ids : session[s].status = "open" /\ Free(s)
      BY <2>3, <2>4
    <3>4. \A q \in Requests : request'[q] = request[q] \/ request'[q].pc \notin Revoking
      BY <2>1, <2>2
    <3> HIDE DEF ids, own
    <3> QED BY <3>1, <3>2, <3>3, <3>4, RevokeStep
  <2>5. CASE session[own].status # "open"
    <3>1. session' = session /\ ended' = ended
      BY <1>2, <2>5 DEF RevokeOwn
    <3> QED BY <2>1, <2>2, <3>1, QuietStep
  <2> QED BY <2>4, <2>5
<1>3. CASE RevokeTarget(r)
  <2>0. session' = session /\ ended' = ended
    BY <1>3 DEF RevokeTarget
  <2>1. CASE Done(r)
    <3>1. request'[r].pc = "idle" /\ \A q \in Requests \ {r} : request'[q] = request[q]
      BY <1>0, <2>1, IdleType DEF Done
    <3>2. request'[r].pc \notin Revoking
      BY <3>1 DEF Revoking
    <3> QED BY <2>0, <3>1, <3>2, QuietStep
  <2>2. CASE session[target].status = "open"
    <3>1. PICK begin \in request[r].start .. now :
            request' = [request EXCEPT ![r].pc = "rotate", ![r].start = begin]
      BY <1>3, <2>2 DEF RevokeTarget
    <3>2. /\ request'[r].pc = "rotate" /\ request'[r].session = own
          /\ request'[r].target = target /\ request'[r].version = request[r].version
          /\ request'[r].absolute = request[r].absolute
          /\ \A q \in Requests \ {r} : request'[q] = request[q]
      BY <1>0, <3>1 DEF Request
    <3>3. own # target /\ Free(target) /\ request[r].pc = "revoke"
      BY <1>3 DEF RevokeTarget, At
    <3>4. RowsOf(r)' = {target}
      BY <3>2, NextRowsOfFacts
    <3>5. \A q \in Requests \ {r} : RowsOf(q)' = RowsOf(q) /\ target \notin RowsOf(q)
      BY <3>2, <3>3, NextRowsOfFacts DEF Free
    <3> HIDE DEF own, target
    <3>6. ASSUME NEW p \in Requests, NEW q \in Requests PROVE RowsApart(p, q)'
      BY <3>4, <3>5 DEF Sound, RequestsSound, RowsApart
    <3>7. ASSUME NEW q \in Requests PROVE (HasSession(q) /\ RowsHeld(q))'
      <4>1. CASE q = r
        BY <1>0, <2>0, <2>2, <3>2, <3>3, <4>1 DEF HasSession, RowsHeld, own, target, Revoking
      <4>2. CASE q # r
        BY <2>0, <3>2, <4>2 DEF HasSession, RowsHeld, Sound, RequestsSound
      <4> QED BY <4>1, <4>2
    <3>8. RowsSound' /\ OneOpen'
      BY <2>0 DEF Sound, RowsSound, RowSound, OneOpen
    <3> QED BY <3>6, <3>7, <3>8 DEF Sound, RequestsSound
  <2> QED BY <1>3, <2>1, <2>2 DEF RevokeTarget
<1>4. CASE RotateOwn(r)
  <2>0. session' = session /\ ended' = ended
    BY <1>4 DEF RotateOwn
  <2>1. CASE Done(r)
    <3>1. request'[r].pc = "idle" /\ \A q \in Requests \ {r} : request'[q] = request[q]
      BY <1>0, <2>1, IdleType DEF Done
    <3>2. request'[r].pc \notin Revoking
      BY <3>1 DEF Revoking
    <3> QED BY <2>0, <3>1, <3>2, QuietStep
  <2>2. CASE OwnIsOpen(r)
    <3>1. request' = [request EXCEPT ![r].pc = "insert"]
      BY <1>4, <2>2 DEF RotateOwn, Goto
    <3>2. /\ request'[r].pc = "insert" /\ request'[r].session = own
          /\ request'[r].target = target /\ request'[r].version = request[r].version
          /\ request'[r].absolute = request[r].absolute
          /\ \A q \in Requests \ {r} : request'[q] = request[q]
      BY <1>0, <3>1 DEF Request
    <3>3. session[own].status = "open" /\ Free(own) /\ request[r].pc = "rotate"
      BY <1>4, <2>2 DEF RotateOwn, At, OwnIsOpen
    <3>4. RowsOf(r)' = RowsOf(r) \cup {own}
      BY <3>2, <3>3, NextRowsOfFacts, RowsOfFacts
    <3>5. \A q \in Requests \ {r} : RowsOf(q)' = RowsOf(q) /\ own \notin RowsOf(q)
      BY <3>2, <3>3, NextRowsOfFacts DEF Free
    <3> HIDE DEF own, target
    <3>6. ASSUME NEW p \in Requests, NEW q \in Requests PROVE RowsApart(p, q)'
      BY <3>4, <3>5 DEF Sound, RequestsSound, RowsApart
    <3>7. ASSUME NEW q \in Requests PROVE (HasSession(q) /\ RowsHeld(q))'
      <4>1. CASE q = r
        BY <1>0, <2>0, <3>2, <3>3, <4>1 DEF HasSession, RowsHeld, own, target, Revoking
      <4>2. CASE q # r
        BY <2>0, <3>2, <4>2 DEF HasSession, RowsHeld, Sound, RequestsSound
      <4> QED BY <4>1, <4>2
    <3>8. RowsSound' /\ OneOpen'
      BY <2>0 DEF Sound, RowsSound, RowSound, OneOpen
    <3> QED BY <3>6, <3>7, <3>8 DEF Sound, RequestsSound
  <2> QED BY <1>4, <2>1, <2>2 DEF RotateOwn
<1>5. ASSUME NEW s \in Sessions, InsertRotated(r, s)
      PROVE  Sound'
  <2>1. request'[r].pc = "idle" /\ \A q \in Requests \ {r} : request'[q] = request[q]
    BY <1>0, <1>5, IdleType DEF InsertRotated, Done
  <2>2. /\ request[r].pc = "insert" /\ own \in Sessions /\ target \in Sessions
        /\ own # target
        /\ session[own].status = "open" /\ session[target].status = "open"
        /\ session[own].version = request[r].version
        /\ session[own].absolute = request[r].absolute
        /\ session[s].status = "none" /\ s # own /\ s # target
    BY <1>0, <1>5 DEF InsertRotated, At, HasSession, RowsHeld, Revoking
  <2> DEFINE ids == {own, target}
             row == [session[own] EXCEPT !.status = "open", !.version = request[r].version,
                       !.idle = Least(request[r].start + IdleTime, request[r].absolute),
                       !.absolute = request[r].absolute]
  <2>3. session' = [Revoked(session, ids) EXCEPT ![s] = row]
        /\ ended' = ended \cup {session[target].login}
    BY <1>5 DEF InsertRotated
  <2>4. /\ row.status = "open" /\ row.login = session[own].login
        /\ row.version = request[r].version /\ row.verified = session[own].verified
        /\ row.began = session[own].began /\ row.absolute = request[r].absolute
    <3>1. session[own] \in SessionRow
      BY <1>0, <2>2
    <3> QED BY <3>1 DEF SessionRow
  <2>5. RowsOf(r) = ids
    BY <2>2, RowsOfFacts
  <2>6. \A q \in Requests \ {r} : own \notin RowsOf(q) /\ target \notin RowsOf(q)
    BY <2>5 DEF Sound, RequestsSound, RowsApart
  <2>7. ids \subseteq Sessions
    BY <2>2
  <2> HIDE DEF row, own, target
  <2>8. /\ session'[s] = row
        /\ \A t \in Sessions \ {s, own, target} : session'[t] = session[t]
        /\ session'[own].status = "revoked" /\ session'[target].status = "revoked"
        /\ \A t \in ids : /\ session'[t].login = session[t].login
                          /\ session'[t].version = session[t].version
                          /\ session'[t].verified = session[t].verified
    <3>1. Revoked(session, ids) \in [Sessions -> SessionRow]
      BY <1>0, RevokedType
    <3>2. \A t \in Sessions \ ids : Revoked(session, ids)[t] = session[t]
      BY <1>0, RevokedType
    <3>3. \A t \in ids : /\ Revoked(session, ids)[t].status = "revoked"
                        /\ Revoked(session, ids)[t].login = session[t].login
                        /\ Revoked(session, ids)[t].version = session[t].version
                        /\ Revoked(session, ids)[t].verified = session[t].verified
      BY <1>0, <2>7, RevokedType
    <3>4. session'[s] = row /\ \A t \in Sessions \ {s} : session'[t] = Revoked(session, ids)[t]
      BY <2>3, <3>1
    <3> DEFINE done == Revoked(session, ids)
    <3> HIDE DEF done
    <3>5. \A t \in Sessions \ {s} : session'[t] = done[t]
      BY <3>4 DEF done
    <3>6. \A t \in Sessions \ ids : done[t] = session[t]
      BY <3>2 DEF done
    <3>7. \A t \in ids : /\ done[t].status = "revoked" /\ done[t].login = session[t].login
                        /\ done[t].version = session[t].version
                        /\ done[t].verified = session[t].verified
      BY <3>3 DEF done
    <3>8. \A t \in Sessions \ {s, own, target} : session'[t] = session[t]
      BY <3>5, <3>6
    <3>9. s \notin ids /\ \A t \in ids : session'[t] = done[t]
      BY <2>2, <2>7, <3>5
    <3> QED BY <3>4, <3>7, <3>8, <3>9
  <2>9. \A t \in Sessions : session[t].status # "none" => session'[t].status # "none"
    BY <2>2, <2>4, <2>8
  <2>10. \A t \in Sessions : session'[t].status = "open" =>
           t = s \/ (t \notin ids /\ session'[t] = session[t])
    BY <2>2, <2>8
  <2>11. \A p, q \in Requests : RowsApart(p, q)'
    BY <2>1, QuietApart DEF Sound
  <2>12. ASSUME NEW q \in Requests PROVE (HasSession(q) /\ RowsHeld(q))'
    <3>1. CASE q = r
      BY <2>1, <3>1 DEF HasSession, RowsHeld, Revoking
    <3>2. CASE q # r
      <4>1. /\ HasSession(q) /\ RowsHeld(q) /\ request'[q] = request[q]
            /\ own \notin RowsOf(q) /\ target \notin RowsOf(q)
        BY <2>1, <2>6, <3>2 DEF Sound, RequestsSound
      <4>2. HasSession(q)'
        <5>1. SUFFICES ASSUME request[q].pc \in Revoking
                       PROVE  HasSession(q)'
          BY <4>1 DEF HasSession
        <5> DEFINE o == request[q].session
        <5>2. /\ o \in Sessions /\ request[q].target \in Sessions
              /\ session[o].status # "none" /\ o # s
              /\ session[o].version = request[q].version
              /\ session[o].status = "open" => session[o].absolute = request[q].absolute
          BY <2>2, <4>1, <5>1 DEF HasSession
        <5>3. session'[o].version = session[o].version /\ session'[o].status # "none"
          BY <2>8, <2>9, <5>2
        <5>4. session'[o].status = "open" => session'[o] = session[o]
          BY <2>10, <5>2
        <5> QED BY <4>1, <5>2, <5>3, <5>4 DEF HasSession
      <4>3. request[q].pc \in {"rotate", "insert"} =>
              /\ request[q].target \in Sessions
              /\ request[q].target \notin {s, own, target}
        BY <2>2, <4>1, RowsOfFacts DEF HasSession, RowsHeld, Revoking
      <4>4. request[q].pc = "insert" =>
              /\ request[q].session \in Sessions
              /\ request[q].session \notin {s, own, target}
        BY <2>2, <4>1, RowsOfFacts DEF HasSession, RowsHeld, Revoking
      <4>5. RowsHeld(q)'
        BY <2>8, <4>1, <4>3, <4>4 DEF RowsHeld
      <4> QED BY <4>2, <4>5
    <3> QED BY <3>1, <3>2
  <2>13. session[own].login \in Sessions /\ session[session[own].login].status # "none"
         /\ session[target].login \in Sessions
         /\ session[session[target].login].status # "none"
    BY <2>2 DEF Sound, RowsSound, RowSound
  <2>14. RowsSound'
    <3>1. ASSUME NEW t \in Sessions PROVE RowSound(t)'
      <4>0. RowSound(t) /\ RowSound(own)
        BY <2>2 DEF Sound, RowsSound
      <4>1. CASE t = s
        BY <2>2, <2>4, <2>8, <2>9, <2>13, <4>0, <4>1 DEF RowSound
      <4>2. CASE t \in ids
        BY <2>2, <2>8, <2>9, <4>0, <4>2 DEF RowSound
      <4>3. CASE t \notin ids /\ t # s
        BY <2>8, <2>9, <4>0, <4>3 DEF RowSound
      <4> QED BY <4>1, <4>2, <4>3
    <3>2. \A t \in ended' : session'[t].status # "none"
      BY <2>3, <2>9, <2>13 DEF Sound, RowsSound, TypeOK
    <3> QED BY <3>1, <3>2 DEF RowsSound
  <2>15. OneOpen'
    <3>1. \A t \in Sessions \ {own} : session[t].status = "open" =>
            session[t].login # session[own].login
      BY <2>2 DEF Sound, OneOpen
    <3>2. \A t \in Sessions \ {target} : session[t].status = "open" =>
            session[t].login # session[target].login
      BY <2>2 DEF Sound, OneOpen
    <3>3. ASSUME NEW t \in Sessions, session'[t].status = "open"
          PROVE  session'[t].login \notin ended'
      <4>1. session'[t].login \notin ended
        BY <2>2, <2>4, <2>8, <2>10, <3>3 DEF Sound, OneOpen
      <4>2. session'[t].login # session[target].login
        BY <2>2, <2>4, <2>8, <2>10, <3>2, <3>3
      <4> QED BY <2>3, <4>1, <4>2
    <3>4. ASSUME NEW t \in Sessions, NEW u \in Sessions,
                 session'[t].status = "open", session'[u].status = "open",
                 session'[t].login = session'[u].login
          PROVE  t = u
      BY <2>4, <2>8, <2>10, <3>1, <3>4 DEF Sound, OneOpen
    <3> QED BY <3>3, <3>4 DEF OneOpen
  <2> QED BY <2>11, <2>12, <2>14, <2>15 DEF Sound, RequestsSound
<1> QED BY <1>1, <1>2, <1>3, <1>4, <1>5 DEF SessionStep

LEMMA HostSound ==
  ASSUME TypeOK, Sound, Host
  PROVE  Sound'
<1>1. ASSUME NEW p \in Passwords, ResetOwner(p)
      PROVE  Sound'
  <2> DEFINE open == {s \in Sessions : session[s].status = "open"}
  <2>1. /\ session' = Revoked(session, open) /\ request' = request
        /\ ended' = ended \cup {session[s].login : s \in open}
        /\ \A s \in open : session[s].status = "open" /\ Free(s)
        /\ open \in SUBSET Sessions
    BY <1>1 DEF ResetOwner
  <2> HIDE DEF open
  <2> QED BY <2>1, RevokeStep
<1>2. CASE (\E p \in Passwords : CreateOwner(p)) \/ LockOwner \/ ResetAborts
  BY <1>2, NothingStep DEF CreateOwner, LockOwner, ResetAborts
<1> QED BY <1>1, <1>2 DEF Host

LEMMA NextSound ==
  ASSUME TypeOK, Sound, [Next]_vars
  PROVE  Sound'
<1>0. request \in [Requests -> Request] /\ session \in [Sessions -> SessionRow]
  BY DEF TypeOK
<1>1. CASE UNCHANGED <<session, request, ended>>
  BY <1>1, NothingStep
<1>2. ASSUME NEW r \in Requests, Abort(r)
      PROVE  Sound'
  <2>1. request'[r].pc = "idle" /\ \A q \in Requests \ {r} : request'[q] = request[q]
    BY <1>0, <1>2, IdleType DEF Abort, Done
  <2>2. request'[r].pc \notin Revoking
    BY <2>1 DEF Revoking
  <2> QED BY <1>2, <2>1, <2>2, QuietStep DEF Abort
<1>3. ASSUME NEW s \in Sessions, RefreshOwnerSession(s)
      PROVE  Sound'
  <2>1. \A t \in Sessions : /\ session'[t].status = session[t].status
                            /\ session'[t].login = session[t].login
                            /\ session'[t].version = session[t].version
                            /\ session'[t].verified = session[t].verified
                            /\ session'[t].began = session[t].began
                            /\ session'[t].absolute = session[t].absolute
    BY <1>0, <1>3 DEF RefreshOwnerSession, SessionRow
  <2>2. request' = request /\ ended' = ended
    BY <1>3 DEF RefreshOwnerSession
  <2>3. ASSUME NEW q \in Requests PROVE (HasSession(q) /\ RowsHeld(q))'
    <3>1. HasSession(q) /\ RowsHeld(q)
      BY DEF Sound, RequestsSound
    <3>2. HasSession(q)'
      BY <2>1, <2>2, <3>1 DEF HasSession
    <3>3. request[q].pc \in {"rotate", "insert"} =>
            request[q].target \in Sessions /\ request[q].session \in Sessions
      BY <3>1 DEF HasSession, Revoking
    <3> QED BY <2>1, <2>2, <3>1, <3>2, <3>3 DEF RowsHeld
  <2>4. \A p, q \in Requests : RowsApart(p, q)'
    BY <2>2 DEF Sound, RequestsSound, RowsApart, RowsOf, At
  <2>5. RowsSound'
    BY <2>1, <2>2 DEF Sound, RowsSound, RowSound, TypeOK
  <2>6. OneOpen'
    BY <2>1, <2>2 DEF Sound, OneOpen
  <2> QED BY <2>3, <2>4, <2>5, <2>6 DEF Sound, RequestsSound
<1> QED
  BY <1>1, <1>2, <1>3, LoginSound, SessionSound, HostSound DEF Next, vars, Tick

-----------------------------------------------------------------------------
(* Time *)

LEMMA NextStarted ==
  ASSUME TypeOK, Started, [Next]_vars
  PROVE  Started' /\ \A r \in Requests : request[r].start \in Times
<1>0. /\ request \in [Requests -> Request] /\ now \in Nat /\ now <= MaxTime
      /\ MaxTime \in Nat /\ \A r \in Requests : request[r].start \in Nat
  BY TimesAssumption DEF TypeOK, Times, Request
<1>1. \A r \in Requests : request[r].start \in Times
  BY <1>0 DEF Started, Times
<1>2. CASE UNCHANGED request
  <2>1. now' = now \/ now' = now + 1
    BY <1>2 DEF Next, vars, LoginStep, LoginOwner, LockRateSubjects, VerifyPassword,
       AuthenticationFailed, OpenSession, SessionStep, ReadSession, RevokeOwn, RevokeTarget,
       RotateOwn, InsertRotated, Abort, RefreshOwnerSession, Host, CreateOwner, ResetOwner,
       LockOwner, ResetAborts, Tick
  <2> QED BY <1>0, <1>1, <1>2, <2>1 DEF Started
<1>3. ASSUME NEW r \in Requests, LoginStep(r) \/ SessionStep(r) \/ Abort(r)
      PROVE  Started'
  <2>1. now' = now
    BY <1>3 DEF LoginStep, LoginOwner, LockRateSubjects, VerifyPassword,
       AuthenticationFailed, OpenSession, SessionStep, ReadSession, RevokeOwn, RevokeTarget,
       RotateOwn, InsertRotated, Abort
  <2> DEFINE Fine == /\ request'[r].start <= now
                     /\ \A q \in Requests \ {r} : request'[q] = request[q]
  <2>2. ASSUME Done(r) \/ \E pc \in {"verify", "insert"} : Goto(r, pc)
        PROVE  Fine
    BY <1>0, <2>2, IdleType DEF Started, Done, Goto, Request
  <2>3. ASSUME LoginOwner(r) \/ \E s, t \in Sessions : ReadSession(r, s, t)
        PROVE  Fine
    <3>1. CASE LoginOwner(r)
      <4>1. PICK n \in Names, a \in Addresses, p \in Passwords :
              request' = [request EXCEPT ![r] =
                [Idle EXCEPT !.pc = "limit", !.name = n, !.address = a, !.password = p,
                             !.start = now]]
        BY <3>1 DEF LoginOwner
      <4>2. request'[r].start = now
        BY <1>0, <4>1, IdleType DEF Request
      <4> QED BY <1>0, <4>1, <4>2
    <3>2. ASSUME NEW s \in Sessions, NEW t \in Sessions, ReadSession(r, s, t)
          PROVE  Fine
      <4>1. request'[r].start = now
        BY <1>0, <3>2, IdleType DEF ReadSession, Request
      <4> QED BY <1>0, <3>2, <4>1 DEF ReadSession
    <3> QED BY <2>3, <3>1, <3>2
  <2>4. ASSUME VerifyPassword(r)
        PROVE  Fine
    BY <1>0, <2>4 DEF Started, VerifyPassword, Request
  <2>5. ASSUME RevokeTarget(r)
        PROVE  Fine
    BY <1>0, <2>2, <2>5 DEF RevokeTarget, Request
  <2>6. Fine
    BY <1>3, <2>2, <2>3, <2>4, <2>5 DEF LoginStep, LockRateSubjects, AuthenticationFailed,
       OpenSession, SessionStep, RevokeOwn, RotateOwn, InsertRotated, Abort
  <2> QED BY <2>1, <2>6 DEF Started
<1>4. UNCHANGED request \/ \E r \in Requests : LoginStep(r) \/ SessionStep(r) \/ Abort(r)
  BY DEF Next, vars, RefreshOwnerSession, Host, CreateOwner, ResetOwner, LockOwner,
     ResetAborts, Tick
<1> QED BY <1>1, <1>2, <1>3, <1>4

-----------------------------------------------------------------------------
(* Failures and the limit *)

LEMMA SameWindow ==
  ASSUME NEW a \in Nat, NEW b \in Nat, a \div Window = b \div Window
  PROVE  a < b + Window
<1>0. Window \in Nat \ {0}
  BY TimesAssumption
<1>1. a = Window * (a \div Window) + (a % Window) /\ a % Window \in 0 .. Window - 1
  BY <1>0
<1>2. b = Window * (b \div Window) + (b % Window) /\ b % Window \in 0 .. Window - 1
  BY <1>0
<1>3. a \div Window \in Nat
  BY <1>0
<1>4. PICK k \in Nat : a \div Window = k
  BY <1>3
<1>5. Window * k \in Nat
  BY <1>0
<1> QED BY <1>0, <1>1, <1>2, <1>4, <1>5

LEMMA WhereCharged ==
  ASSUME TypeOK, NEW r \in Requests, request[r].start \in Times
  PROVE  SubjectsOf(r) \subseteq Subjects /\ WindowOf(r) \in Windows
BY DEF TypeOK, Request, SubjectsOf, WindowOf, Subjects, Windows

Limits == FullIsBlocked /\ BucketsHeld /\ RefusedCounted

\* Nobody is charged and nobody passes the limit.
LEMMA KeptLimits ==
  ASSUME Limits, bucket' = bucket, refused' = refused,
         \A r \in Requests : request'[r].pc \in PastLimit =>
           /\ request[r].pc \in PastLimit
           /\ request'[r].name = request[r].name /\ request'[r].address = request[r].address
           /\ request'[r].start = request[r].start
  PROVE  Limits'
<1>1. FullIsBlocked' /\ RefusedCounted'
  BY DEF Limits, FullIsBlocked, RefusedCounted
<1>2. \A r \in Requests : request'[r].pc \in PastLimit =>
        /\ SubjectsOf(r)' = SubjectsOf(r) /\ WindowOf(r)' = WindowOf(r)
        /\ Buckets(r)' = Buckets(r)
  BY DEF SubjectsOf, WindowOf, Buckets
<1>3. BucketsHeld'
  BY <1>2 DEF Limits, BucketsHeld
<1> QED BY <1>1, <1>3 DEF Limits

LEMMA LockLimits ==
  ASSUME TypeOK, Limits, NEW r \in Requests, request[r].start \in Times, LockRateSubjects(r)
  PROVE  Limits'
<1>0. request \in [Requests -> Request] /\ request[r].start \in Nat
  BY DEF TypeOK, Request
<1>1. CASE Blocked(r)
  <2>1. request'[r].pc = "idle" /\ \A q \in Requests \ {r} : request'[q] = request[q]
    BY <1>0, <1>1, IdleType DEF LockRateSubjects, Done
  <2>2. "idle" \notin PastLimit
    BY DEF PastLimit
  <2> QED BY <2>1, <2>2, KeptLimits DEF LockRateSubjects
<1>2. CASE ~Blocked(r)
  <2>1. /\ request'[r].pc = "verify" /\ request'[r].name = request[r].name
        /\ request'[r].address = request[r].address /\ request'[r].start = request[r].start
        /\ \A q \in Requests \ {r} : request'[q] = request[q]
    BY <1>0, <1>2 DEF LockRateSubjects, Goto, Request
  <2>2. bucket' = bucket /\ refused' = refused /\ LocksFree(r)
    BY DEF LockRateSubjects
  <2>3. \A q \in Requests : /\ SubjectsOf(q)' = SubjectsOf(q) /\ WindowOf(q)' = WindowOf(q)
                            /\ Buckets(q)' = Buckets(q)
    BY <2>1 DEF SubjectsOf, WindowOf, Buckets
  <2>4. \A x \in SubjectsOf(r) : bucket[x][WindowOf(r)].count < Limit
    <3> SUFFICES ASSUME NEW x \in SubjectsOf(r)
                 PROVE  bucket[x][WindowOf(r)].count < Limit
      OBVIOUS
    <3> DEFINE w == WindowOf(r)
    <3>1. x \in Subjects /\ w \in Windows
      BY WhereCharged
    <3>2. bucket[x][w] \in Bucket
      BY <3>1 DEF TypeOK
    <3>3. bucket[x][w].count \in 0 .. Limit /\ bucket[x][w].blocked \in Nat
      BY <3>2 DEF Bucket
    <3>4. ~(bucket[x][w].blocked > request[r].start)
      BY <1>2, <3>1 DEF Blocked
    <3>5. request[r].start \div Window = w
      BY DEF WindowOf
    <3> HIDE DEF w
    <3>6. bucket[x][w].count # Limit
      BY <1>0, <3>1, <3>3, <3>4, <3>5 DEF Limits, FullIsBlocked
    <3> QED BY <3>3, <3>6, LimitAssumption DEF w
  <2>5. \A q \in Requests \ {r} : request[q].pc \in PastLimit => Buckets(q) \cap Buckets(r) = {}
    BY <2>2 DEF LocksFree, Locked, PastLimit
  <2>6. BucketsHeld'
    <3>1. ASSUME NEW q \in Requests, request'[q].pc \in PastLimit
          PROVE  /\ \A x \in SubjectsOf(q) : bucket[x][WindowOf(q)].count < Limit
                 /\ \A p \in Requests \ {q} : request'[p].pc \in PastLimit =>
                      Buckets(p) \cap Buckets(q) = {}
      <4>1. CASE q = r
        BY <2>1, <2>4, <2>5, <4>1
      <4>2. CASE q # r
        BY <2>1, <2>5, <3>1, <4>2 DEF Limits, BucketsHeld
      <4> QED BY <4>1, <4>2
    <3> QED BY <2>2, <2>3, <3>1 DEF BucketsHeld
  <2>7. FullIsBlocked' /\ RefusedCounted'
    BY <2>2 DEF Limits, FullIsBlocked, RefusedCounted
  <2> QED BY <2>6, <2>7 DEF Limits
<1> QED BY <1>1, <1>2

LEMMA FailLimits ==
  ASSUME TypeOK, Limits, \A q \in Requests : request[q].start \in Times,
         NEW r \in Requests, AuthenticationFailed(r)
  PROVE  Limits'
<1> DEFINE start == request[r].start
           v == WindowOf(r)
<1>0. /\ request \in [Requests -> Request] /\ start \in Nat
      /\ SubjectsOf(r) \subseteq Subjects /\ v \in Windows /\ request[r].pc = "refuse"
      /\ v = start \div Window
  BY WhereCharged DEF TypeOK, Request, AuthenticationFailed, At, WindowOf
<1>1. request'[r].pc = "idle" /\ \A q \in Requests \ {r} : request'[q] = request[q]
  BY <1>0, IdleType DEF AuthenticationFailed, Done
<1>2. \A x \in Subjects, w \in Windows :
        bucket[x][w] \in Bucket /\ refused[x][w] \in Nat
  BY DEF TypeOK
<1>3. \A x \in Subjects, w \in Windows :
        IF x \in SubjectsOf(r) /\ w = v
        THEN /\ bucket'[x][w] = Charged(bucket[x][w], start)
             /\ refused'[x][w] = refused[x][w] + 1
        ELSE bucket'[x][w] = bucket[x][w] /\ refused'[x][w] = refused[x][w]
  <2> HIDE DEF v
  <2>1. /\ bucket' = [x \in Subjects |->
             IF x \in SubjectsOf(r)
             THEN [bucket[x] EXCEPT ![v] = Charged(@, start)] ELSE bucket[x]]
        /\ refused' = [x \in Subjects |->
             IF x \in SubjectsOf(r) THEN [refused[x] EXCEPT ![v] = @ + 1] ELSE refused[x]]
    BY DEF AuthenticationFailed, v
  <2> HIDE DEF start
  <2> QED BY <2>1 DEF TypeOK
<1>4. \A x \in SubjectsOf(r) : bucket[x][v].count < Limit
  BY <1>0 DEF Limits, BucketsHeld, PastLimit
<1>5. \A b \in Bucket : b.count < Limit =>
        /\ Charged(b, start).count = b.count + 1
        /\ b.count + 1 = Limit => Charged(b, start).blocked = start + Block
  BY LimitAssumption DEF Charged, Least, Bucket
<1> HIDE DEF start, v
<1>6. FullIsBlocked'
  <2> SUFFICES ASSUME NEW x \in Subjects, NEW w \in Windows, NEW t \in Times,
                      bucket'[x][w].count = Limit, t \div Window = w
               PROVE  t < bucket'[x][w].blocked
    BY DEF FullIsBlocked
  <2>1. CASE x \in SubjectsOf(r) /\ w = v
    <3>1. bucket'[x][w].blocked = start + Block
      BY <1>2, <1>3, <1>4, <1>5, <2>1
    <3>2. t < start + Window
      BY <1>0, <2>1, SameWindow DEF Times
    <3> QED BY <1>0, <3>1, <3>2, TimesAssumption DEF Times
  <2>2. CASE ~(x \in SubjectsOf(r) /\ w = v)
    BY <1>3, <2>2 DEF Limits, FullIsBlocked
  <2> QED BY <2>1, <2>2
<1>7. RefusedCounted'
  <2> SUFFICES ASSUME NEW x \in Subjects, NEW w \in Windows
               PROVE  refused'[x][w] <= bucket'[x][w].count
    BY DEF RefusedCounted
  <2>0. refused[x][w] <= bucket[x][w].count /\ bucket[x][w].count \in Nat
        /\ refused[x][w] \in Nat
    BY <1>2, LimitAssumption DEF Limits, RefusedCounted, Bucket
  <2>1. CASE x \in SubjectsOf(r) /\ w = v
    <3>1. bucket'[x][w].count = bucket[x][w].count + 1
      BY <1>2, <1>3, <1>4, <1>5, <2>1
    <3>2. refused'[x][w] = refused[x][w] + 1
      BY <1>3, <2>1
    <3> QED BY <2>0, <3>1, <3>2
  <2>2. CASE ~(x \in SubjectsOf(r) /\ w = v)
    BY <1>3, <2>0, <2>2
  <2> QED BY <2>1, <2>2
<1>8. BucketsHeld'
  <2>1. \A q \in Requests : request'[q].pc \in PastLimit => q # r
    BY <1>1 DEF PastLimit
  <2>2. \A q \in Requests \ {r} : /\ SubjectsOf(q)' = SubjectsOf(q)
                                  /\ WindowOf(q)' = WindowOf(q) /\ Buckets(q)' = Buckets(q)
    BY <1>1 DEF SubjectsOf, WindowOf, Buckets
  <2>3. ASSUME NEW q \in Requests \ {r}, request[q].pc \in PastLimit,
               NEW x \in SubjectsOf(q)
        PROVE  bucket'[x][WindowOf(q)].count < Limit
    <3>1. bucket[x][WindowOf(q)].count < Limit
      BY <2>3 DEF Limits, BucketsHeld
    <3>2. Buckets(q) \cap Buckets(r) = {}
      BY <1>0, <2>3 DEF Limits, BucketsHeld, PastLimit
    <3>3. ~(x \in SubjectsOf(r) /\ WindowOf(q) = v)
      BY <2>3, <3>2 DEF Buckets, v
    <3>4. x \in Subjects /\ WindowOf(q) \in Windows
      BY <2>3, WhereCharged
    <3> QED BY <1>3, <3>1, <3>3, <3>4
  <2> QED BY <1>1, <2>1, <2>2, <2>3 DEF Limits, BucketsHeld
<1> QED BY <1>6, <1>7, <1>8 DEF Limits

LEMMA NextLimits ==
  ASSUME TypeOK, Limits, \A q \in Requests : request[q].start \in Times, [Next]_vars
  PROVE  Limits'
<1>0. request \in [Requests -> Request]
  BY DEF TypeOK
<1>1. CASE UNCHANGED <<bucket, refused, request>>
  BY <1>1, KeptLimits
<1>2. ASSUME NEW r \in Requests, bucket' = bucket, refused' = refused,
             request'[r].pc \in PastLimit =>
               /\ request[r].pc \in PastLimit
               /\ request'[r].name = request[r].name
               /\ request'[r].address = request[r].address
               /\ request'[r].start = request[r].start,
             \A q \in Requests \ {r} : request'[q] = request[q]
      PROVE  Limits'
  BY <1>2, KeptLimits
<1>3. ASSUME NEW r \in Requests, LoginStep(r)
      PROVE  Limits'
  <2>1. CASE LoginOwner(r)
    <3>1. request'[r].pc = "limit" /\ \A q \in Requests \ {r} : request'[q] = request[q]
      BY <1>0, <2>1, IdleType DEF LoginOwner, Request
    <3>2. "limit" \notin PastLimit
      BY DEF PastLimit
    <3> QED BY <1>2, <2>1, <3>1, <3>2 DEF LoginOwner
  <2>2. CASE VerifyPassword(r)
    <3>1. /\ request'[r].name = request[r].name /\ request'[r].address = request[r].address
          /\ request'[r].start = request[r].start
          /\ \A q \in Requests \ {r} : request'[q] = request[q]
      BY <1>0, <2>2 DEF VerifyPassword, Request
    <3>2. request[r].pc \in PastLimit
      BY <2>2 DEF VerifyPassword, At, PastLimit
    <3> QED BY <1>2, <2>2, <3>1, <3>2 DEF VerifyPassword
  <2>3. ASSUME NEW s \in Sessions, OpenSession(r, s)
        PROVE  Limits'
    <3>1. request'[r].pc = "idle" /\ \A q \in Requests \ {r} : request'[q] = request[q]
      BY <1>0, <2>3, IdleType DEF OpenSession, Done
    <3>2. "idle" \notin PastLimit
      BY DEF PastLimit
    <3> QED BY <1>2, <2>3, <3>1, <3>2 DEF OpenSession
  <2> QED BY <1>3, <2>1, <2>2, <2>3, LockLimits, FailLimits DEF LoginStep
<1>4. ASSUME NEW r \in Requests, SessionStep(r) \/ Abort(r)
      PROVE  Limits'
  <2>1. bucket' = bucket /\ refused' = refused
    BY <1>4 DEF SessionStep, ReadSession, RevokeOwn, RevokeTarget, RotateOwn, InsertRotated,
       Abort
  <2>2. /\ request'[r].pc \in {"idle", "revoke", "rotate", "insert"}
        /\ \A q \in Requests \ {r} : request'[q] = request[q]
    <3> DEFINE Fine == /\ request'[r].pc \in {"idle", "revoke", "rotate", "insert"}
                       /\ \A q \in Requests \ {r} : request'[q] = request[q]
    <3>1. Done(r) \/ Goto(r, "insert") => Fine
      BY <1>0, IdleType DEF Done, Goto, Request
    <3>2. ASSUME NEW s \in Sessions, NEW t \in Sessions, ReadSession(r, s, t)
          PROVE  Fine
      BY <1>0, <3>2, IdleType DEF ReadSession, Request
    <3>3. ASSUME RevokeTarget(r)
          PROVE  Fine
      BY <1>0, <3>1, <3>3 DEF RevokeTarget, Request
    <3> HIDE DEF Fine
    <3>4. Fine
      BY <1>4, <3>1, <3>2, <3>3 DEF SessionStep, RevokeOwn, RotateOwn, InsertRotated, Abort
    <3> QED BY <3>4 DEF Fine
  <2>3. request'[r].pc \notin PastLimit
    BY <2>2 DEF PastLimit
  <2> QED BY <1>2, <2>1, <2>2, <2>3
<1> QED
  BY <1>1, <1>3, <1>4 DEF Next, vars, RefreshOwnerSession, Host, CreateOwner, ResetOwner,
     LockOwner, ResetAborts, Tick

-----------------------------------------------------------------------------
(* The theorems *)

LEMMA InitIInv == Init => IInv
<1> SUFFICES ASSUME Init PROVE IInv
  OBVIOUS
<1>1. TypeOK
  <2>1. owner \in [version : Nat, password : Passwords]
    BY DEF Init
  <2>2. Idle \in Request /\ NoRow \in SessionRow
    <3>1. (CHOOSE p \in Passwords : TRUE) \in Passwords
      BY <2>1
    <3> QED BY <3>1, NamesAssumption DEF Idle, Request, NoRow, SessionRow
  <2>3. [count |-> 0, blocked |-> 0] \in Bucket
    BY LimitAssumption DEF Bucket
  <2> DEFINE empty == [w \in Windows |-> [count |-> 0, blocked |-> 0]]
             zero == [w \in Windows |-> 0]
  <2>4. empty \in [Windows -> Bucket] /\ zero \in [Windows -> Nat]
    BY <2>3
  <2>5. bucket = [x \in Subjects |-> empty] /\ refused = [x \in Subjects |-> zero]
    BY DEF Init
  <2> HIDE DEF empty, zero
  <2>6. bucket \in [Subjects -> [Windows -> Bucket]] /\ refused \in [Subjects -> [Windows -> Nat]]
    BY <2>4, <2>5
  <2>7. session \in [Sessions -> SessionRow] /\ request \in [Requests -> Request]
    BY <2>2 DEF Init
  <2>8. now \in Times
    BY TimesAssumption DEF Init, Times
  <2>9. reset \in BOOLEAN /\ ended \subseteq Sessions
    BY DEF Init
  <2> QED BY <2>1, <2>6, <2>7, <2>8, <2>9 DEF TypeOK
<1>2. \A r \in Requests : request[r].pc = "idle" /\ request[r].start = 0
  BY DEF Init, Idle
<1>3. Started
  BY <1>2 DEF Init, Started
<1>4. RequestsSound
  BY <1>2, RowsOfFacts DEF RequestsSound, HasSession, RowsHeld, RowsApart, Revoking
<1>5. RowsSound /\ OneOpen
  BY DEF Init, NoRow, RowsSound, RowSound, OneOpen
<1>6. BucketsHeld
  BY <1>2 DEF BucketsHeld, PastLimit
<1>7. FullIsBlocked /\ RefusedCounted
  BY LimitAssumption DEF Init, FullIsBlocked, RefusedCounted
<1> QED BY <1>1, <1>3, <1>4, <1>5, <1>6, <1>7 DEF IInv

LEMMA NextIInv == IInv /\ [Next]_vars => IInv'
<1> SUFFICES ASSUME IInv, [Next]_vars PROVE IInv'
  OBVIOUS
<1>1. TypeOK'
  BY NextTypes DEF IInv
<1>2. Started' /\ \A r \in Requests : request[r].start \in Times
  BY NextStarted DEF IInv
<1>3. Sound'
  BY NextSound DEF IInv, Sound
<1>4. Limits'
  BY <1>2, NextLimits DEF IInv, Limits
<1> QED BY <1>1, <1>2, <1>3, <1>4 DEF IInv, Sound, Limits

\* The inductive invariant holds in every state.
THEOREM Inductive == Spec => []IInv
BY InitIInv, NextIInv, PTL DEF Spec

\* Every variable holds a value the schema and the handlers allow.
THEOREM TypeCorrect == Spec => []TypeOK
<1>1. IInv => TypeOK
  BY DEF IInv
<1> QED BY <1>1, Inductive, PTL

\* After a reset only what the new password opened can be used (resetOwner,
\* auth_version in session()).
THEOREM ResetsEndAccess == Spec => []ResetEndsAccess
<1>1. IInv => ResetEndsAccess
  BY DEF IInv, RowsSound, RowSound, ResetEndsAccess, Usable
<1> QED BY <1>1, Inductive, PTL

\* A login has one open session, none once it was ended, and none that is usable
\* beyond its lifetime (rotateSessionTx, insertSessionTx).
THEOREM LoginsDoEnd == Spec => []LoginsEnd
<1>1. IInv => LoginsEnd
  <2> SUFFICES ASSUME IInv PROVE LoginsEnd
    OBVIOUS
  <2>1. \A s \in Sessions : Usable(s) => now < session[s].began + Lifetime
    <3> SUFFICES ASSUME NEW s \in Sessions, Usable(s)
                 PROVE  now < session[s].began + Lifetime
      OBVIOUS
    <3>1. session[s].absolute = session[s].began + Lifetime /\ session[s].absolute > now
      BY DEF IInv, RowsSound, RowSound, Usable
    <3>2. session[s].absolute \in Nat /\ now \in Nat
      BY TimesAssumption DEF IInv, TypeOK, SessionRow, Times
    <3> QED BY <3>1, <3>2
  <2> QED BY <2>1 DEF IInv, OneOpen, LoginsEnd
<1> QED BY <1>1, Inductive, PTL

\* No more failures are answered in a window than the limit (lockRateSubjects,
\* authenticationFailed).
THEOREM GuessesAreBounded == Spec => []GuessesBounded
<1>1. IInv => GuessesBounded
  <2> SUFFICES ASSUME IInv, NEW x \in Subjects, NEW w \in Windows
               PROVE  refused[x][w] <= Limit
    BY DEF GuessesBounded
  <2>1. bucket[x][w] \in Bucket /\ refused[x][w] \in Nat
    BY DEF IInv, TypeOK
  <2>2. bucket[x][w].count \in 0 .. Limit /\ refused[x][w] <= bucket[x][w].count
    BY <2>1 DEF Bucket, IInv, RefusedCounted
  <2> QED BY <2>1, <2>2, LimitAssumption
<1> QED BY <1>1, Inductive, PTL
=============================================================================
