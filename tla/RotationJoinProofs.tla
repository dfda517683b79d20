------------------------- MODULE RotationJoinProofs -------------------------
(***************************************************************************)
(* Proofs about RotationJoin, for any number of requests, claims of the    *)
(* leases and Personal sessions.                                           *)
(*                                                                         *)
(* The argument: a stage is marked from one state of the execution that is *)
(* never reached again (StagesMarked), so at most one request ever stands  *)
(* between a marker and its POST (DispatchesOwnMark), and likewise for the *)
(* grants (GrantsOwnMarker).  A candidate is a member only after the       *)
(* accept stage was sent (MembersWereAccepted), and a request that may     *)
(* send keeps everybody else from the Workspace while its session lives    *)
(* (SendersHoldGate).                                                      *)
(***************************************************************************)
EXTENDS RotationJoin, TLAPS

\* What a request knows by its position.
RequestSound(q) ==
  /\ q.pc \in {"relock", "persist"} => q.outcome \in Results
  /\ q.pc \in {"start", "grant", "post", "granted"} => q.kind \in Kinds

RequestsSound == \A r \in Requests : RequestSound(request[r])

\* No state from which a stage is marked comes back after its marker.
StagesMarked ==
  /\ \A s \in Stages : exec.count[s] \in {0, 1}
  /\ exec.count["accept_join"] = 1 => exec.count["request_join"] = 1
  /\ exec.state \in {"none", "intent", "ready"} => exec.count["request_join"] = 0
  /\ exec.state \in {"request_started", "request_succeeded"} =>
       exec.count["request_join"] = 1 /\ exec.count["accept_join"] = 0

PostsMarked == \A s \in Stages : posts[s] = 0 \/ (posts[s] = 1 /\ exec.count[s] = 1)

\* r has marked the stage and not sent it.
Dispatching(r, s) == request[r].pc \in {"check", "send"} /\ request[r].stage = s

DispatchesOwnMark ==
  \A r \in Requests, s \in Stages : Dispatching(r, s) =>
    /\ exec.count[s] = 1
    /\ posts[s] = 0
    /\ \A q \in Requests : Dispatching(q, s) => q = r

\* r has marked the grant and has not its component.
Granting(r, k) == request[r].pc \in {"grant", "post", "granted"} /\ request[r].kind = k

GrantsOwnMarker ==
  \A r \in Requests, k \in Kinds : Granting(r, k) =>
    /\ k \in cred.started /\ k \notin cred.saved
    /\ grants[k] = IF request[r].pc = "granted" THEN 1 ELSE 0
    /\ \A q \in Requests : Granting(q, k) => q = r

GrantsMarked ==
  /\ \A k \in Kinds : /\ grants[k] = 0 \/ (grants[k] = 1 /\ k \in cred.started)
                      /\ k \in cred.saved => grants[k] = 1
  /\ cred.leased \/ cred.started # {} => cred.row

\* Who is seen as a member was accepted by the only POST of that stage.
MembersWereAccepted ==
  \/ posts["accept_join"] = 1
  \/ /\ "accept_join" \notin inflight
     /\ candidate # "member"
     /\ evidence # "confirmed"
     /\ \A r \in Requests : request[r].outcome # "confirmed"

\* A request about to send, while its session lives.
SendersHoldGate ==
  \A r \in Requests : request[r].gated /\ request[r].pc \in {"check", "send", "post"} =>
    /\ gate = r
    /\ binding = personal
    /\ request[r].pc # "check" => lost \subseteq {"age"}

IInv ==
  /\ TypeOK
  /\ RequestsSound
  /\ StagesMarked
  /\ PostsMarked
  /\ DispatchesOwnMark
  /\ GrantsOwnMarker
  /\ GrantsMarked
  /\ MembersWereAccepted
  /\ SendersHoldGate
  /\ PublicationComplete

-----------------------------------------------------------------------------
(* Steps that neither mark nor send *)

ExecKept ==
  /\ exec' \in ExecRow
  /\ exec'.count = exec.count
  /\ exec.state # "none" => exec'.state # "none"
  /\ exec'.state \in {"none", "intent", "ready"} => exec.count["request_join"] = 0
  /\ exec'.state \in {"request_started", "request_succeeded"} =>
       exec.count["request_join"] = 1 /\ exec.count["accept_join"] = 0

CredKept ==
  /\ cred' \in CredRow
  /\ cred'.started = cred.started /\ cred'.saved = cred.saved
  /\ cred'.published = cred.published
  /\ cred.row => cred'.row
  /\ cred'.leased => cred'.row
  /\ cred.published => cred'.review = cred.review

EvidenceKept ==
  /\ evidence' \in Results
  /\ evidence' = "confirmed" => evidence = "confirmed" \/ posts["accept_join"] = 1

\* The positions in which a request has marked what it has not finished.
Acting == {"check", "send", "await", "grant", "post", "granted"}

QuietRow(row) ==
  /\ row \in Request /\ RequestSound(row)
  /\ row.pc \notin Acting
  /\ row.outcome = "confirmed" => posts["accept_join"] = 1

\* r moves to a quiet position and takes the Workspace from nobody.
QuietStep(r) ==
  /\ \E row : QuietRow(row) /\ Update(r, row)
  /\ gate' \in {gate, r, NoRequest}
  /\ \A q \in Requests : gate = q /\ q # r => gate' = gate
  /\ ExecKept /\ CredKept /\ EvidenceKept
  /\ UNCHANGED <<lost, personal, binding, platform, history>>

\* What a step does to the four effects.
StepEffects ==
  /\ [RequestEffect!Next]_(RequestEffect!vars)
  /\ [AcceptEffect!Next]_(AcceptEffect!vars)
  /\ [WebEffect!Next]_(WebEffect!vars)
  /\ [OAuthEffect!Next]_(OAuthEffect!vars)

NoEffect ==
  /\ exec'.count = exec.count /\ posts' = posts
  /\ exec.state # "none" => exec'.state # "none"
  /\ cred'.started = cred.started /\ grants' = grants
  /\ cred.row => cred'.row
  /\ cred'.row \in BOOLEAN

LEMMA NoEffectStep ==
  ASSUME TypeOK, NoEffect
  PROVE  StepEffects
<1>1. cred.row \in BOOLEAN
  BY DEF TypeOK, CredRow
<1>2. [RequestEffect!Next]_(RequestEffect!vars)
  BY DEF NoEffect, RequestEffect!Next, RequestEffect!Reserve, RequestEffect!vars
<1>3. [AcceptEffect!Next]_(AcceptEffect!vars)
  BY DEF NoEffect, AcceptEffect!Next, AcceptEffect!Reserve, AcceptEffect!vars
<1>4. [WebEffect!Next]_(WebEffect!vars)
  BY <1>1 DEF NoEffect, WebEffect!Next, WebEffect!Reserve, WebEffect!vars
<1>5. [OAuthEffect!Next]_(OAuthEffect!vars)
  BY <1>1 DEF NoEffect, OAuthEffect!Next, OAuthEffect!Reserve, OAuthEffect!vars
<1> QED BY <1>2, <1>3, <1>4, <1>5 DEF StepEffects

LEMMA QuietKeeps ==
  ASSUME IInv, NEW r \in Requests, QuietStep(r)
  PROVE  IInv' /\ StepEffects
<1>1. PICK row : QuietRow(row) /\ request' = [request EXCEPT ![r] = row]
  BY DEF QuietStep, Update
<1>2. TypeOK /\ request \in [Requests -> Request]
  BY DEF IInv, TypeOK
<1>3. /\ request' \in [Requests -> Request]
      /\ request'[r] = row
      /\ \A q \in Requests : q # r => request'[q] = request[q]
  BY <1>1, <1>2 DEF QuietRow
<1>4. TypeOK'
  BY <1>2, <1>3 DEF TypeOK, QuietStep, ExecKept, CredKept, EvidenceKept, platform, history
<1>5. RequestsSound'
  BY <1>1, <1>3 DEF IInv, RequestsSound, QuietRow
<1>6. StagesMarked'
  BY DEF IInv, StagesMarked, QuietStep, ExecKept
<1>7. PostsMarked'
  BY DEF IInv, PostsMarked, QuietStep, ExecKept, history
<1>8. DispatchesOwnMark'
  <2>1. \A q \in Requests, s \in Stages : Dispatching(q, s)' => q # r /\ Dispatching(q, s)
    BY <1>1, <1>3 DEF Dispatching, QuietRow, Acting
  <2> QED BY <2>1 DEF IInv, DispatchesOwnMark, QuietStep, ExecKept, history
<1>9. GrantsOwnMarker'
  <2>1. \A q \in Requests, k \in Kinds : Granting(q, k)' =>
          /\ q # r /\ Granting(q, k)
          /\ request'[q] = request[q]
    BY <1>1, <1>3 DEF Granting, QuietRow, Acting
  <2> QED BY <2>1 DEF IInv, GrantsOwnMarker, QuietStep, CredKept, history
<1>10. GrantsMarked'
  BY DEF IInv, GrantsMarked, QuietStep, CredKept, history
<1>11. MembersWereAccepted'
  BY <1>1, <1>3 DEF IInv, MembersWereAccepted, QuietStep, EvidenceKept, QuietRow,
                    platform, history
<1>12. SendersHoldGate'
  <2> SUFFICES ASSUME NEW q \in Requests, request'[q].gated,
                      request'[q].pc \in {"check", "send", "post"}
               PROVE  gate' = q /\ binding' = personal'
                      /\ (request'[q].pc # "check" => lost' \subseteq {"age"})
    BY DEF SendersHoldGate
  <2>1. q # r /\ request'[q] = request[q]
    BY <1>1, <1>3 DEF QuietRow, Acting
  <2> QED BY <2>1 DEF IInv, SendersHoldGate, QuietStep
<1>13. PublicationComplete'
  BY DEF IInv, PublicationComplete, QuietStep, CredKept, history
<1>14. StepEffects
  <2>1. NoEffect
    BY DEF QuietStep, ExecKept, CredKept, CredRow, NoEffect, history
  <2> QED BY <1>2, <2>1, NoEffectStep
<1> QED BY <1>4, <1>5, <1>6, <1>7, <1>8, <1>9, <1>10, <1>11, <1>12, <1>13, <1>14 DEF IInv

-----------------------------------------------------------------------------
(* The quiet steps of a request *)

LEMMA Numbers ==
  /\ MaxEpoch \in Nat /\ MaxGeneration \in Nat /\ MaxGeneration # 0
  /\ NoRequest \notin Requests
BY BoundsAssumption, RequestAssumption

LEMMA IdleQuiet == QuietRow(Idle)
BY Numbers DEF QuietRow, Idle, Request, RequestSound, Stages, Kinds, Results, Acting

\* A request that notes an outcome other than a membership.
LEMMA AnsweredQuiet ==
  ASSUME NEW q \in Request, NEW pc \in {"finish", "persist"},
         NEW outcome \in {"succeeded", "failed", "uncertain", "unknown"},
         pc = "persist" => outcome \in Results
  PROVE  QuietRow([q EXCEPT !.pc = pc, !.outcome = outcome])
<1> DEFINE moved == [q EXCEPT !.pc = pc]
           row == [q EXCEPT !.pc = pc, !.outcome = outcome]
<1>1. moved \in Request /\ row = [moved EXCEPT !.outcome = outcome]
  BY DEF Request
<1>2. row.pc = pc /\ row.outcome = outcome
  BY DEF Request
<1>3. row \in Request
  <2> HIDE DEF moved, row
  <2> QED BY <1>1 DEF Request, Results
<1> HIDE DEF row
<1>4. QuietRow(row)
  BY <1>2, <1>3 DEF QuietRow, RequestSound, Acting
<1> QED BY <1>4 DEF row

\* A request that binds itself to the Personal session of the moment.
LEMMA PinnedQuiet ==
  ASSUME NEW q \in Request, NEW pc \in {"mark", "read", "proof"},
         NEW pinned \in 0..MaxGeneration, q.outcome = "confirmed" => posts["accept_join"] = 1
  PROVE  QuietRow([q EXCEPT !.pc = pc, !.pinned = pinned])
<1> DEFINE moved == [q EXCEPT !.pc = pc]
           row == [q EXCEPT !.pc = pc, !.pinned = pinned]
<1>1. moved \in Request /\ row = [moved EXCEPT !.pinned = pinned]
  BY DEF Request
<1>2. row.pc = pc /\ row.outcome = q.outcome
  BY DEF Request
<1>3. row \in Request
  <2> HIDE DEF moved, row
  <2> QED BY <1>1 DEF Request
<1> HIDE DEF row
<1>4. QuietRow(row)
  BY <1>2, <1>3 DEF QuietRow, RequestSound, Acting
<1> QED BY <1>4 DEF row

\* The request keeps what it knows; only its position changes.
LEMMA RowOf ==
  ASSUME IInv, NEW r \in Requests
  PROVE  /\ request[r] \in Request /\ RequestSound(request[r])
         /\ request[r].outcome = "confirmed" => posts["accept_join"] = 1
         /\ personal \in 1..MaxGeneration /\ personal \in 0..MaxGeneration
         /\ gate \in Requests \cup {NoRequest}
<1>1. MembersWereAccepted
  BY DEF IInv
<1> QED BY <1>1, Numbers DEF IInv, TypeOK, RequestsSound, MembersWereAccepted

LEMMA JournalsStay ==
  ASSUME IInv, UNCHANGED <<exec, cred, evidence>>
  PROVE  ExecKept /\ CredKept /\ EvidenceKept
BY DEF IInv, TypeOK, StagesMarked, GrantsMarked, ExecKept, CredKept, EvidenceKept

LEMMA LeaveQuiet ==
  ASSUME IInv, NEW r \in Requests, Leave(r)
  PROVE  /\ gate' \in {gate, r, NoRequest}
         /\ \A q \in Requests : gate = q /\ q # r => gate' = gate
BY DEF Leave

\* Steps that only move their request, with the Workspace kept, taken or left.
MovesQuietly(r) ==
  /\ \E row : QuietRow(row) /\ Update(r, row)
  /\ gate' \in {gate, r, NoRequest}
  /\ \A q \in Requests : gate = q /\ q # r => gate' = gate
  /\ UNCHANGED <<lost, personal, journals, cred, platform, history>>

LEMMA MovesAreQuiet ==
  ASSUME IInv, NEW r \in Requests, MovesQuietly(r)
  PROVE  QuietStep(r)
<1>1. ExecKept /\ CredKept /\ EvidenceKept
  BY JournalsStay DEF MovesQuietly, journals
<1> QED BY <1>1 DEF MovesQuietly, QuietStep, journals

LEMMA MoveSteps ==
  ASSUME IInv, NEW r \in Requests,
         \/ \E act \in {"run", "verify", "save", "repair"} : JoinAction(r, act)
         \/ LockRemovalGate(r) \/ Admit(r) \/ JoinNotSent(r) \/ JoinAnswered(r)
         \/ ObserveAdmission(r) \/ Relock(r) \/ RemoteProof(r) \/ Prove(r)
  PROVE  MovesQuietly(r)
<1> USE DEF Update, GoTo, At
<1>0. /\ request[r] \in Request /\ RequestSound(request[r])
      /\ request[r].outcome = "confirmed" => posts["accept_join"] = 1
      /\ personal \in 0..MaxGeneration
  BY RowOf
<1>1. ASSUME NEW act \in {"run", "verify", "save", "repair"}, JoinAction(r, act)
      PROVE  MovesQuietly(r)
  <2> DEFINE row == [Idle EXCEPT !.act = act, !.pc =
          CASE act = "run" -> "reserve" [] act = "verify" -> "claim" [] OTHER -> "gate"]
  <2>1. QuietRow(row)
    BY IdleQuiet DEF QuietRow, Idle, Request, RequestSound, Acting
  <2> QED BY <1>1, <2>1 DEF JoinAction, MovesQuietly
<1>2. CASE LockRemovalGate(r)
  <2> DEFINE row == [request[r] EXCEPT !.gated = TRUE, !.pc =
         CASE request[r].act = "run" -> "admit" [] request[r].act = "verify" -> "observe"
           [] OTHER -> "lease"]
  <2>1. QuietRow(row)
    <3> DEFINE held == [request[r] EXCEPT !.gated = TRUE]
    <3>1. held \in Request /\ held.outcome = request[r].outcome
      BY <1>0 DEF Request
    <3>2. \E pc \in {"admit", "observe", "lease"} : row = [held EXCEPT !.pc = pc]
      BY <1>0 DEF Request
    <3> HIDE DEF held, row
    <3>3. row \in Request /\ row.outcome = request[r].outcome
          /\ row.pc \in {"admit", "observe", "lease"}
      BY <3>1, <3>2 DEF Request
    <3> QED BY <1>0, <3>3 DEF QuietRow, RequestSound, Acting
  <2> QED BY <1>2, <2>1, Numbers DEF LockRemovalGate, MovesQuietly
<1>3. CASE Admit(r)
  <2> DEFINE row == [request[r] EXCEPT !.pc = "mark", !.pinned = personal]
  <2>1. QuietRow(row)
    BY <1>0, PinnedQuiet
  <2> QED BY <1>3, <2>1 DEF Admit, MovesQuietly
<1>4. CASE JoinNotSent(r)
  <2> DEFINE row == [request[r] EXCEPT !.pc = "finish", !.outcome = "uncertain"]
  <2>1. QuietRow(row)
    BY <1>0, AnsweredQuiet
  <2> QED BY <1>4, <2>1 DEF JoinNotSent, MovesQuietly
<1>5. CASE JoinAnswered(r)
  <2>1. PICK outcome \in {"succeeded", "failed", "uncertain"} :
          request' = [request EXCEPT ![r] =
                        [request[r] EXCEPT !.pc = "finish", !.outcome = outcome]]
    BY <1>5 DEF JoinAnswered
  <2> DEFINE row == [request[r] EXCEPT !.pc = "finish", !.outcome = outcome]
  <2>2. QuietRow(row)
    BY <1>0, AnsweredQuiet
  <2> QED BY <1>5, <2>1, <2>2 DEF JoinAnswered, MovesQuietly
<1>6. CASE ObserveAdmission(r)
  <2>1. gate = r /\ UNCHANGED <<lost, personal, journals, cred, platform, history>>
    BY <1>6 DEF ObserveAdmission, Gated
  <2>2. CASE Admitted /\ Bound
    <3> DEFINE row == [request[r] EXCEPT !.pc = "read", !.pinned = personal]
    <3>1. QuietRow(row)
      BY <1>0, PinnedQuiet
    <3> QED BY <1>6, <2>1, <2>2, <3>1 DEF ObserveAdmission, MovesQuietly
  <2>3. CASE ~(Admitted /\ Bound)
    <3> DEFINE row == [request[r] EXCEPT !.pc = "persist", !.outcome = "unknown"]
    <3>1. QuietRow(row)
      BY <1>0, AnsweredQuiet DEF Results
    <3> QED BY <1>6, <2>1, <2>3, <3>1 DEF ObserveAdmission, MovesQuietly
  <2> QED BY <2>2, <2>3
<1>7. CASE Relock(r)
  <2> DEFINE row == [request[r] EXCEPT !.pc = "persist"]
  <2>1. QuietRow(row)
    BY <1>0, <1>7 DEF Relock, QuietRow, Request, RequestSound, Acting
  <2> QED BY <1>7, <2>1, Numbers DEF Relock, Lockable, MovesQuietly
<1>8. CASE RemoteProof(r)
  <2> DEFINE row == [request[r] EXCEPT !.pc = "prove"]
  <2>1. QuietRow(row)
    BY <1>0 DEF QuietRow, Request, RequestSound, Acting
  <2> QED BY <1>8, <2>1, LeaveQuiet DEF RemoteProof, MovesQuietly
<1>9. CASE Prove(r)
  <2> DEFINE pc == CASE request[r].kind = "none" -> "decide"
                     [] request[r].kind = "both" -> "publish"
                     [] OTHER -> "start"
             row == [request[r] EXCEPT !.pc = pc]
  <2>1. QuietRow(row)
    BY <1>0 DEF QuietRow, Request, RequestSound, Acting
  <2> QED BY <1>9, <2>1, Numbers DEF Prove, Local, Lockable, MovesQuietly
<1> QED BY <1>1, <1>2, <1>3, <1>4, <1>5, <1>6, <1>7, <1>8, <1>9

LEMMA ReadQuiet ==
  ASSUME IInv, NEW r \in Requests, ReadMembership(r)
  PROVE  MovesQuietly(r)
<1>1. PICK result \in Classified :
        request' = [request EXCEPT ![r] =
                      [request[r] EXCEPT !.pc = "relock", !.outcome = result]]
  BY DEF ReadMembership, Update
<1> DEFINE row == [request[r] EXCEPT !.pc = "relock", !.outcome = result]
<1>2. result \in Results /\ (result = "confirmed" => candidate = "member")
  BY <1>1 DEF Classified, Results
<1>3. result = "confirmed" => posts["accept_join"] = 1
  BY <1>2 DEF IInv, MembersWereAccepted
<1>4. row \in Request /\ row.pc = "relock" /\ row.outcome = result
  <2> DEFINE moved == [request[r] EXCEPT !.pc = "relock"]
  <2>1. request[r] \in Request /\ moved \in Request
    BY RowOf DEF Request
  <2>2. row = [moved EXCEPT !.outcome = result]
    BY <2>1 DEF Request
  <2>3. row \in Request
    <3> HIDE DEF row, moved
    <3> QED BY <1>2, <2>1, <2>2 DEF Request
  <2>4. row.pc = "relock" /\ row.outcome = result
    BY <2>1 DEF Request
  <2> QED BY <2>3, <2>4
<1>5. QuietRow(row)
  <2> HIDE DEF row
  <2> QED BY <1>2, <1>3, <1>4 DEF QuietRow, RequestSound, Acting
<1> QED BY <1>1, <1>5 DEF ReadMembership, MovesQuietly, Update

-----------------------------------------------------------------------------
(* Claims and results of the execution *)

LEMMA ExecSteps ==
  ASSUME IInv, NEW r \in Requests,
         ReserveRotationJoinIntent(r) \/ ClaimRotationJoinExecution(r) \/ FinishStage(r)
  PROVE  QuietStep(r)
<1> USE DEF Update, GoTo, At
<1>0. /\ request[r] \in Request /\ RequestSound(request[r])
      /\ request[r].outcome = "confirmed" => posts["accept_join"] = 1
  BY RowOf
<1>1. exec \in ExecRow /\ StagesMarked /\ cred' = cred /\ evidence' = evidence
  BY DEF IInv, TypeOK, ReserveRotationJoinIntent, ClaimRotationJoinExecution, FinishStage
<1>2. CredKept /\ EvidenceKept
  BY <1>1 DEF IInv, TypeOK, GrantsMarked, CredKept, EvidenceKept
<1>3. CASE ReserveRotationJoinIntent(r)
  <2>1. ExecKept
    BY <1>1, <1>3 DEF ReserveRotationJoinIntent, ExecKept, ExecRow, States, StagesMarked
  <2> DEFINE row == [request[r] EXCEPT !.pc = "claim"]
  <2>2. QuietRow(row)
    BY <1>0 DEF QuietRow, Request, RequestSound, Acting
  <2> QED BY <1>2, <1>3, <2>1, <2>2 DEF ReserveRotationJoinIntent, QuietStep
<1>4. CASE ClaimRotationJoinExecution(r)
  <2>1. exec.epoch + 1 \in 0..MaxEpoch
    BY <1>1, <1>4, Numbers DEF ClaimRotationJoinExecution, ExecRow
  <2>2. ExecKept
    <3> DEFINE state == IF ReconcileOnly THEN "reconcile_required" ELSE "ready"
    <3>1. exec' = [Claimed(exec) EXCEPT !.state = state]
      BY <1>4 DEF ClaimRotationJoinExecution
    <3>2. /\ Claimed(exec) \in ExecRow /\ Claimed(exec).count = exec.count
          /\ state \in {"reconcile_required", "ready"}
      BY <1>1, <2>1 DEF Claimed, ExecRow
    <3>3. exec' \in ExecRow /\ exec'.count = exec.count /\ exec'.state = state
      BY <3>1, <3>2 DEF ExecRow, States
    <3>4. state = "ready" => exec.count["request_join"] = 0
      BY <1>1 DEF ReconcileOnly, StagesMarked, Stages
    <3> QED BY <3>2, <3>3, <3>4 DEF ExecKept
  <2> DEFINE row == [request[r] EXCEPT !.pc = "gate", !.epoch = exec.epoch + 1]
  <2>3. QuietRow(row)
    <3>1. row \in Request /\ row.pc = "gate" /\ row.outcome = request[r].outcome
      BY <1>0, <2>1 DEF Request
    <3> HIDE DEF row
    <3> QED BY <1>0, <3>1 DEF QuietRow, RequestSound, Acting
  <2>4. \E q : QuietRow(q) /\ request' = [request EXCEPT ![r] = q]
    BY <1>4, <2>3, IdleQuiet DEF ClaimRotationJoinExecution
  <2> QED BY <1>2, <1>4, <2>2, <2>4 DEF ClaimRotationJoinExecution, QuietStep
<1>5. CASE FinishStage(r)
  <2> DEFINE goesOn == request[r].stage = "request_join" /\ request[r].outcome = "succeeded"
  <2>1. CASE goesOn
    <3>1. ExecKept
      BY <1>1, <1>5, <2>1 DEF FinishStage, ExecKept, ExecRow, States, StagesMarked, Started
    <3> DEFINE row == [request[r] EXCEPT !.pc = "admit", !.stage = "accept_join",
                                         !.outcome = "none"]
    <3>2. QuietRow(row)
      <4> DEFINE moved == [request[r] EXCEPT !.pc = "admit"]
                 staged == [moved EXCEPT !.stage = "accept_join"]
      <4>1. row = [staged EXCEPT !.outcome = "none"]
        BY <1>0 DEF Request
      <4>2. moved \in Request
        BY <1>0 DEF Request
      <4>3. staged \in Request
        BY <4>2 DEF Request, Stages
      <4>4. row \in Request
        <5> HIDE DEF row, staged
        <5> QED BY <4>1, <4>3 DEF Request, Results
      <4>5. row.pc = "admit" /\ row.outcome = "none"
        BY <1>0 DEF Request
      <4> HIDE DEF row
      <4> QED BY <4>4, <4>5 DEF QuietRow, RequestSound, Acting
    <3> QED BY <1>2, <1>5, <2>1, <3>1, <3>2 DEF FinishStage, QuietStep
  <2>2. CASE ~goesOn
    <3>1. ExecKept
      BY <1>1, <1>5, <2>2 DEF FinishStage, ExecKept, ExecRow, States, StagesMarked, Started
    <3> QED BY <1>2, <1>5, <2>2, <3>1, IdleQuiet, LeaveQuiet DEF FinishStage, QuietStep, Return
  <2> QED BY <2>1, <2>2
<1> QED BY <1>3, <1>4, <1>5

LEMMA PersistQuiet ==
  ASSUME IInv, NEW r \in Requests, PersistEvidence(r)
  PROVE  QuietStep(r)
<1>0. request[r] \in Request /\ request[r].outcome \in Results
      /\ (request[r].outcome = "confirmed" => posts["accept_join"] = 1)
  BY RowOf DEF PersistEvidence, At, RequestSound
<1>1. EvidenceKept
  BY <1>0 DEF PersistEvidence, EvidenceKept, Results
<1>2. ExecKept
  BY DEF IInv, TypeOK, PersistEvidence, ExecKept, ExecRow, StagesMarked
<1>3. CredKept
  BY DEF IInv, TypeOK, PersistEvidence, CredKept, CredRow, GrantsMarked
<1> QED BY <1>1, <1>2, <1>3, IdleQuiet, LeaveQuiet DEF PersistEvidence, QuietStep, Return

-----------------------------------------------------------------------------
(* Claims, reviews and releases of the credentials *)

\* What a release or a review leaves of the credentials.
Softened(row) ==
  /\ row \in CredRow
  /\ row.started = cred.started /\ row.saved = cred.saved
  /\ row.published = cred.published /\ row.row = cred.row
  /\ row.leased => cred.leased
  /\ cred.published => row.review = cred.review

LEMMA SoftenedKept ==
  ASSUME IInv, Softened(cred')
  PROVE  CredKept
BY DEF IInv, GrantsMarked, Softened, CredKept

LEMMA ReleasedSoft ==
  ASSUME NEW r, NEW row, Softened(row)
  PROVE  Softened(ReleasedBy(r, row))
BY DEF Softened, ReleasedBy, CredRow

LEMMA CredSoft ==
  ASSUME IInv
  PROVE  Softened(cred)
BY DEF IInv, TypeOK, Softened

\* Nobody reviews what is published.
LEMMA ReviewQuiet ==
  ASSUME IInv, NEW r \in Requests, NEW kind \in Kinds, Review(r, kind), ~cred.published,
         UNCHANGED <<lost, personal, journals, platform, history>>
  PROVE  QuietStep(r)
<1>1. Softened([cred EXCEPT !.review = @ \cup {kind}]) /\ Softened(cred)
  BY CredSoft DEF Softened, CredRow
<1>2. Softened(IF Local(r) THEN [cred EXCEPT !.review = @ \cup {kind}] ELSE cred)
  BY <1>1
<1>3. Softened(cred')
  BY <1>2, ReleasedSoft DEF Review
<1>4. ExecKept /\ EvidenceKept
  BY DEF IInv, TypeOK, StagesMarked, ExecKept, EvidenceKept, journals
<1> QED BY <1>3, <1>4, SoftenedKept, IdleQuiet, LeaveQuiet
        DEF Review, QuietStep, Return, journals

\* A request with a marked grant finds the generation unpublished.
LEMMA GrantingUnpublished ==
  ASSUME IInv, NEW r \in Requests, request[r].pc \in {"grant", "post", "granted"}
  PROVE  request[r].kind \in Kinds /\ ~cred.published
<1>1. request[r].kind \in Kinds
  BY DEF IInv, RequestsSound, RequestSound
<1>2. request[r].kind \notin cred.saved
  BY <1>1 DEF IInv, GrantsOwnMarker, Granting
<1> QED BY <1>1, <1>2 DEF IInv, PublicationComplete

LEMMA CredSteps ==
  ASSUME IInv, NEW r \in Requests,
         ClaimCredentials(r) \/ Decide(r) \/ ReviewGrant(r) \/ Abandon(r)
  PROVE  QuietStep(r)
<1>0. /\ request[r] \in Request /\ RequestSound(request[r])
      /\ request[r].outcome = "confirmed" => posts["accept_join"] = 1
      /\ personal \in 0..MaxGeneration /\ cred \in CredRow
  BY RowOf DEF IInv, TypeOK
<1>1. ExecKept /\ EvidenceKept
  BY DEF IInv, TypeOK, StagesMarked, ExecKept, EvidenceKept, journals,
         ClaimCredentials, Decide, ReviewGrant, Abandon
<1>2. CASE ClaimCredentials(r)
  <2>1. cred.epoch + 1 \in 0..MaxEpoch
    BY <1>0, <1>2, Numbers DEF ClaimCredentials, CredRow
  <2>2. CredKept
    BY <1>0, <1>2, <2>1 DEF ClaimCredentials, CredKept, CredRow, Claimed
  <2> DEFINE row == [request[r] EXCEPT !.pc = "proof", !.epoch = cred.epoch + 1,
                                       !.pinned = personal]
  <2>3. QuietRow(row)
    <3> DEFINE claimed == [request[r] EXCEPT !.epoch = cred.epoch + 1]
    <3>1. claimed \in Request /\ claimed.outcome = request[r].outcome
      BY <1>0, <2>1 DEF Request
    <3>2. row = [claimed EXCEPT !.pc = "proof", !.pinned = personal]
      BY <1>0 DEF Request
    <3> HIDE DEF claimed, row
    <3> QED BY <1>0, <3>1, <3>2, PinnedQuiet
  <2> QED BY <1>1, <1>2, <2>2, <2>3 DEF ClaimCredentials, QuietStep, Update, journals
<1>3. CASE Decide(r)
  <2>1. CASE cred.published /\ cred' = ReleasedBy(r, cred) /\ Return(r)
    BY <1>1, <1>3, <2>1, CredSoft, ReleasedSoft, SoftenedKept, IdleQuiet, LeaveQuiet
    DEF Decide, QuietStep, Return, journals
  <2>2. CASE ~cred.published /\ SavedUnusable(r)
    BY <1>0, <1>3, <2>2, ReviewQuiet DEF Decide, SavedUnusable, CredRow
  <2>3. CASE ~cred.published /\ Review(r, NextKind)
    BY <1>3, <2>3, ReviewQuiet DEF Decide, NextKind, Kinds
  <2>4. CASE /\ UNCHANGED <<cred, gate>>
             /\ Update(r, [request[r] EXCEPT !.pc = "proof", !.kind =
                  IF Unsaved = {} THEN "both" ELSE NextKind])
    <3> DEFINE row == [request[r] EXCEPT !.pc = "proof", !.kind =
                         IF Unsaved = {} THEN "both" ELSE NextKind]
    <3>1. row \in Request /\ row.pc = "proof" /\ row.outcome = request[r].outcome
      <4> DEFINE moved == [request[r] EXCEPT !.pc = "proof"]
                 kind == IF Unsaved = {} THEN "both" ELSE NextKind
      <4>1. moved \in Request /\ row = [moved EXCEPT !.kind = kind]
        BY <1>0 DEF Request
      <4>2. kind \in Kinds \cup {"none", "both"}
        BY DEF NextKind, Kinds
      <4>3. row.pc = "proof" /\ row.outcome = request[r].outcome
        BY <1>0 DEF Request
      <4> HIDE DEF moved, kind, row
      <4> QED BY <4>1, <4>2, <4>3 DEF Request
    <3>2. QuietRow(row)
      <4> HIDE DEF row
      <4> QED BY <1>0, <3>1 DEF QuietRow, RequestSound, Acting
    <3> QED BY <1>1, <1>3, <2>4, <3>2, CredSoft, SoftenedKept
            DEF Decide, QuietStep, journals
  <2> QED BY <1>3, <2>1, <2>2, <2>3, <2>4 DEF Decide
<1>4. CASE ReviewGrant(r)
  BY <1>4, GrantingUnpublished, ReviewQuiet DEF ReviewGrant
<1>5. CASE Abandon(r)
  BY <1>1, <1>5, CredSoft, ReleasedSoft, SoftenedKept, IdleQuiet, LeaveQuiet
  DEF Abandon, QuietStep, Return, journals
<1> QED BY <1>2, <1>3, <1>4, <1>5

-----------------------------------------------------------------------------
(* Steps of a request between a marker and its answer *)

\* What every step of r leaves of the others.
LEMMA RowChange ==
  ASSUME IInv, NEW r \in Requests, NEW row \in Request, RequestSound(row), Update(r, row)
  PROVE  /\ request' \in [Requests -> Request]
         /\ RequestsSound'
         /\ request'[r] = row
         /\ \A q \in Requests : q # r => request'[q] = request[q]
BY DEF IInv, TypeOK, RequestsSound, Update

LEMMA NothingConfirmed ==
  ASSUME IInv, NEW r \in Requests, NEW row, row.outcome = request[r].outcome,
         request \in [Requests -> Request], Update(r, row),
         posts'["accept_join"] = 1 \/ UNCHANGED <<posts, evidence, candidate, inflight>>
  PROVE  MembersWereAccepted'
BY DEF IInv, MembersWereAccepted, Update

\* A request that stands before its POST or grant, with the Workspace its own.
LEMMA CheckKeeps ==
  ASSUME IInv, NEW r \in Requests, CheckDispatch(r)
  PROVE  IInv' /\ StepEffects
<1> DEFINE row == [request[r] EXCEPT !.pc = "send"]
<1>1. /\ TypeOK /\ request \in [Requests -> Request] /\ request[r].pc = "check"
      /\ Update(r, row) /\ Gated(r) /\ Admitted
      /\ UNCHANGED <<lost, personal, journals, cred, gate, platform, history>>
  BY DEF IInv, TypeOK, CheckDispatch, At, GoTo
<1>2. row \in Request /\ RequestSound(row) /\ row.outcome = request[r].outcome
      /\ row.stage = request[r].stage /\ row.gated = request[r].gated /\ row.pc = "send"
  BY <1>1 DEF Request, RequestSound
<1>3. /\ request' \in [Requests -> Request] /\ RequestsSound' /\ request'[r] = row
      /\ \A q \in Requests : q # r => request'[q] = request[q]
  BY <1>1, <1>2, RowChange
<1>4. TypeOK' /\ StagesMarked' /\ PostsMarked' /\ GrantsMarked' /\ PublicationComplete'
  BY <1>1, <1>3 DEF IInv, TypeOK, StagesMarked, PostsMarked, GrantsMarked,
                    PublicationComplete, journals, platform, history
<1>5. DispatchesOwnMark'
  <2>1. \A q \in Requests, s \in Stages : Dispatching(q, s)' <=> Dispatching(q, s)
    <3> HIDE DEF row
    <3> QED BY <1>1, <1>2, <1>3 DEF Dispatching
  <2> QED BY <1>1, <2>1 DEF IInv, DispatchesOwnMark, journals, history
<1>6. GrantsOwnMarker'
  <2>1. \A q \in Requests, k \in Kinds :
          Granting(q, k)' => Granting(q, k) /\ request'[q] = request[q]
    BY <1>2, <1>3 DEF Granting
  <2> QED BY <1>1, <2>1 DEF IInv, GrantsOwnMarker, history
<1>7. MembersWereAccepted'
  BY <1>1, <1>2, NothingConfirmed DEF journals, platform, history
<1>8. SendersHoldGate'
  BY <1>1, <1>2, <1>3 DEF IInv, SendersHoldGate, Admitted, journals
<1>9. StepEffects
  BY <1>1, NoEffectStep DEF TypeOK, CredRow, NoEffect, journals, history
<1> QED BY <1>3, <1>4, <1>5, <1>6, <1>7, <1>8, <1>9 DEF IInv

LEMMA MarkKeeps ==
  ASSUME IInv, NEW r \in Requests, MarkStage(r)
  PROVE  IInv' /\ StepEffects
<1> DEFINE stage == request[r].stage
           row == [request[r] EXCEPT !.pc = "check"]
<1>1. /\ TypeOK /\ request \in [Requests -> Request] /\ exec \in ExecRow /\ stage \in Stages
      /\ Update(r, row) /\ gate = r /\ request[r].pinned = personal
      /\ exec' = Marked(exec, stage)
      /\ exec.state = IF stage = "request_join" THEN "ready" ELSE "request_succeeded"
      /\ UNCHANGED <<lost, personal, evidence, cred, gate, platform, history>>
  BY DEF IInv, TypeOK, Request, MarkStage, GoTo, Gated
<1>2. row \in Request /\ RequestSound(row) /\ row.outcome = request[r].outcome
      /\ row.stage = stage /\ row.pc = "check"
  BY <1>1 DEF Request, RequestSound
<1>3. /\ request' \in [Requests -> Request] /\ RequestsSound' /\ request'[r] = row
      /\ \A q \in Requests : q # r => request'[q] = request[q]
  BY <1>1, <1>2, RowChange
<1>4. exec.count[stage] = 0 /\ StagesMarked
  BY <1>1 DEF IInv, StagesMarked, Stages
<1>5. /\ exec' \in ExecRow /\ exec'.count = [exec.count EXCEPT ![stage] = 1]
      /\ exec'.state = Started(stage)
  <2> DEFINE counted == [exec.count EXCEPT ![stage] = exec.count[stage] + 1]
  <2>1. exec.count \in [Stages -> Nat] /\ Started(stage) \in States
    BY <1>1 DEF ExecRow, States, Started
  <2>2. counted = [exec.count EXCEPT ![stage] = 1] /\ counted \in [Stages -> Nat]
    BY <1>1, <1>4, <2>1
  <2>3. exec' = [exec EXCEPT !.state = Started(stage), !.count = counted]
    BY <1>1 DEF Marked, ExecRow
  <2> HIDE DEF counted
  <2> QED BY <1>1, <2>1, <2>2, <2>3 DEF ExecRow
<1>6. binding' = personal /\ binding' \in 0..MaxGeneration
  <2>1. stage # "request_join" => stage = "accept_join"
    BY <1>1 DEF Stages
  <2> QED BY <1>1, <2>1, RowOf DEF MarkStage, Bound
<1>7. TypeOK'
  BY <1>1, <1>3, <1>5, <1>6 DEF TypeOK, platform, history
<1>8. StagesMarked'
  BY <1>1, <1>4, <1>5 DEF StagesMarked, Stages, ExecRow, Started
<1>9. PostsMarked' /\ posts[stage] = 0
  BY <1>1, <1>4, <1>5 DEF IInv, PostsMarked, ExecRow, history
<1>10. DispatchesOwnMark'
  <2>1. \A q \in Requests, s \in Stages : Dispatching(q, s)' =>
          \/ q = r /\ s = stage
          \/ q # r /\ Dispatching(q, s) /\ s # stage
    <3> SUFFICES ASSUME NEW q \in Requests, NEW s \in Stages, Dispatching(q, s)'
                 PROVE  (q = r /\ s = stage) \/ (q # r /\ Dispatching(q, s) /\ s # stage)
      OBVIOUS
    <3>1. CASE q = r
      BY <1>2, <1>3, <3>1 DEF Dispatching
    <3>2. CASE q # r
      <4>1. Dispatching(q, s)
        BY <1>3, <3>2 DEF Dispatching
      <4> QED BY <1>4, <3>2, <4>1 DEF IInv, DispatchesOwnMark
    <3> QED BY <3>1, <3>2
  <2> QED BY <1>1, <1>5, <1>9, <2>1 DEF IInv, DispatchesOwnMark, ExecRow, history
<1>11. GrantsOwnMarker' /\ GrantsMarked' /\ PublicationComplete'
  <2>1. \A q \in Requests, k \in Kinds :
          Granting(q, k)' => Granting(q, k) /\ request'[q] = request[q]
    BY <1>2, <1>3 DEF Granting
  <2> QED BY <1>1, <2>1 DEF IInv, GrantsOwnMarker, GrantsMarked, PublicationComplete, history
<1>12. MembersWereAccepted'
  BY <1>1, <1>2, NothingConfirmed DEF platform, history
<1>13. SendersHoldGate'
  <2> SUFFICES ASSUME NEW q \in Requests, request'[q].gated,
                      request'[q].pc \in {"check", "send", "post"}
               PROVE  gate = q /\ binding' = personal
                      /\ (request'[q].pc # "check" => lost \subseteq {"age"})
    BY <1>1 DEF SendersHoldGate
  <2>1. q = r
    BY <1>1, <1>3 DEF IInv, SendersHoldGate
  <2> QED BY <1>1, <1>2, <1>3, <1>6, <2>1
<1>14. StepEffects
  <2>1. exec.state # "none" /\ exec'.state # "none"
    BY <1>1, <1>5 DEF Started
  <2>2. CASE stage = "request_join"
    <3>1. RequestEffect!Mark
      BY <1>1, <1>4, <1>5, <2>1, <2>2 DEF RequestEffect!Mark, ExecRow, Stages, history
    <3>2. AcceptEffect!vars' = AcceptEffect!vars
      BY <1>1, <1>5, <2>1, <2>2 DEF AcceptEffect!vars, ExecRow, Stages, history
    <3> QED BY <1>1, <3>1, <3>2 DEF StepEffects, RequestEffect!Next, WebEffect!vars,
                                    OAuthEffect!vars, history
  <2>3. CASE stage = "accept_join"
    <3>1. AcceptEffect!Mark
      BY <1>1, <1>4, <1>5, <2>1, <2>3 DEF AcceptEffect!Mark, ExecRow, Stages, history
    <3>2. RequestEffect!vars' = RequestEffect!vars
      BY <1>1, <1>5, <2>1, <2>3 DEF RequestEffect!vars, ExecRow, Stages, history
    <3> QED BY <1>1, <3>1, <3>2 DEF StepEffects, AcceptEffect!Next, WebEffect!vars,
                                    OAuthEffect!vars, history
  <2> QED BY <1>1, <2>2, <2>3 DEF Stages
<1> QED BY <1>3, <1>7, <1>8, <1>9, <1>10, <1>11, <1>12, <1>13, <1>14 DEF IInv

LEMMA SendJoinKeeps ==
  ASSUME IInv, NEW r \in Requests, SendJoin(r)
  PROVE  IInv' /\ StepEffects
<1> DEFINE stage == request[r].stage
           row == [request[r] EXCEPT !.pc = "await"]
<1>1. /\ TypeOK /\ request \in [Requests -> Request] /\ stage \in Stages
      /\ posts \in [Stages -> Nat]
      /\ Update(r, row) /\ Dispatching(r, stage)
      /\ posts' = [posts EXCEPT ![stage] = @ + 1]
      /\ inflight' = inflight \cup {stage}
      /\ UNCHANGED <<lost, personal, journals, cred, gate, candidate, grants>>
  BY DEF IInv, TypeOK, Request, SendJoin, GoTo, At, Dispatching
<1>2. row \in Request /\ RequestSound(row) /\ row.outcome = request[r].outcome
      /\ row.pc = "await"
  BY <1>1 DEF Request, RequestSound
<1>3. /\ request' \in [Requests -> Request] /\ RequestsSound' /\ request'[r] = row
      /\ \A q \in Requests : q # r => request'[q] = request[q]
  BY <1>1, <1>2, RowChange
<1>4. exec.count[stage] = 1 /\ posts[stage] = 0
      /\ \A q \in Requests : Dispatching(q, stage) => q = r
  BY <1>1 DEF IInv, DispatchesOwnMark
<1>5. posts' = [posts EXCEPT ![stage] = 1] /\ posts' \in [Stages -> Nat]
  BY <1>1, <1>4
<1>6. TypeOK' /\ StagesMarked' /\ GrantsMarked'
  BY <1>1, <1>3, <1>5 DEF IInv, TypeOK, StagesMarked, GrantsMarked, journals
<1>7. PostsMarked'
  BY <1>1, <1>4, <1>5 DEF IInv, PostsMarked, journals
<1>8. DispatchesOwnMark'
  <2>1. \A q \in Requests, s \in Stages : Dispatching(q, s)' =>
          q # r /\ Dispatching(q, s) /\ s # stage
    BY <1>2, <1>3, <1>4 DEF Dispatching
  <2> QED BY <1>1, <1>5, <2>1 DEF IInv, DispatchesOwnMark, journals
<1>9. GrantsOwnMarker'
  <2>1. \A q \in Requests, k \in Kinds :
          Granting(q, k)' => Granting(q, k) /\ request'[q] = request[q]
    BY <1>2, <1>3 DEF Granting
  <2> QED BY <1>1, <2>1 DEF IInv, GrantsOwnMarker
<1>10. MembersWereAccepted'
  <2>1. CASE stage = "accept_join"
    BY <1>1, <1>5, <2>1 DEF MembersWereAccepted
  <2>2. CASE stage # "accept_join"
    <3>1. UNCHANGED <<candidate, evidence>> /\ stage = "request_join"
      BY <1>1, <2>2 DEF Stages, journals
    <3>2. posts'["accept_join"] = posts["accept_join"]
      BY <1>1, <1>5, <3>1
    <3>3. \A q \in Requests : request'[q].outcome # request[q].outcome =>
            request'[q].outcome # "confirmed"
      BY <1>2, <1>3
    <3>4. "accept_join" \in inflight' => "accept_join" \in inflight
      BY <1>1, <3>1
    <3> QED BY <3>1, <3>2, <3>3, <3>4 DEF IInv, MembersWereAccepted
  <2> QED BY <2>1, <2>2
<1>11. SendersHoldGate'
  BY <1>1, <1>2, <1>3 DEF IInv, SendersHoldGate, journals
<1>12. PublicationComplete'
  BY <1>1, <1>4, <1>5 DEF IInv, PublicationComplete
<1>13. StepEffects
  <2>1. CASE stage = "request_join"
    <3>1. RequestEffect!Send
      BY <1>1, <1>4, <1>5, <2>1 DEF RequestEffect!Send, journals
    <3>2. AcceptEffect!vars' = AcceptEffect!vars
      BY <1>1, <1>5, <2>1 DEF AcceptEffect!vars, Stages, journals
    <3> QED BY <1>1, <3>1, <3>2 DEF StepEffects, RequestEffect!Next, WebEffect!vars,
                                    OAuthEffect!vars
  <2>2. CASE stage = "accept_join"
    <3>1. AcceptEffect!Send
      BY <1>1, <1>4, <1>5, <2>2 DEF AcceptEffect!Send, journals
    <3>2. RequestEffect!vars' = RequestEffect!vars
      BY <1>1, <1>5, <2>2 DEF RequestEffect!vars, Stages, journals
    <3> QED BY <1>1, <3>1, <3>2 DEF StepEffects, AcceptEffect!Next, WebEffect!vars,
                                    OAuthEffect!vars
  <2> QED BY <1>1, <2>1, <2>2 DEF Stages
<1> QED BY <1>3, <1>6, <1>7, <1>8, <1>9, <1>10, <1>11, <1>12, <1>13 DEF IInv

-----------------------------------------------------------------------------
(* Grants *)

LEMMA StartGrantKeeps ==
  ASSUME IInv, NEW r \in Requests, StartGrant(r)
  PROVE  IInv' /\ StepEffects
<1> DEFINE kind == request[r].kind
           row == [request[r] EXCEPT !.pc = "grant"]
<1>1. /\ TypeOK /\ request \in [Requests -> Request] /\ cred \in CredRow
      /\ kind \in Kinds /\ kind \notin cred.started
      /\ Update(r, row) /\ gate \in {r, NoRequest} /\ gate' = r /\ cred.leased
      /\ cred' = [cred EXCEPT !.started = @ \cup {kind}]
      /\ UNCHANGED <<lost, personal, journals, platform, history>>
  BY DEF IInv, TypeOK, RequestsSound, RequestSound, StartGrant, At, GoTo, Local, Lockable,
         HoldsCredentials, StageOrdered
<1>2. row \in Request /\ RequestSound(row) /\ row.outcome = request[r].outcome
      /\ row.kind = kind /\ row.pc = "grant"
  BY <1>1 DEF Request, RequestSound
<1>3. /\ request' \in [Requests -> Request] /\ RequestsSound' /\ request'[r] = row
      /\ \A q \in Requests : q # r => request'[q] = request[q]
  BY <1>1, <1>2, RowChange
<1>4. /\ cred' \in CredRow /\ cred'.started = cred.started \cup {kind}
      /\ cred'.saved = cred.saved /\ cred'.review = cred.review
      /\ cred'.published = cred.published /\ cred'.row = cred.row
      /\ cred'.leased = cred.leased
  BY <1>1 DEF CredRow
<1>5. grants[kind] = 0 /\ kind \notin cred.saved /\ cred.row
  BY <1>1 DEF IInv, GrantsMarked
<1>6. TypeOK' /\ StagesMarked' /\ PostsMarked' /\ PublicationComplete' /\ GrantsMarked'
  BY <1>1, <1>3, <1>4, <1>5 DEF IInv, TypeOK, StagesMarked, PostsMarked, PublicationComplete,
                                GrantsMarked, journals, platform, history
<1>7. DispatchesOwnMark'
  <2>1. \A q \in Requests, s \in Stages : Dispatching(q, s)' => Dispatching(q, s)
    BY <1>2, <1>3 DEF Dispatching
  <2> QED BY <1>1, <2>1 DEF IInv, DispatchesOwnMark, journals, history
<1>8. GrantsOwnMarker'
  <2> SUFFICES ASSUME NEW q \in Requests, NEW k \in Kinds, Granting(q, k)'
               PROVE  /\ k \in cred'.started /\ k \notin cred'.saved
                      /\ grants[k] = IF request'[q].pc = "granted" THEN 1 ELSE 0
                      /\ \A p \in Requests : Granting(p, k)' => p = q
    BY <1>1 DEF GrantsOwnMarker, history
  <2>1. \A p \in Requests : Granting(p, kind) => FALSE
    BY <1>1 DEF IInv, GrantsOwnMarker
  <2>2. \A p \in Requests : p # r /\ Granting(p, k)' =>
          Granting(p, k) /\ request'[p] = request[p]
    BY <1>3 DEF Granting
  <2>3. CASE q = r
    <3>1. k = kind
      BY <1>2, <1>3, <2>3 DEF Granting
    <3> QED BY <1>2, <1>3, <1>4, <1>5, <2>1, <2>2, <2>3, <3>1
  <2>4. CASE q # r
    <3>1. Granting(q, k) /\ request'[q] = request[q] /\ k # kind
      BY <2>1, <2>2, <2>4
    <3>2. ~Granting(r, k)'
      BY <1>2, <1>3, <3>1 DEF Granting
    <3>3. /\ k \in cred.started /\ k \notin cred.saved
          /\ grants[k] = IF request[q].pc = "granted" THEN 1 ELSE 0
          /\ \A p \in Requests : Granting(p, k) => p = q
      BY <3>1 DEF IInv, GrantsOwnMarker
    <3> QED BY <1>4, <2>2, <3>1, <3>2, <3>3
  <2> QED BY <2>3, <2>4
<1>9. MembersWereAccepted'
  BY <1>1, <1>2, NothingConfirmed DEF journals, platform, history
<1>10. SendersHoldGate'
  BY <1>1, <1>2, <1>3, Numbers DEF IInv, SendersHoldGate, journals
<1>11. StepEffects
  <2>1. CASE kind = "web"
    <3>1. WebEffect!Mark
      BY <1>1, <1>4, <1>5, <2>1 DEF WebEffect!Mark, history
    <3>2. OAuthEffect!vars' = OAuthEffect!vars
      BY <1>1, <1>4, <2>1 DEF OAuthEffect!vars, history
    <3> QED BY <1>1, <3>1, <3>2 DEF StepEffects, WebEffect!Next, RequestEffect!vars,
                                    AcceptEffect!vars, journals, history
  <2>2. CASE kind = "oauth"
    <3>1. OAuthEffect!Mark
      BY <1>1, <1>4, <1>5, <2>2 DEF OAuthEffect!Mark, history
    <3>2. WebEffect!vars' = WebEffect!vars
      BY <1>1, <1>4, <2>2 DEF WebEffect!vars, history
    <3> QED BY <1>1, <3>1, <3>2 DEF StepEffects, OAuthEffect!Next, RequestEffect!vars,
                                    AcceptEffect!vars, journals, history
  <2> QED BY <1>1, <2>1, <2>2 DEF Kinds
<1> QED BY <1>3, <1>6, <1>7, <1>8, <1>9, <1>10, <1>11 DEF IInv

LEMMA AdmissionKeeps ==
  ASSUME IInv, NEW r \in Requests, ActionAdmission(r)
  PROVE  IInv' /\ StepEffects
<1> DEFINE row == [request[r] EXCEPT !.pc = "post"]
<1>1. /\ TypeOK /\ request \in [Requests -> Request] /\ request[r].pc = "grant"
      /\ Update(r, row) /\ gate \in {r, NoRequest} /\ gate' = r /\ Bound /\ Admitted
      /\ UNCHANGED <<lost, personal, journals, cred, platform, history>>
  BY DEF IInv, TypeOK, ActionAdmission, At, GoTo, Local, Lockable, HoldsCredentials,
         CredentialAuthority
<1>2. row \in Request /\ RequestSound(row) /\ row.outcome = request[r].outcome
      /\ row.kind = request[r].kind /\ row.pc = "post"
  BY <1>1, RowOf DEF Request, RequestSound
<1>3. /\ request' \in [Requests -> Request] /\ RequestsSound' /\ request'[r] = row
      /\ \A q \in Requests : q # r => request'[q] = request[q]
  BY <1>1, <1>2, RowChange
<1>4. TypeOK' /\ StagesMarked' /\ PostsMarked' /\ GrantsMarked' /\ PublicationComplete'
  BY <1>1, <1>3 DEF IInv, TypeOK, StagesMarked, PostsMarked, GrantsMarked,
                    PublicationComplete, journals, platform, history
<1>5. DispatchesOwnMark'
  <2>1. \A q \in Requests, s \in Stages : Dispatching(q, s)' => Dispatching(q, s)
    BY <1>2, <1>3 DEF Dispatching
  <2> QED BY <1>1, <2>1 DEF IInv, DispatchesOwnMark, journals, history
<1>6. GrantsOwnMarker'
  <2>1. \A q \in Requests, k \in Kinds : Granting(q, k)' =>
          Granting(q, k) /\ (request'[q].pc = "granted" <=> request[q].pc = "granted")
    BY <1>1, <1>2, <1>3 DEF Granting
  <2> QED BY <1>1, <2>1 DEF IInv, GrantsOwnMarker, history
<1>7. MembersWereAccepted'
  BY <1>1, <1>2, NothingConfirmed DEF journals, platform, history
<1>8. SendersHoldGate'
  BY <1>1, <1>2, <1>3, Numbers DEF IInv, SendersHoldGate, Bound, Admitted, journals
<1>9. StepEffects
  BY <1>1, NoEffectStep DEF TypeOK, CredRow, NoEffect, journals, history
<1> QED BY <1>3, <1>4, <1>5, <1>6, <1>7, <1>8, <1>9 DEF IInv

LEMMA SendGrantKeeps ==
  ASSUME IInv, NEW r \in Requests, SendGrant(r)
  PROVE  IInv' /\ StepEffects
<1> DEFINE kind == request[r].kind
           row == [request[r] EXCEPT !.pc = "granted"]
<1>1. /\ TypeOK /\ request \in [Requests -> Request] /\ request[r].pc = "post"
      /\ kind \in Kinds /\ grants \in [Kinds -> Nat] /\ Update(r, row) /\ Granting(r, kind)
      /\ grants' = [grants EXCEPT ![kind] = @ + 1]
      /\ UNCHANGED <<lost, personal, journals, cred, gate, platform, posts>>
  BY DEF IInv, TypeOK, RequestsSound, RequestSound, SendGrant, At, GoTo, Granting
<1>2. row \in Request /\ RequestSound(row) /\ row.outcome = request[r].outcome
      /\ row.kind = kind /\ row.pc = "granted"
  BY <1>1 DEF Request, RequestSound
<1>3. /\ request' \in [Requests -> Request] /\ RequestsSound' /\ request'[r] = row
      /\ \A q \in Requests : q # r => request'[q] = request[q]
  BY <1>1, <1>2, RowChange
<1>4. /\ kind \in cred.started /\ kind \notin cred.saved /\ grants[kind] = 0
      /\ \A q \in Requests : Granting(q, kind) => q = r
  BY <1>1 DEF IInv, GrantsOwnMarker
<1>5. grants' = [grants EXCEPT ![kind] = 1] /\ grants' \in [Kinds -> Nat]
  BY <1>1, <1>4
<1>6. TypeOK' /\ StagesMarked' /\ PostsMarked'
  BY <1>1, <1>3, <1>5 DEF IInv, TypeOK, StagesMarked, PostsMarked, journals, platform
<1>7. GrantsMarked' /\ PublicationComplete'
  BY <1>1, <1>4, <1>5 DEF IInv, GrantsMarked, PublicationComplete
<1>8. DispatchesOwnMark'
  <2>1. \A q \in Requests, s \in Stages : Dispatching(q, s)' => Dispatching(q, s)
    BY <1>2, <1>3 DEF Dispatching
  <2> QED BY <1>1, <2>1 DEF IInv, DispatchesOwnMark, journals
<1>9. GrantsOwnMarker'
  <2> SUFFICES ASSUME NEW q \in Requests, NEW k \in Kinds, Granting(q, k)'
               PROVE  /\ k \in cred.started /\ k \notin cred.saved
                      /\ grants'[k] = IF request'[q].pc = "granted" THEN 1 ELSE 0
                      /\ \A p \in Requests : Granting(p, k)' => p = q
    BY <1>1 DEF GrantsOwnMarker
  <2>1. \A p \in Requests : Granting(p, k)' => Granting(p, k)
    BY <1>1, <1>2, <1>3 DEF Granting
  <2>2. /\ k \in cred.started /\ k \notin cred.saved
        /\ grants[k] = IF request[q].pc = "granted" THEN 1 ELSE 0
        /\ \A p \in Requests : Granting(p, k) => p = q
    BY <2>1 DEF IInv, GrantsOwnMarker
  <2>3. CASE q = r
    <3>1. k = kind
      BY <1>2, <1>3, <2>3 DEF Granting
    <3> QED BY <1>1, <1>2, <1>3, <1>5, <2>1, <2>2, <2>3, <3>1
  <2>4. CASE q # r
    <3>1. k # kind /\ request'[q] = request[q]
      BY <1>3, <1>4, <2>1, <2>4
    <3> QED BY <1>1, <1>5, <2>1, <2>2, <3>1
  <2> QED BY <2>3, <2>4
<1>10. MembersWereAccepted'
  BY <1>1, <1>2, NothingConfirmed DEF journals, platform
<1>11. SendersHoldGate'
  BY <1>1, <1>2, <1>3 DEF IInv, SendersHoldGate, journals
<1>12. StepEffects
  <2>1. CASE kind = "web"
    <3>1. WebEffect!Send
      BY <1>1, <1>4, <1>5, <2>1 DEF WebEffect!Send
    <3>2. OAuthEffect!vars' = OAuthEffect!vars
      BY <1>1, <1>5, <2>1 DEF OAuthEffect!vars, Kinds
    <3> QED BY <1>1, <3>1, <3>2 DEF StepEffects, WebEffect!Next, RequestEffect!vars,
                                    AcceptEffect!vars, journals
  <2>2. CASE kind = "oauth"
    <3>1. OAuthEffect!Send
      BY <1>1, <1>4, <1>5, <2>2 DEF OAuthEffect!Send
    <3>2. WebEffect!vars' = WebEffect!vars
      BY <1>1, <1>5, <2>2 DEF WebEffect!vars, Kinds
    <3> QED BY <1>1, <3>1, <3>2 DEF StepEffects, OAuthEffect!Next, RequestEffect!vars,
                                    AcceptEffect!vars, journals
  <2> QED BY <1>1, <2>1, <2>2 DEF Kinds
<1> QED BY <1>3, <1>6, <1>7, <1>8, <1>9, <1>10, <1>11, <1>12 DEF IInv

LEMMA SaveKeeps ==
  ASSUME IInv, NEW r \in Requests, SaveComponent(r)
  PROVE  IInv' /\ StepEffects
<1> DEFINE kind == request[r].kind
           row == [request[r] EXCEPT !.pc = "decide", !.kind = "none"]
<1>1. /\ TypeOK /\ request \in [Requests -> Request] /\ request[r].pc = "granted"
      /\ kind \in Kinds /\ cred \in CredRow /\ Granting(r, kind)
      /\ Update(r, row) /\ gate \in {r, NoRequest} /\ gate' = r
      /\ cred' = [cred EXCEPT !.saved = @ \cup {kind}]
      /\ UNCHANGED <<lost, personal, journals, platform, history>>
  BY DEF IInv, TypeOK, RequestsSound, RequestSound, SaveComponent, At, Granting, Local,
         Lockable, WithComponent
<1>2. row \in Request /\ RequestSound(row) /\ row.outcome = request[r].outcome
      /\ row.pc = "decide"
  <2>1. row = [[request[r] EXCEPT !.pc = "decide"] EXCEPT !.kind = "none"]
    BY <1>1 DEF Request
  <2>2. [request[r] EXCEPT !.pc = "decide"] \in Request
    BY <1>1 DEF Request
  <2>3. row \in Request
    BY <2>1, <2>2 DEF Request
  <2>4. row.outcome = request[r].outcome /\ row.pc = "decide"
    BY <1>1 DEF Request
  <2> HIDE DEF row
  <2> QED BY <2>3, <2>4 DEF RequestSound
<1>3. /\ request' \in [Requests -> Request] /\ RequestsSound' /\ request'[r] = row
      /\ \A q \in Requests : q # r => request'[q] = request[q]
  <2> HIDE DEF row
  <2> QED BY <1>1, <1>2, RowChange
<1>4. /\ cred' \in CredRow /\ cred'.saved = cred.saved \cup {kind}
      /\ cred'.started = cred.started /\ cred'.review = cred.review
      /\ cred'.published = cred.published /\ cred'.row = cred.row
      /\ cred'.leased = cred.leased
  BY <1>1 DEF CredRow
<1>5. /\ kind \in cred.started /\ grants[kind] = 1
      /\ \A q \in Requests : Granting(q, kind) => q = r
  BY <1>1 DEF IInv, GrantsOwnMarker
<1>6. TypeOK' /\ StagesMarked' /\ PostsMarked'
  BY <1>1, <1>3, <1>4 DEF IInv, TypeOK, StagesMarked, PostsMarked, journals, platform, history
<1>7. GrantsMarked' /\ PublicationComplete'
  <2>1. ~cred.published
    BY <1>1, GrantingUnpublished
  <2> QED BY <1>1, <1>4, <1>5, <2>1 DEF IInv, GrantsMarked, PublicationComplete, history
<1>8. DispatchesOwnMark'
  <2>1. \A q \in Requests, s \in Stages : Dispatching(q, s)' => Dispatching(q, s)
    BY <1>2, <1>3 DEF Dispatching
  <2> QED BY <1>1, <2>1 DEF IInv, DispatchesOwnMark, journals, history
<1>9. GrantsOwnMarker'
  <2>1. \A q \in Requests, k \in Kinds : Granting(q, k)' =>
          Granting(q, k) /\ request'[q] = request[q] /\ q # r
    BY <1>2, <1>3 DEF Granting
  <2>2. \A q \in Requests, k \in Kinds : Granting(q, k)' => k # kind
    BY <1>5, <2>1
  <2> QED BY <1>1, <1>4, <2>1, <2>2 DEF IInv, GrantsOwnMarker, history
<1>10. MembersWereAccepted'
  BY <1>1, <1>2, NothingConfirmed DEF journals, platform, history
<1>11. SendersHoldGate'
  <2>1. \A q \in Requests : request'[q].pc \in {"check", "send", "post"} =>
          q # r /\ request'[q] = request[q]
    BY <1>2, <1>3
  <2>2. \A q \in Requests : gate = q => q = r
    BY <1>1, Numbers
  <2> QED BY <1>1, <2>1, <2>2 DEF IInv, SendersHoldGate, journals
<1>12. StepEffects
  BY <1>1, <1>4, NoEffectStep DEF CredRow, NoEffect, journals, history
<1> QED BY <1>3, <1>6, <1>7, <1>8, <1>9, <1>10, <1>11, <1>12 DEF IInv

LEMMA PublishKeeps ==
  ASSUME IInv, NEW r \in Requests, Publish(r)
  PROVE  IInv' /\ StepEffects
<1> DEFINE published == [cred EXCEPT !.published = TRUE]
<1>1. /\ TypeOK /\ request \in [Requests -> Request] /\ cred \in CredRow
      /\ Update(r, Idle) /\ Leave(r) /\ cred' = ReleasedBy(r, published)
      /\ cred.saved = Kinds /\ cred.review = {} /\ evidence = "confirmed"
      /\ UNCHANGED <<lost, personal, journals, platform, history>>
  BY DEF IInv, TypeOK, Publish, Return, Local, HoldsCredentials, CredentialAuthority,
         ComponentsComplete
<1>2. Idle \in Request /\ RequestSound(Idle) /\ Idle.outcome = "none" /\ Idle.pc = "idle"
  BY IdleQuiet DEF QuietRow, Idle
<1>3. /\ request' \in [Requests -> Request] /\ RequestsSound' /\ request'[r] = Idle
      /\ \A q \in Requests : q # r => request'[q] = request[q]
  BY <1>1, <1>2, RowChange
<1>4. /\ cred' \in CredRow /\ cred'.saved = Kinds /\ cred'.review = {}
      /\ cred'.started = cred.started /\ cred'.row = cred.row /\ (cred'.leased => cred.leased)
  BY <1>1 DEF CredRow, ReleasedBy
<1>5. posts["accept_join"] = 1 /\ \A k \in Kinds : grants[k] = 1
  BY <1>1 DEF IInv, MembersWereAccepted, GrantsMarked
<1>6. \A q \in Requests, k \in Kinds : ~Granting(q, k)
  BY <1>1 DEF IInv, GrantsOwnMarker
<1>7. gate' \in {gate, NoRequest} /\ \A q \in Requests : gate = q /\ q # r => gate' = gate
  BY <1>1 DEF Leave
<1>8. TypeOK'
  BY <1>1, <1>3, <1>4, <1>7 DEF TypeOK, journals, platform, history
<1>9. StagesMarked' /\ PostsMarked' /\ PublicationComplete' /\ MembersWereAccepted'
  BY <1>1, <1>4, <1>5 DEF IInv, StagesMarked, PostsMarked, PublicationComplete,
                          MembersWereAccepted, journals, history
<1>10. GrantsMarked'
  BY <1>1, <1>4, <1>5 DEF IInv, GrantsMarked, history
<1>11. DispatchesOwnMark' /\ GrantsOwnMarker'
  <2>1. \A q \in Requests, s \in Stages : Dispatching(q, s)' => Dispatching(q, s)
    BY <1>2, <1>3 DEF Dispatching
  <2>2. \A q \in Requests, k \in Kinds : ~Granting(q, k)'
    BY <1>2, <1>3, <1>6 DEF Granting
  <2> QED BY <1>1, <2>1, <2>2 DEF IInv, DispatchesOwnMark, GrantsOwnMarker, journals, history
<1>12. SendersHoldGate'
  BY <1>1, <1>2, <1>3, <1>7 DEF IInv, SendersHoldGate, journals
<1>13. StepEffects
  BY <1>1, <1>4, NoEffectStep DEF CredRow, NoEffect, journals, history
<1> QED BY <1>3, <1>8, <1>9, <1>10, <1>11, <1>12, <1>13 DEF IInv

-----------------------------------------------------------------------------
(* Lost sessions, reads of the adapter and the environment *)

\* Nothing changes but the gate and whether the session of r lives.
LEMMA SessionKeeps ==
  ASSUME IInv, NEW r \in Requests, GrantReads(r) \/ GateLost(r)
  PROVE  IInv' /\ StepEffects
<1>1. /\ TypeOK /\ request \in [Requests -> Request] /\ Leave(r)
      /\ UNCHANGED <<lost, personal, journals, cred, platform, history>>
  BY DEF IInv, TypeOK, GrantReads, GateLost
<1>2. gate' \in {gate, NoRequest} /\ \A q \in Requests : gate = q /\ q # r => gate' = gate
  BY <1>1 DEF Leave
<1>3. /\ request' \in [Requests -> Request] /\ RequestsSound'
      /\ \A q \in Requests : /\ q # r => request'[q] = request[q]
                             /\ request'[q].pc = request[q].pc
                             /\ request'[q].kind = request[q].kind
                             /\ request'[q].stage = request[q].stage
                             /\ request'[q].outcome = request[q].outcome
      /\ request'[r].gated => request'[r].pc = "grant"
  <2>1. CASE GrantReads(r)
    BY <1>1, <2>1 DEF IInv, RequestsSound, GrantReads, At
  <2>2. CASE GateLost(r)
    <3> DEFINE row == [request[r] EXCEPT !.gated = FALSE]
    <3>1. row \in Request /\ RequestSound(row) /\ Update(r, row)
      <4>1. row \in Request /\ Update(r, row)
        <5>1. request[r] \in Request /\ FALSE \in BOOLEAN
          BY <1>1
        <5>2. row \in Request
          BY <5>1 DEF Request
        <5> QED BY <2>2, <5>2 DEF GateLost
      <4>2. /\ row.pc = request[r].pc /\ row.outcome = request[r].outcome
            /\ row.kind = request[r].kind
        BY <1>1 DEF Request
      <4> QED BY <4>1, <4>2, RowOf DEF RequestSound
    <3>2. /\ request' \in [Requests -> Request] /\ RequestsSound' /\ request'[r] = row
          /\ \A q \in Requests : q # r => request'[q] = request[q]
      BY <3>1, RowChange
    <3>3. /\ row.pc = request[r].pc /\ row.kind = request[r].kind
          /\ row.stage = request[r].stage /\ row.outcome = request[r].outcome
          /\ row.gated = FALSE
      BY <1>1 DEF Request
    <3> QED BY <3>2, <3>3
  <2> QED BY <2>1, <2>2
<1>4. TypeOK'
  BY <1>1, <1>2, <1>3 DEF TypeOK, journals, platform, history
<1>5. StagesMarked' /\ PostsMarked' /\ PublicationComplete' /\ GrantsMarked'
  BY <1>1 DEF IInv, StagesMarked, PostsMarked, PublicationComplete, GrantsMarked,
              journals, history
<1>6. MembersWereAccepted'
  BY <1>1, <1>3 DEF IInv, MembersWereAccepted, journals, platform, history
<1>7. DispatchesOwnMark'
  <2>1. \A q \in Requests, s \in Stages : Dispatching(q, s)' <=> Dispatching(q, s)
    BY <1>3 DEF Dispatching
  <2> QED BY <1>1, <2>1 DEF IInv, DispatchesOwnMark, journals, history
<1>8. GrantsOwnMarker'
  <2>1. \A q \in Requests, k \in Kinds : Granting(q, k)' <=> Granting(q, k)
    BY <1>3 DEF Granting
  <2> QED BY <1>1, <1>3, <2>1 DEF IInv, GrantsOwnMarker, history
<1>9. SendersHoldGate'
  BY <1>1, <1>2, <1>3 DEF IInv, SendersHoldGate, journals
<1>10. StepEffects
  BY <1>1, NoEffectStep DEF TypeOK, CredRow, NoEffect, journals, history
<1> QED BY <1>3, <1>4, <1>5, <1>6, <1>7, <1>8, <1>9, <1>10 DEF IInv

\* Whoever is about to send stops the Owner and the sources.
LEMMA EnvironmentKeeps ==
  ASSUME IInv, Environment
  PROVE  IInv' /\ StepEffects
<1>1. TypeOK /\ request' = request /\ gate' = gate /\ binding' = binding
      /\ evidence' = evidence /\ history' = history
  BY DEF IInv, Environment, LeaseExpires, AuthorizationAges, StopRemoval, SourceChanges,
         PersonalRefresh, CandidateGone, PlatformHandles, journals, history
<1>2. /\ exec' \in ExecRow /\ exec'.count = exec.count /\ exec'.state = exec.state
      /\ cred' \in CredRow /\ cred'.started = cred.started /\ cred'.saved = cred.saved
      /\ cred'.review = cred.review /\ cred'.published = cred.published
      /\ cred'.row = cred.row /\ (cred'.leased => cred.leased)
  BY DEF IInv, TypeOK, ExecRow, CredRow, Environment, LeaseExpires, AuthorizationAges,
         StopRemoval, SourceChanges, PersonalRefresh, CandidateGone, PlatformHandles,
         journals
<1>3. /\ personal' \in 1..MaxGeneration /\ lost' \subseteq Reasons
      /\ candidate' \in {"invited", "requested", "member", "gone"}
      /\ inflight' \subseteq inflight
      /\ candidate' = "member" => candidate = "member" \/ "accept_join" \in inflight
  <2>1. ASSUME NEW stage \in Stages, PlatformHandles(stage) PROVE <1>3
    BY <1>1, <2>1 DEF TypeOK, PlatformHandles
  <2>2. CASE PersonalRefresh
    BY <1>1, <2>2, Numbers DEF TypeOK, PersonalRefresh, platform
  <2>3. CASE LeaseExpires \/ AuthorizationAges \/ StopRemoval \/ SourceChanges \/ CandidateGone
    BY <1>1, <2>3 DEF TypeOK, Reasons, LeaseExpires, AuthorizationAges, StopRemoval,
                      SourceChanges, CandidateGone, platform
  <2> QED BY <2>1, <2>2, <2>3 DEF Environment
<1>4. \/ personal' = personal /\ lost' \subseteq lost \cup {"age"}
      \/ gate = NoRequest
      \/ \A q \in Requests : ~request[q].gated
  BY DEF Environment, LeaseExpires, AuthorizationAges, StopRemoval, SourceChanges,
         PersonalRefresh, CandidateGone, PlatformHandles, ActionLocksFree
<1>5. TypeOK'
  BY <1>1, <1>2, <1>3 DEF TypeOK, history
<1>6. /\ RequestsSound' /\ StagesMarked' /\ PostsMarked' /\ DispatchesOwnMark'
      /\ GrantsOwnMarker' /\ GrantsMarked' /\ PublicationComplete'
  BY <1>1, <1>2 DEF IInv, RequestsSound, StagesMarked, PostsMarked, DispatchesOwnMark,
                    Dispatching, GrantsOwnMarker, Granting, GrantsMarked,
                    PublicationComplete, history
<1>7. MembersWereAccepted'
  BY <1>1, <1>3 DEF IInv, MembersWereAccepted, history
<1>8. SendersHoldGate'
  BY <1>1, <1>4, Numbers DEF IInv, SendersHoldGate
<1>9. StepEffects
  BY <1>1, <1>2, NoEffectStep DEF CredRow, NoEffect, history
<1> QED BY <1>5, <1>6, <1>7, <1>8, <1>9 DEF IInv

LEMMA StutterKeeps ==
  ASSUME IInv, UNCHANGED vars
  PROVE  IInv' /\ StepEffects
<1>1. UNCHANGED <<lost, personal, exec, binding, evidence, cred, request, gate, candidate,
                  inflight, posts, grants>>
  BY DEF vars, journals, platform, history
<1>2. StepEffects
  BY <1>1, NoEffectStep DEF IInv, TypeOK, CredRow, NoEffect
<1>3. /\ TypeOK' /\ RequestsSound' /\ StagesMarked' /\ PostsMarked' /\ DispatchesOwnMark'
      /\ GrantsOwnMarker' /\ GrantsMarked' /\ MembersWereAccepted' /\ SendersHoldGate'
      /\ PublicationComplete'
  BY <1>1 DEF IInv, TypeOK, RequestsSound, StagesMarked, PostsMarked, DispatchesOwnMark,
              Dispatching, GrantsOwnMarker, Granting, GrantsMarked, MembersWereAccepted,
              SendersHoldGate, PublicationComplete
<1> QED BY <1>2, <1>3 DEF IInv

-----------------------------------------------------------------------------
(* The theorems *)

LEMMA InitInvariant == Init => IInv
<1> SUFFICES ASSUME Init PROVE IInv
  OBVIOUS
<1>1. /\ Idle \in Request /\ RequestSound(Idle) /\ Idle.pc = "idle"
      /\ Idle.outcome = "none" /\ request = [r \in Requests |-> Idle]
  BY IdleQuiet DEF QuietRow, Idle, Init
<1>2. TypeOK
  BY <1>1, Numbers DEF Init, TypeOK, ExecRow, States, CredRow, Results, Kinds, Stages, Reasons
<1>3. RequestsSound /\ DispatchesOwnMark /\ GrantsOwnMarker /\ SendersHoldGate
  BY <1>1 DEF RequestsSound, DispatchesOwnMark, Dispatching, GrantsOwnMarker, Granting,
              SendersHoldGate
<1>4. StagesMarked /\ PostsMarked /\ GrantsMarked /\ PublicationComplete
  BY DEF Init, StagesMarked, PostsMarked, GrantsMarked, PublicationComplete, Stages, Kinds
<1>5. MembersWereAccepted
  BY <1>1 DEF Init, MembersWereAccepted
<1> QED BY <1>2, <1>3, <1>4, <1>5 DEF IInv

LEMMA StepKeeps == IInv /\ [Next]_vars => IInv' /\ StepEffects
<1> SUFFICES ASSUME IInv, [Next]_vars PROVE IInv' /\ StepEffects
  OBVIOUS
<1>1. CASE UNCHANGED vars
  BY <1>1, StutterKeeps
<1>2. CASE Environment
  BY <1>2, EnvironmentKeeps
<1>3. ASSUME NEW r \in Requests, RequestNext(r) PROVE IInv' /\ StepEffects
  <2>1. CASE \/ \E act \in {"run", "verify", "save", "repair"} : JoinAction(r, act)
             \/ LockRemovalGate(r) \/ Admit(r) \/ JoinNotSent(r) \/ JoinAnswered(r)
             \/ ObserveAdmission(r) \/ Relock(r) \/ RemoteProof(r) \/ Prove(r)
    BY <2>1, MoveSteps, MovesAreQuiet, QuietKeeps
  <2>2. CASE ReadMembership(r)
    BY <2>2, ReadQuiet, MovesAreQuiet, QuietKeeps
  <2>3. CASE ReserveRotationJoinIntent(r) \/ ClaimRotationJoinExecution(r) \/ FinishStage(r)
    BY <2>3, ExecSteps, QuietKeeps
  <2>4. CASE PersistEvidence(r)
    BY <2>4, PersistQuiet, QuietKeeps
  <2>5. CASE ClaimCredentials(r) \/ Decide(r) \/ ReviewGrant(r) \/ Abandon(r)
    BY <2>5, CredSteps, QuietKeeps
  <2>6. CASE GrantReads(r) \/ GateLost(r)
    BY <2>6, SessionKeeps
  <2> QED BY <1>3, <2>1, <2>2, <2>3, <2>4, <2>5, <2>6, CheckKeeps, MarkKeeps, SendJoinKeeps,
             StartGrantKeeps, AdmissionKeeps, SendGrantKeeps, SaveKeeps, PublishKeeps
          DEF RequestNext
<1> QED BY <1>1, <1>2, <1>3 DEF Next

\* The invariant of the journals, the requests, the platform and the histories
\* of one candidate join.
THEOREM Invariance == Spec => []IInv
<1>1. IInv /\ [Next]_vars => IInv'
  BY StepKeeps
<1> QED BY <1>1, InitInvariant, PTL DEF Spec

\* Every row of the join's journals, requests and histories holds a value its
\* CHECK constraints allow.
THEOREM TypeCorrect == Spec => []TypeOK
<1>1. IInv => TypeOK
  BY DEF IInv
<1> QED BY <1>1, Invariance, PTL

\* A published generation has both components, each from the only grant of its
\* kind, and a join whose accept stage was sent exactly once
\* (publishJoinCredentials).
THEOREM PublishedIsComplete == Spec => []PublicationComplete
<1>1. IInv => PublicationComplete
  BY DEF IInv
<1> QED BY <1>1, Invariance, PTL

\* The detailed journals implement the abstract promise four times over: no POST
\* of the join and no grant is ever repeated (rotation_join_execution.go,
\* rotation_join_credentials.go).
THEOREM EffectsAreSentOnce == Spec => EffectsOnce
<1>1. Init => /\ RequestEffect!Init /\ AcceptEffect!Init
              /\ WebEffect!Init /\ OAuthEffect!Init
  BY DEF Init, RequestEffect!Init, AcceptEffect!Init, WebEffect!Init, OAuthEffect!Init,
         Stages, Kinds
<1>2. IInv /\ [Next]_vars =>
        /\ [RequestEffect!Next]_(RequestEffect!vars)
        /\ [AcceptEffect!Next]_(AcceptEffect!vars)
        /\ [WebEffect!Next]_(WebEffect!vars)
        /\ [OAuthEffect!Next]_(OAuthEffect!vars)
  BY StepKeeps DEF StepEffects
<1> QED BY <1>1, <1>2, Invariance, PTL
        DEF Spec, EffectsOnce, RequestEffect!Spec, AcceptEffect!Spec, WebEffect!Spec,
            OAuthEffect!Spec

\* While its session lives a request sends only under the original authority and
\* with the Personal session bound to the first POST (checkJoinDispatchGate,
\* joinAdmissionLocal).
THEOREM EffectsNeedAuthority == Spec => EffectsUnderAuthority
<1>1. IInv /\ [Next]_vars =>
        [\A r \in Requests : Acts(r) /\ request[r].gated =>
           lost \subseteq {"age"} /\ binding = personal]_vars
  BY DEF IInv, SendersHoldGate, Acts, At
<1> QED BY <1>1, Invariance, PTL DEF Spec, EffectsUnderAuthority
=============================================================================
