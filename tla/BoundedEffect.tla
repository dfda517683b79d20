----------------------------- MODULE BoundedEffect -----------------------------
(***************************************************************************)
(* What a change of the platform that may be retried promises, whatever    *)
(* crashes, lost leases and late answers lie in between:                   *)
(*   - a request leaves only under a marker committed for it, and one      *)
(*     marker allows one request, however late its sender wakes up;        *)
(*   - markers are counted, the count is never taken back and has a limit. *)
(* So requests that left and senders that are licensed are never more than *)
(* markers, and MaxMarks bounds the requests, those of senders that lost   *)
(* their lease included.  A detailed module implements it by INSTANCE with *)
(* a refinement mapping.                                                   *)
(***************************************************************************)
EXTENDS Naturals

CONSTANTS
  MaxMarks,  \* how many markers there may be
  Senders    \* who may send

VARIABLES
  marks,     \* markers committed so far
  sent,      \* requests that left the process
  licensed   \* senders whose marker is committed and whose request has not left

vars == <<marks, sent, licensed>>

Init ==
  /\ marks = 0
  /\ sent = 0
  /\ licensed = {}

Mark(s) ==
  /\ s \notin licensed
  /\ marks < MaxMarks
  /\ marks' = marks + 1
  /\ licensed' = licensed \cup {s}
  /\ UNCHANGED sent

Send(s) ==
  /\ s \in licensed
  /\ sent' = sent + 1
  /\ licensed' = licensed \ {s}
  /\ UNCHANGED marks

\* The sender crashed or gave up between its marker and its request.
Lapse(s) ==
  /\ s \in licensed
  /\ licensed' = licensed \ {s}
  /\ UNCHANGED <<marks, sent>>

Next == \E s \in Senders : Mark(s) \/ Send(s) \/ Lapse(s)

Spec == Init /\ [][Next]_vars
=============================================================================
