----------------------------- MODULE DeviceWire -----------------------------
(***************************************************************************)
(* What a cell and one of its user's computers say to each other for       *)
(* remote computer use (crates/foundation/device-protocol/src/lib.rs), and *)
(* the connections they say it on.                                         *)
(*                                                                         *)
(* A connection carries frames in order, each way, until an end gives it   *)
(* up; an end may give it up at any time, and what it has not read by then *)
(* is lost.  Pings, screens and screenshots are left out: they change      *)
(* nothing but when an end gives up.                                       *)
(***************************************************************************)
EXTENDS Integers, Sequences

CONSTANTS
  MaxConns,     \* how often the device dials
  MaxSessions,  \* how many sessions are asked for
  MaxActions,   \* how many actions are sent
  Outbox        \* OUTBOX: frames that may wait for the device

ASSUME DeviceWireAssumption ==
  MaxConns \in Nat /\ MaxSessions \in Nat /\ MaxActions \in Nat /\ Outbox \in Nat

Conns == 1..MaxConns
SessionIds == 1..MaxSessions
ActionIds == 1..MaxActions

\* No connection, session or action.
None == 0

VARIABLES
  serve,  \* the cell's end of each connection: the task that serves it
  link,   \* the connection the device is on
  down,   \* frames on their way to the device, by connection
  up      \* frames on their way to the cell, by connection

wire == <<down, up>>

\* CellFrame.
Welcome == [type |-> "welcome"]
SessionRequest(s) == [type |-> "request", session |-> s]
ActionFrame(a, s) == [type |-> "action", action |-> a, session |-> s]

\* DeviceFrame; a result is "ok", "refused" before anything was done, or
\* "failed" once it was.
SessionGranted(s) == [type |-> "granted", session |-> s]
SessionDenied(s) == [type |-> "denied", session |-> s]
Result(a, verdict) == [type |-> "result", action |-> a, verdict |-> verdict]

\* Either way; the device says why it ended the session.
SessionEnd(s, why) == [type |-> "end", session |-> s, why |-> why]

CellFrames ==
  {Welcome} \cup {SessionRequest(s) : s \in SessionIds}
    \cup {ActionFrame(a, s) : a \in ActionIds, s \in SessionIds}
    \cup {SessionEnd(s, "cell") : s \in SessionIds \cup {None}}

DeviceFrames ==
  {SessionGranted(s) : s \in SessionIds} \cup {SessionDenied(s) : s \in SessionIds}
    \cup {Result(a, v) : a \in ActionIds, v \in {"ok", "refused", "failed"}}
    \cup {SessionEnd(s, why) : s \in SessionIds, why \in {"checked", "killed"}}

Full(c) == Len(down[c]) >= Outbox

\* What is sent to an end that gave the connection up is lost.
SendDown(c, frame) ==
  down' = IF link = c THEN [down EXCEPT ![c] = Append(@, frame)] ELSE down

SendUp(c, frame) ==
  up' = IF serve[c] # "closed" THEN [up EXCEPT ![c] = Append(@, frame)] ELSE up

\* mpsc::Sender::try_send, whose failure the caller ignores.
TrySend(c, frame) == IF Full(c) THEN UNCHANGED down ELSE SendDown(c, frame)
=============================================================================
