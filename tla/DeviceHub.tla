----------------------------- MODULE DeviceHub -----------------------------
(***************************************************************************)
(* The cell's side of remote computer use: the hub of live connections     *)
(* (crates/domains/devices/src/hub.rs), the loop that serves one           *)
(* connection (crates/domains/devices/src/connection.rs) and the routes    *)
(* that accept and revoke a device (surface/api/src/routes/devices.rs).    *)
(* One device of one tenant: the hub keeps devices apart.                  *)
(*                                                                         *)
(* A caller asks for a session or runs an action and waits for the answer  *)
(* on a channel of its own, without the hub's lock: by the time it takes   *)
(* the lock again the connection it asked on may be another one.           *)
(***************************************************************************)
EXTENDS DeviceWire, FiniteSets

CONSTANT Callers  \* the tool calls in progress

VARIABLES
  dropped,    \* connections whose sender the hub has dropped
  revoked,    \* the device's row says it is revoked
  live,       \* Hub::devices: the current connection,
  session,    \*   its session,
  expired,    \*   whether that session's time is over,
  asking,     \*   the session its user is being asked about,
  pending,    \*   and the action it is working on
  caller,     \* what each caller waits for
  answer,     \* what the caller's oneshot channel holds
  asked, sent,  \* sessions and actions used so far
  outcome     \* history: what the caller of each action was told

entry == <<live, session, expired, asking, pending>>
calls == <<caller, answer, asked, sent, outcome>>
hub == <<dropped, revoked, entry, calls>>

Call(state, s, a) == [state |-> state, session |-> s, action |-> a]
Idle == Call("idle", None, None)

HubInit ==
  /\ serve = [c \in Conns |-> "none"] /\ dropped = {} /\ revoked = FALSE
  /\ live = None /\ session = None /\ expired = FALSE
  /\ asking = None /\ pending = None
  /\ caller = [k \in Callers |-> Idle]
  /\ answer = [k \in Callers |-> "none"]
  /\ asked = 0 /\ sent = 0
  /\ outcome = [a \in ActionIds |-> "none"]

-----------------------------------------------------------------------------
(* Answering the callers *)

Asks(k, s) == caller[k].state = "asks" /\ caller[k].session = s /\ s # None
Acts(k, a) == caller[k].state = "acts" /\ caller[k].action = a /\ a # None

AnswerAsk(s, what) == answer' = [k \in Callers |-> IF Asks(k, s) THEN what ELSE answer[k]]
AnswerAct(a, what) == answer' = [k \in Callers |-> IF Acts(k, a) THEN what ELSE answer[k]]

\* fail_waiters, of the connection that is current.
FailWaiters ==
  answer' = [k \in Callers |->
               IF Asks(k, asking) \/ Acts(k, pending) THEN "gone" ELSE answer[k]]

\* The current connection is c from here on, with nothing on it.
NowLive(c) ==
  /\ live' = c /\ session' = None /\ expired' = FALSE
  /\ asking' = None /\ pending' = None

-----------------------------------------------------------------------------
(* Connections *)

\* Hub::connect, for a connection that said hello; it replaces the current
\* one.  The loop's first frame is the welcome.
Connect(c) ==
  /\ serve[c] = "accepted"
  /\ serve' = [serve EXCEPT ![c] = "serving"]
  /\ dropped' = dropped \cup ({live} \ {None})
  /\ FailWaiters
  /\ NowLive(c)
  /\ SendDown(c, Welcome)
  /\ UNCHANGED <<up, revoked, caller, asked, sent, outcome>>

Disconnect_Any(c) ==
  /\ IF live # None
     THEN FailWaiters /\ NowLive(None)
     ELSE UNCHANGED <<answer, entry>>
  /\ UNCHANGED <<caller, asked, sent, outcome>>

\* Hub::disconnect: a connection that was replaced leaves the hub as it is.
Disconnect(c) ==
  /\ IF live = c
     THEN FailWaiters /\ NowLive(None)
     ELSE UNCHANGED <<answer, entry>>
  /\ UNCHANGED <<caller, asked, sent, outcome>>

\* The serving task ends: the peer or the socket is gone, the device was
\* silent or spoke wrongly, or the hub dropped the connection.  One that has
\* not said hello never reached the hub.
ServeEnds(c) ==
  /\ \/ serve[c] = "accepted" /\ UNCHANGED <<entry, calls>>
     \/ serve[c] = "serving" /\ Disconnect(c)
  /\ serve' = [serve EXCEPT ![c] = "closed"]
  /\ up' = [up EXCEPT ![c] = <<>>]
  /\ UNCHANGED <<down, dropped, revoked>>

\* revoke_device marks the row and Hub::revoke drops the connection.  Only
\* Dial reads the row, so the two are one step, and revoking a device that is
\* not connected is the device never dialling again.
Revoke ==
  /\ live # None
  /\ revoked' = TRUE
  /\ TrySend(live, SessionEnd(session, "cell"))
  /\ dropped' = dropped \cup {live}
  /\ FailWaiters
  /\ NowLive(None)
  /\ UNCHANGED <<up, serve, caller, asked, sent, outcome>>

-----------------------------------------------------------------------------
(* Hub::on_frame *)

OnGranted_AnyAnswer(s) ==
  IF asking # None
  THEN AnswerAsk(asking, "granted") /\ asking' = None
  ELSE UNCHANGED <<answer, asking>>

OnGranted(s) ==
  IF asking = s
  THEN AnswerAsk(s, "granted") /\ asking' = None
  ELSE UNCHANGED <<answer, asking>>

OnDenied(s) ==
  IF asking = s
  THEN AnswerAsk(s, "denied") /\ asking' = None
  ELSE UNCHANGED <<answer, asking>>

OnResult(a, verdict) ==
  IF pending = a
  THEN AnswerAct(a, verdict) /\ pending' = None
  ELSE UNCHANGED <<answer, pending>>

OnSessionEnd(s, why) ==
  IF session = s
  THEN /\ session' = None /\ expired' = FALSE
       /\ AnswerAct(pending, why) /\ pending' = None
  ELSE UNCHANGED <<session, expired, answer, pending>>

OnFrame(frame) ==
  \/ frame.type = "granted" /\ OnGranted(frame.session)
       /\ UNCHANGED <<session, expired, pending>>
  \/ frame.type = "denied" /\ OnDenied(frame.session)
       /\ UNCHANGED <<session, expired, pending>>
  \/ frame.type = "result" /\ OnResult(frame.action, frame.verdict)
       /\ UNCHANGED <<session, expired, asking>>
  \/ frame.type = "end" /\ OnSessionEnd(frame.session, frame.why)
       /\ UNCHANGED asking

\* The loop reads a frame; the hub drops those of a replaced connection.
ServeReads(c) ==
  /\ serve[c] = "serving" /\ up[c] # <<>>
  /\ up' = [up EXCEPT ![c] = Tail(@)]
  /\ IF live = c
     THEN OnFrame(Head(up[c])) /\ UNCHANGED live
     ELSE UNCHANGED <<answer, entry>>
  /\ UNCHANGED <<down, serve, dropped, revoked, caller, asked, sent, outcome>>

-----------------------------------------------------------------------------
(* Hub::start_session *)

IsIdle(k) == caller[k].state = "idle"

Returns(k) ==
  /\ caller' = [caller EXCEPT ![k] = Idle]
  /\ answer' = [answer EXCEPT ![k] = "none"]

\* A session that is there is reused, and changes nothing.  One whose time
\* is over is forgotten, and the user is asked, unless they are being asked
\* already or the device does not read.
AskSession(k) ==
  /\ IsIdle(k) /\ live # None /\ (session = None \/ expired)
  /\ asked < MaxSessions
  /\ session' = None /\ expired' = FALSE
  /\ IF asking # None \/ Full(live)
     THEN UNCHANGED <<down, asking, caller, asked>>
     ELSE /\ asked' = asked + 1
          /\ TrySend(live, SessionRequest(asked'))
          /\ asking' = asked'
          /\ caller' = [caller EXCEPT ![k] = Call("asks", asked', None)]
  /\ UNCHANGED <<up, serve, dropped, revoked, live, pending, answer, sent, outcome>>

\* The answer came: a grant is set on the connection that is current now.
SessionAnswered(k) ==
  /\ caller[k].state = "asks" /\ answer[k] # "none"
  /\ IF answer[k] = "granted" /\ live # None
     THEN session' = caller[k].session /\ expired' = FALSE
     ELSE UNCHANGED <<session, expired>>
  /\ Returns(k)
  /\ UNCHANGED <<wire, serve, dropped, revoked, live, asking, pending, asked, sent, outcome>>

\* consent_timeout: the channel is given up before the lock is taken.
ConsentTimesOut(k) ==
  /\ caller[k].state = "asks" /\ answer[k] = "none"
  /\ caller' = [caller EXCEPT ![k].state = "asked too long"]
  /\ UNCHANGED <<wire, serve, dropped, revoked, entry, answer, asked, sent, outcome>>

GiveUpAsking_Any(k) ==
  /\ caller[k].state = "asked too long"
  /\ IF live # None
     THEN asking' = None /\ TrySend(live, SessionEnd(caller[k].session, "cell"))
     ELSE UNCHANGED <<asking, down>>
  /\ Returns(k)
  /\ UNCHANGED <<up, serve, dropped, revoked, live, session, expired, pending, asked, sent,
                 outcome>>

\* It then withdraws its own question, if that is still the open one, and
\* tells the device on the connection that is current now.
GiveUpAsking(k) ==
  /\ caller[k].state = "asked too long"
  /\ IF live # None
     THEN /\ asking' = IF asking = caller[k].session THEN None ELSE asking
          /\ TrySend(live, SessionEnd(caller[k].session, "cell"))
     ELSE UNCHANGED <<asking, down>>
  /\ Returns(k)
  /\ UNCHANGED <<up, serve, dropped, revoked, live, session, expired, pending, asked,
                 sent, outcome>>

-----------------------------------------------------------------------------
(* Hub::act and Hub::end_session, for a caller that was given the session;  *)
(* one that was given another is refused and changes nothing                *)

Holds(k) == IsIdle(k) /\ session # None

ActExpired(k) ==
  /\ Holds(k) /\ expired
  /\ session' = None /\ expired' = FALSE
  /\ UNCHANGED <<wire, serve, dropped, revoked, live, asking, pending, calls>>

\* One action in flight, and none for a device that does not read.
Act(k) ==
  /\ Holds(k) /\ ~expired
  /\ pending = None /\ ~Full(live)
  /\ sent < MaxActions
  /\ sent' = sent + 1
  /\ TrySend(live, ActionFrame(sent', session))
  /\ pending' = sent'
  /\ caller' = [caller EXCEPT ![k] = Call("acts", session, sent')]
  /\ UNCHANGED <<up, serve, dropped, revoked, live, session, expired, asking, answer, asked, outcome>>

ActAnswered(k) ==
  /\ caller[k].state = "acts" /\ answer[k] # "none"
  /\ outcome' = [outcome EXCEPT ![caller[k].action] = answer[k]]
  /\ Returns(k)
  /\ UNCHANGED <<wire, serve, dropped, revoked, entry, asked, sent>>

\* action_timeout, in two steps as above.
ActTimesOut(k) ==
  /\ caller[k].state = "acts" /\ answer[k] = "none"
  /\ caller' = [caller EXCEPT ![k].state = "acted too long"]
  /\ UNCHANGED <<wire, serve, dropped, revoked, entry, answer, asked, sent, outcome>>

GiveUpActing(k) ==
  /\ caller[k].state = "acted too long"
  /\ pending' = IF pending = caller[k].action THEN None ELSE pending
  /\ outcome' = [outcome EXCEPT ![caller[k].action] = "timeout"]
  /\ Returns(k)
  /\ UNCHANGED <<wire, serve, dropped, revoked, live, session, expired, asking, asked,
                 sent>>

EndSession(k) ==
  /\ Holds(k)
  /\ session' = None /\ expired' = FALSE
  /\ TrySend(live, SessionEnd(session, "cell"))
  /\ UNCHANGED <<up, serve, dropped, revoked, live, asking, pending, calls>>

\* The session's time passes.
SessionExpires ==
  /\ session # None /\ ~expired
  /\ expired' = TRUE
  /\ UNCHANGED <<wire, serve, dropped, revoked, live, session, asking, pending, calls>>

-----------------------------------------------------------------------------

Calls(k) ==
  \/ AskSession(k) \/ SessionAnswered(k) \/ ConsentTimesOut(k)
  \/ GiveUpAsking(k) \/ ActExpired(k) \/ Act(k) \/ ActAnswered(k) \/ ActTimesOut(k)
  \/ GiveUpActing(k) \/ EndSession(k)

HubNext ==
  \/ \E c \in Conns : Connect(c) \/ ServeEnds(c) \/ ServeReads(c)
  \/ Revoke \/ SessionExpires
  \/ \E k \in Callers : Calls(k)
=============================================================================
