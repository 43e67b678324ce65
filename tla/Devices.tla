------------------------------- MODULE Devices -------------------------------
(***************************************************************************)
(* Remote computer use: a cell's hub and one of its user's computers,      *)
(* joined by the connections the computer dials.                           *)
(***************************************************************************)
EXTENDS DeviceHub, DeviceAgent

vars == <<serve, link, wire, hub, agent>>

Init ==
  /\ HubInit /\ AgentInit
  /\ down = [c \in Conns |-> <<>>] /\ up = [c \in Conns |-> <<>>]

\* The device dials; connect_device refuses it once its row says revoked.
Dial ==
  \E c \in Conns :
    /\ serve[c] = "none" /\ \A d \in Conns : d < c => serve[d] # "none"
    /\ ~revoked
    /\ Hello(c)
    /\ serve' = [serve EXCEPT ![c] = "accepted"]
    /\ UNCHANGED <<dropped, revoked, entry, calls>>

Next ==
  \/ Dial
  \/ HubNext /\ UNCHANGED <<link, agent>>
  \/ AgentNext /\ UNCHANGED <<serve, hub>>

Spec == Init /\ [][Next]_vars

-----------------------------------------------------------------------------

\* Every variable of the hub, of the agent and between them keeps its type.
TypeOK ==
  /\ down \in [Conns -> Seq(CellFrames)] /\ up \in [Conns -> Seq(DeviceFrames)]
  /\ serve \in [Conns -> {"none", "accepted", "serving", "closed"}]
  /\ dropped \subseteq Conns /\ revoked \in BOOLEAN
  /\ live \in Conns \cup {None} /\ expired \in BOOLEAN
  /\ {session, asking} \subseteq SessionIds \cup {None}
  /\ pending \in ActionIds \cup {None}
  /\ caller \in [Callers -> [state : {"idle", "asks", "asked too long", "acts",
                                      "acted too long"},
                             session : SessionIds \cup {None},
                             action : ActionIds \cup {None}]]
  /\ answer \in [Callers -> {"none", "gone", "granted", "denied", "ok", "refused", "failed",
                             "checked", "killed"}]
  /\ asked \in 0..MaxSessions /\ sent \in 0..MaxActions
  /\ outcome \in [ActionIds -> {"none", "gone", "timeout", "ok", "refused", "failed",
                                "checked", "killed"}]
  /\ link \in Conns \cup {None} /\ granted \in SessionIds \cup {None}
  /\ {welcomed, over, blocked} \subseteq BOOLEAN
  /\ request \in [SessionIds -> {"none", "start", "dialog", "allow", "orphan"}]
  /\ action \in [ActionIds -> {"none", "check", "run", "orphan"}]
  /\ work \in [ActionIds -> SessionIds \cup {None}]
  /\ answers \in Seq(DeviceFrames)
  /\ performed \in [ActionIds -> Nat]
  /\ allowed \subseteq SessionIds

\* What the agent is told of an action is what happened on the machine: one
\* reported done was done, one reported refused was not, and nothing is done
\* twice - whatever connections were replaced, and however late a result
\* comes.  No other outcome says whether the action ran: a timeout or a lost
\* connection says that it is unknown, session_ended only why the call ended.
ToldTheTruth ==
  \A a \in ActionIds :
    /\ performed[a] <= 1
    /\ outcome[a] = "ok" => performed[a] = 1
    /\ outcome[a] = "refused" => performed[a] = 0

\* Control needs the person's yes: the hub's session is one the person
\* allowed, and nothing was done to the machine in one they did not.
ControlConsented ==
  /\ session # None => session \in allowed
  /\ \A a \in ActionIds : performed[a] > 0 => work[a] \in allowed

\* A caller that is waiting, and has not been answered, is one the hub knows
\* on the current connection: a connection that ends or is replaced leaves
\* nobody waiting for their timeout (fail_waiters).
WaitersReachable ==
  \A k \in Callers : answer[k] = "none" =>
    /\ caller[k].state = "asks" => live # None /\ asking = caller[k].session
    /\ caller[k].state = "acts" => live # None /\ pending = caller[k].action

\* A connection that serves, and that the hub did not drop, is the current
\* one: a replaced connection that leaves does not take its successor along.
ServedIsLive ==
  \A c \in Conns : serve[c] = "serving" /\ c \notin dropped => live = c

\* While the kill switch blocks there is no session on the device, though a
\* dialog was open when it was pressed.
KillHolds == blocked => granted = None
=============================================================================
