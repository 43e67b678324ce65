---------------------------- MODULE DevicesProofs ----------------------------
(***************************************************************************)
(* Proofs about Devices, for any number of connections, sessions, actions  *)
(* and callers: type correctness, the kill switch, the served connection   *)
(* and the callers who wait.                                               *)
(***************************************************************************)
EXTENDS Devices, TLAPS

-----------------------------------------------------------------------------
(* Frames *)

Verdicts == {"ok", "refused", "failed"}
Reasons == {"checked", "killed"}

LEMMA CellFramesMade ==
  /\ Welcome \in CellFrames
  /\ \A s \in SessionIds : SessionRequest(s) \in CellFrames
  /\ \A s \in SessionIds \cup {None} : SessionEnd(s, "cell") \in CellFrames
  /\ \A a \in ActionIds, s \in SessionIds : ActionFrame(a, s) \in CellFrames
BY DEF CellFrames

LEMMA DeviceFramesMade ==
  /\ \A s \in SessionIds : SessionGranted(s) \in DeviceFrames
  /\ \A s \in SessionIds : SessionDenied(s) \in DeviceFrames
  /\ \A s \in SessionIds, why \in Reasons : SessionEnd(s, why) \in DeviceFrames
  /\ \A a \in ActionIds, v \in Verdicts : Result(a, v) \in DeviceFrames
BY DEF DeviceFrames, Verdicts, Reasons

LEMMA CellFrameRead ==
  ASSUME NEW f \in CellFrames
  PROVE  /\ f.type = "request" => f.session \in SessionIds
         /\ f.type = "action" => f.action \in ActionIds /\ f.session \in SessionIds
         /\ f.type = "end" => f.session \in SessionIds \cup {None}
BY DEF CellFrames, Welcome, SessionRequest, ActionFrame, SessionEnd

LEMMA DeviceFrameRead ==
  ASSUME NEW f \in DeviceFrames
  PROVE  /\ f.type = "granted" => f.session \in SessionIds
         /\ f.type = "denied" => f.session \in SessionIds
         /\ f.type = "result" => f.action \in ActionIds /\ f.verdict \in Verdicts
         /\ f.type = "end" => f.session \in SessionIds /\ f.why \in Reasons
BY DEF DeviceFrames, SessionGranted, SessionDenied, Result, SessionEnd, Verdicts, Reasons

LEMMA Ids ==
  /\ Conns \subseteq Nat /\ SessionIds \subseteq Nat /\ ActionIds \subseteq Nat
  /\ None \notin Conns /\ None \notin SessionIds /\ None \notin ActionIds
BY DeviceWireAssumption DEF Conns, SessionIds, ActionIds, None

-----------------------------------------------------------------------------
(* Types *)

CallStates == {"idle", "asks", "asked too long", "acts", "acted too long"}
CallType ==
  [state : CallStates, session : SessionIds \cup {None}, action : ActionIds \cup {None}]
Told == {"gone", "ok", "refused", "failed", "checked", "killed"}

WireType ==
  /\ down \in [Conns -> Seq(CellFrames)] /\ up \in [Conns -> Seq(DeviceFrames)]
  /\ serve \in [Conns -> {"none", "accepted", "serving", "closed"}]
  /\ link \in Conns \cup {None}

EntryType ==
  /\ dropped \subseteq Conns /\ revoked \in BOOLEAN
  /\ live \in Conns \cup {None} /\ expired \in BOOLEAN
  /\ session \in SessionIds \cup {None} /\ asking \in SessionIds \cup {None}
  /\ pending \in ActionIds \cup {None}

CallsType ==
  /\ caller \in [Callers -> CallType]
  /\ answer \in [Callers -> Told \cup {"none", "granted", "denied"}]
  /\ asked \in 0..MaxSessions /\ sent \in 0..MaxActions
  /\ outcome \in [ActionIds -> Told \cup {"none", "timeout"}]

AgentType ==
  /\ granted \in SessionIds \cup {None}
  /\ welcomed \in BOOLEAN /\ over \in BOOLEAN /\ blocked \in BOOLEAN
  /\ request \in [SessionIds -> {"none", "start", "dialog", "allow", "orphan"}]
  /\ action \in [ActionIds -> {"none", "check", "run", "orphan"}]
  /\ work \in [ActionIds -> SessionIds \cup {None}]
  /\ answers \in Seq(DeviceFrames)
  /\ performed \in [ActionIds -> Nat]
  /\ allowed \subseteq SessionIds

\* What is over is a session.
AgentInv == AgentType /\ (over => granted # None)

\* The device is welcomed on the connection it is on, and the hub's session
\* and the open questions are those of a connection.
LinkInv ==
  /\ welcomed => link # None
  /\ live = None => session = None /\ asking = None /\ pending = None

\* A caller waits for a session or an action, and for an answer to that.
Asking(k) == caller[k].state \in {"asks", "asked too long"}
Acting(k) == caller[k].state \in {"acts", "acted too long"}

CallsInv ==
  \A k \in Callers :
    /\ Asking(k) => caller[k].session \in SessionIds
    /\ Acting(k) => caller[k].action \in ActionIds /\ answer[k] \in Told \cup {"none"}
    /\ IsIdle(k) => answer[k] = "none"

Types == WireType /\ EntryType /\ CallsType /\ AgentInv /\ LinkInv /\ CallsInv

LEMMA CallsMade ==
  /\ Idle \in CallType
  /\ \A s \in SessionIds \cup {None}, a \in ActionIds \cup {None}, state \in CallStates :
       Call(state, s, a) \in CallType
BY DEF Idle, Call, CallType, CallStates

LEMMA Counts == ASSUME Types PROVE asked \in Nat /\ sent \in Nat
BY DEF Types, CallsType

LEMMA TypesInit == Init => Types
<1> SUFFICES ASSUME Init PROVE Types
  OBVIOUS
<1> USE DEF Init, HubInit, AgentInit, Idle, Call
<1>1. WireType
  BY DEF WireType
<1>2. EntryType
  BY Zenon DEF EntryType
<1>3. CallsType
  <2>1. caller \in [Callers -> CallType]
    BY CallsMade DEF Idle
  <2>2. asked \in 0..MaxSessions /\ sent \in 0..MaxActions
    BY DeviceWireAssumption
  <2> QED
    BY <2>1, <2>2 DEF CallsType, Told
<1>4. AgentInv
  <2>1. /\ request \in [SessionIds -> {"none", "start", "dialog", "allow", "orphan"}]
        /\ action \in [ActionIds -> {"none", "check", "run", "orphan"}]
        /\ work \in [ActionIds -> SessionIds \cup {None}]
        /\ performed \in [ActionIds -> Nat]
    OBVIOUS
  <2>2. answers \in Seq(DeviceFrames)
    OBVIOUS
  <2>3. welcomed \in BOOLEAN /\ over \in BOOLEAN /\ blocked \in BOOLEAN
    BY Zenon
  <2> QED
    BY <2>1, <2>2, <2>3 DEF AgentType, AgentInv
<1>5. LinkInv /\ CallsInv
  BY Zenon DEF LinkInv, CallsInv, Asking, Acting, IsIdle
<1> QED
  BY <1>1, <1>2, <1>3, <1>4, <1>5 DEF Types

\* The wire.
LEMMA SendsTyped ==
  ASSUME WireType, NEW c \in Conns
  PROVE  /\ \A f \in CellFrames : SendDown(c, f) => down' \in [Conns -> Seq(CellFrames)]
         /\ \A f \in CellFrames : TrySend(c, f) => down' \in [Conns -> Seq(CellFrames)]
         /\ \A f \in DeviceFrames : SendUp(c, f) => up' \in [Conns -> Seq(DeviceFrames)]
<1>1. ASSUME NEW f \in CellFrames, SendDown(c, f)
      PROVE  down' \in [Conns -> Seq(CellFrames)]
  BY <1>1 DEF WireType, SendDown
<1>2. ASSUME NEW f \in CellFrames, TrySend(c, f)
      PROVE  down' \in [Conns -> Seq(CellFrames)]
  BY <1>1, <1>2 DEF WireType, TrySend
<1>3. ASSUME NEW f \in DeviceFrames, SendUp(c, f)
      PROVE  up' \in [Conns -> Seq(DeviceFrames)]
  BY <1>3 DEF WireType, SendUp
<1> QED
  BY <1>1, <1>2, <1>3

LEMMA AgentFrame == ASSUME AgentInv, UNCHANGED agent PROVE AgentInv'
BY DEF AgentInv, AgentType, agent, tasks

\* The callers.
LEMMA FailWaitersTyped ==
  ASSUME CallsType, CallsInv, FailWaiters, caller' = caller
  PROVE  /\ answer' \in [Callers -> Told \cup {"none", "granted", "denied"}]
         /\ CallsInv'
<1>1. answer' \in [Callers -> Told \cup {"none", "granted", "denied"}]
  BY DEF CallsType, FailWaiters, Told
<1>2. ASSUME NEW k \in Callers
      PROVE  \/ answer'[k] = answer[k]
             \/ answer'[k] = "gone" /\ ~IsIdle(k)
  BY DEF FailWaiters, Asks, Acts, IsIdle
<1>3. CallsInv'
  BY <1>2, Zenon DEF CallsInv, Asking, Acting, IsIdle, Told
<1> QED
  BY <1>1, <1>3

LEMMA AnswersTyped ==
  ASSUME CallsType, CallsInv, caller' = caller, NEW id,
         \/ \E what \in {"granted", "denied"} : AnswerAsk(id, what)
         \/ \E what \in Told : AnswerAct(id, what)
  PROVE  /\ answer' \in [Callers -> Told \cup {"none", "granted", "denied"}]
         /\ CallsInv'
<1>1. answer' \in [Callers -> Told \cup {"none", "granted", "denied"}]
  BY DEF CallsType, AnswerAsk, AnswerAct
<1>2. ASSUME NEW k \in Callers
      PROVE  \/ answer'[k] = answer[k]
             \/ caller[k].state = "asks"
             \/ caller[k].state = "acts" /\ answer'[k] \in Told
  BY DEF AnswerAsk, AnswerAct, Asks, Acts
<1>3. CallsInv'
  BY <1>2, Zenon DEF CallsInv, Asking, Acting, IsIdle, Told
<1> QED
  BY <1>1, <1>3

LEMMA ReturnsTyped ==
  ASSUME CallsType, CallsInv, NEW k \in Callers, Returns(k)
  PROVE  /\ caller' \in [Callers -> CallType]
         /\ answer' \in [Callers -> Told \cup {"none", "granted", "denied"}]
         /\ CallsInv'
<1>1. caller' \in [Callers -> CallType] /\ caller'[k] = Idle /\ answer'[k] = "none"
  BY CallsMade DEF CallsType, Returns
<1>2. answer' \in [Callers -> Told \cup {"none", "granted", "denied"}]
  BY DEF CallsType, Returns
<1>3. ASSUME NEW j \in Callers, j # k
      PROVE  caller'[j] = caller[j] /\ answer'[j] = answer[j]
  BY <1>3 DEF CallsType, Returns
<1>4. CallsInv'
  <2>1. caller'[k].state = "idle"
    BY <1>1 DEF Idle, Call
  <2> QED
    BY <1>1, <1>3, <2>1, Zenon DEF CallsInv, Asking, Acting, IsIdle
<1> QED
  BY <1>1, <1>2, <1>4

\* A caller that goes on to wait, in a state that names what it waits for.
LEMMA WaitsTyped ==
  ASSUME CallsType, CallsInv, NEW k \in Callers, NEW call \in CallType,
         caller' = [caller EXCEPT ![k] = call], answer' = answer,
         answer[k] = "none",
         call.state \in {"asks", "asked too long"} => call.session \in SessionIds,
         call.state \in {"acts", "acted too long"} => call.action \in ActionIds
  PROVE  caller' \in [Callers -> CallType] /\ CallsInv'
<1>1. caller' \in [Callers -> CallType] /\ caller'[k] = call
  BY Zenon DEF CallsType
<1>2. \A j \in Callers : j # k => caller'[j] = caller[j]
  BY Zenon DEF CallsType
<1>3. CallsInv'
  BY <1>1, <1>2, Zenon DEF CallsInv, Asking, Acting, IsIdle
<1> QED
  BY <1>1, <1>3, Zenon

LEMMA CallsFrame ==
  ASSUME CallsType, CallsInv, UNCHANGED calls PROVE CallsType' /\ CallsInv'
BY Zenon DEF CallsType, CallsInv, calls, Asking, Acting, IsIdle

\* The hub's steps.
LEMMA TypesConns ==
  ASSUME Types, UNCHANGED <<link, agent>>, NEW c \in Conns,
         Connect(c) \/ ServeEnds(c) \/ Revoke
  PROVE  Types'
<1> USE DEF Types
<1>1. AgentInv' /\ link' = link
  BY AgentFrame
<1>2. CASE Connect(c)
  <2>1. WireType'
    BY <1>1, <1>2, SendsTyped, CellFramesMade DEF Connect, WireType
  <2>2. EntryType'
    BY <1>2, Ids, Zenon DEF Connect, NowLive, EntryType
  <2>3. CallsType' /\ CallsInv'
    BY <1>2, FailWaitersTyped DEF Connect, CallsType
  <2>4. LinkInv'
    BY <1>1, <1>2, Ids DEF Connect, NowLive, LinkInv, agent
  <2> QED
    BY <1>1, <2>1, <2>2, <2>3, <2>4
<1>3. CASE ServeEnds(c)
  <2>1. WireType'
    BY <1>1, <1>3 DEF ServeEnds, WireType
  <2>2. EntryType'
    BY <1>3, Ids, Zenon DEF ServeEnds, Disconnect, NowLive, EntryType, entry
  <2>3. CallsType' /\ CallsInv'
    <3>1. CASE UNCHANGED calls
      BY <3>1, CallsFrame
    <3>2. CASE FailWaiters /\ UNCHANGED <<caller, asked, sent, outcome>>
      BY <3>2, FailWaitersTyped DEF CallsType
    <3> QED
      BY <1>3, <3>1, <3>2 DEF ServeEnds, Disconnect, calls
  <2>4. LinkInv'
    BY <1>1, <1>3 DEF ServeEnds, Disconnect, NowLive, LinkInv, entry, agent
  <2> QED
    BY <1>1, <2>1, <2>2, <2>3, <2>4
<1>4. CASE Revoke
  <2>1. live \in Conns
    BY <1>4 DEF Revoke, EntryType
  <2>2. SessionEnd(session, "cell") \in CellFrames
    BY CellFramesMade DEF EntryType
  <2>3. WireType'
    BY <1>1, <1>4, <2>1, <2>2, SendsTyped DEF Revoke, WireType
  <2>4. EntryType'
    BY <1>4, <2>1, Zenon DEF Revoke, NowLive, EntryType
  <2>5. CallsType' /\ CallsInv'
    BY <1>4, FailWaitersTyped DEF Revoke, CallsType
  <2>6. LinkInv'
    BY <1>1, <1>4 DEF Revoke, NowLive, LinkInv, agent
  <2> QED
    BY <1>1, <2>3, <2>4, <2>5, <2>6
<1> QED
  BY <1>2, <1>3, <1>4

LEMMA TypesReads ==
  ASSUME Types, UNCHANGED <<link, agent>>, NEW c \in Conns, ServeReads(c)
  PROVE  Types'
<1> USE DEF Types
<1>1. AgentInv' /\ link' = link
  BY AgentFrame
<1>2. up[c] \in Seq(DeviceFrames) /\ up[c] # <<>>
  BY DEF ServeReads, WireType
<1>3. PICK f \in DeviceFrames : f = Head(up[c])
  BY <1>2
<1>4. WireType'
  BY <1>1, <1>2 DEF ServeReads, WireType
<1>5. CASE live # c
  <2>1. UNCHANGED <<calls, entry, dropped, revoked>>
    BY <1>5 DEF ServeReads, calls
  <2>2. EntryType' /\ LinkInv'
    BY <1>1, <2>1 DEF EntryType, LinkInv, entry, agent
  <2> QED
    BY <1>1, <1>4, <2>1, <2>2, CallsFrame
<1>6. CASE live = c
  <2>1. OnFrame(f) /\ live' = live /\ UNCHANGED <<dropped, revoked, caller, asked, sent, outcome>>
    BY <1>3, <1>6 DEF ServeReads
  <2>2. EntryType' /\ LinkInv'
    BY <1>1, <1>6, <2>1, Ids, Zenon
       DEF OnFrame, OnGranted, OnDenied, OnResult, OnSessionEnd, EntryType, LinkInv, agent
  <2>3. \/ answer' = answer
        \/ \E s \in SessionIds \cup {None}, what \in {"granted", "denied"} : AnswerAsk(s, what)
        \/ \E a \in ActionIds \cup {None}, what \in Told : AnswerAct(a, what)
    <3>1. CASE f.type = "granted" \/ f.type = "denied"
      BY <2>1, <3>1, DeviceFrameRead, ZenonT(30) DEF OnFrame, OnGranted, OnDenied
    <3>2. CASE f.type = "result"
      BY <2>1, <3>2, DeviceFrameRead DEF OnFrame, OnResult, Verdicts, Told
    <3>3. CASE f.type = "end"
      BY <2>1, <3>3, DeviceFrameRead DEF OnFrame, OnSessionEnd, Reasons, Told, EntryType
    <3> QED
      BY <2>1, <3>1, <3>2, <3>3, ZenonT(30) DEF OnFrame
  <2>4. CallsType' /\ CallsInv'
    <3>1. CASE answer' = answer
      BY <2>1, <3>1, CallsFrame DEF calls
    <3>2. CASE answer' # answer
      BY <2>1, <2>3, <3>2, AnswersTyped DEF CallsType
    <3> QED
      BY <3>1, <3>2
  <2> QED
    BY <1>1, <1>4, <2>2, <2>4
<1> QED
  BY <1>5, <1>6

LEMMA TypesCalls ==
  ASSUME Types, UNCHANGED <<link, agent>>, NEW k \in Callers, Calls(k)
  PROVE  Types'
<1> USE DEF Types
<1>1. AgentInv' /\ link' = link
  BY AgentFrame
<1>2. welcomed' => link' # None
  BY <1>1 DEF LinkInv, agent
<1>3. CASE AskSession(k)
  <2>1. live \in Conns /\ live' = live
    BY <1>3 DEF AskSession, EntryType
  <2>2. CASE asking # None \/ Full(live)
    <3>1. UNCHANGED <<wire, serve, calls>>
      BY <1>3, <2>2 DEF AskSession, wire, calls
    <3>2. WireType' /\ EntryType' /\ LinkInv'
      BY <1>1, <1>2, <1>3, <2>1, <2>2, <3>1, Ids, ZenonT(30)
         DEF AskSession, WireType, EntryType, LinkInv, wire
    <3> QED
      BY <1>1, <3>1, <3>2, CallsFrame
  <2>3. CASE ~(asking # None \/ Full(live))
    <3>1. PICK s \in SessionIds : s = asked + 1
      BY <1>3, DeviceWireAssumption DEF AskSession, CallsType, SessionIds
    <3>2. /\ asked' = s /\ asking' = s /\ TrySend(live, SessionRequest(s))
          /\ caller' = [caller EXCEPT ![k] = Call("asks", s, None)]
          /\ answer' = answer /\ answer[k] = "none"
      BY <1>3, <2>3, <3>1, ZenonT(30) DEF AskSession, CallsInv
    <3>3. WireType'
      BY <1>1, <1>3, <2>1, <3>2, SendsTyped, CellFramesMade DEF AskSession, WireType
    <3>4. EntryType' /\ LinkInv'
      BY <1>2, <1>3, <2>1, <3>2, Ids, Zenon DEF AskSession, EntryType, LinkInv
    <3>5. Call("asks", s, None) \in CallType
      BY CallsMade, Zenon DEF CallStates
    <3>6. caller' \in [Callers -> CallType] /\ CallsInv'
      <4> DEFINE call == Call("asks", s, None)
      <4>1. call.state = "asks" /\ call.session = s
        BY DEF Call
      <4> HIDE DEF call
      <4> QED
        BY <3>2, <3>5, <4>1, WaitsTyped, Zenon DEF call
    <3>7. CallsType'
      BY <1>3, <3>1, <3>2, <3>6 DEF AskSession, CallsType, SessionIds
    <3> QED
      BY <1>1, <3>3, <3>4, <3>6, <3>7
  <2> QED
    BY <2>2, <2>3, ZenonT(30)
<1>4. CASE SessionAnswered(k)
  <2>1. caller[k].session \in SessionIds
    BY <1>4, Zenon DEF SessionAnswered, CallsInv, Asking
  <2>2. WireType' /\ EntryType' /\ LinkInv'
    BY <1>1, <1>2, <1>4, <2>1, Zenon DEF SessionAnswered, WireType, EntryType, LinkInv, wire
  <2>3. CallsType' /\ CallsInv'
    BY <1>4, ReturnsTyped DEF SessionAnswered, CallsType
  <2> QED
    BY <1>1, <2>2, <2>3
<1>5. CASE ConsentTimesOut(k) \/ ActTimesOut(k)
  <2>1. WireType' /\ EntryType' /\ LinkInv'
    BY <1>1, <1>2, <1>5, Zenon
       DEF ConsentTimesOut, ActTimesOut, WireType, EntryType, LinkInv, wire, entry
  <2>2. PICK state \in CallStates :
          /\ caller' = [caller EXCEPT ![k].state = state] /\ answer' = answer
          /\ answer[k] = "none"
          /\ \/ state = "asked too long" /\ caller[k].state = "asks"
             \/ state = "acted too long" /\ caller[k].state = "acts"
    BY <1>5, Zenon DEF ConsentTimesOut, ActTimesOut, CallStates
  <2> DEFINE call == [caller[k] EXCEPT !.state = state]
  <2>3. /\ call \in CallType /\ call.state = state
        /\ call.session = caller[k].session /\ call.action = caller[k].action
    BY DEF CallsType, CallType
  <2>4. caller' = [caller EXCEPT ![k] = call]
    BY <2>2, Zenon
  <2> HIDE DEF call
  <2>5. /\ state = "asked too long" => caller[k].session \in SessionIds
        /\ state = "acted too long" => caller[k].action \in ActionIds
    BY <2>2, Zenon DEF CallsInv, Asking, Acting
  <2>6. caller' \in [Callers -> CallType] /\ CallsInv'
    BY <2>2, <2>3, <2>4, <2>5, WaitsTyped, Zenon
  <2>7. CallsType'
    BY <1>5, <2>6, Zenon DEF ConsentTimesOut, ActTimesOut, CallsType
  <2> QED
    BY <1>1, <2>1, <2>6, <2>7
<1>6. CASE GiveUpAsking(k)
  <2>1. caller[k].session \in SessionIds
    BY <1>6, Zenon DEF GiveUpAsking, CallsInv, Asking
  <2>2. WireType'
    <3>1. SessionEnd(caller[k].session, "cell") \in CellFrames
      BY <2>1, CellFramesMade, SMTT(30)
    <3>2. CASE live # None
      <4>1. live \in Conns /\ TrySend(live, SessionEnd(caller[k].session, "cell"))
        BY <1>6, <3>2, ZenonT(30) DEF GiveUpAsking, EntryType
      <4> QED
        BY <1>1, <1>6, <3>1, <4>1, SendsTyped, ZenonT(30) DEF GiveUpAsking, WireType
    <3>3. CASE live = None
      BY <1>1, <1>6, <3>3, Zenon DEF GiveUpAsking, WireType
    <3> QED
      BY <3>2, <3>3
  <2>3. EntryType' /\ LinkInv'
    BY <1>2, <1>6, Zenon DEF GiveUpAsking, EntryType, LinkInv
  <2>4. CallsType' /\ CallsInv'
    BY <1>6, ReturnsTyped, Zenon DEF GiveUpAsking, CallsType
  <2> QED
    BY <1>1, <2>2, <2>3, <2>4
<1>7. CASE ActExpired(k)
  <2>1. WireType' /\ EntryType' /\ LinkInv'
    BY <1>1, <1>2, <1>7, Zenon DEF ActExpired, WireType, EntryType, LinkInv, wire
  <2> QED
    BY <1>1, <1>7, <2>1, CallsFrame DEF ActExpired
<1>8. CASE Act(k)
  <2>1. live \in Conns /\ session \in SessionIds
    BY <1>8 DEF Act, Holds, EntryType, LinkInv
  <2>2. PICK a \in ActionIds : a = sent + 1
    BY <1>8, DeviceWireAssumption DEF Act, CallsType, ActionIds
  <2>3. /\ sent' = a /\ pending' = a /\ TrySend(live, ActionFrame(a, session))
        /\ caller' = [caller EXCEPT ![k] = Call("acts", session, a)]
        /\ answer' = answer /\ answer[k] = "none"
    BY <1>8, <2>2 DEF Act, Holds, CallsInv
  <2>4. WireType'
    BY <1>1, <1>8, <2>1, <2>3, SendsTyped, CellFramesMade DEF Act, WireType
  <2>5. EntryType' /\ LinkInv'
    BY <1>2, <1>8, <2>1, <2>3, Ids DEF Act, EntryType, LinkInv
  <2>6. caller' \in [Callers -> CallType] /\ CallsInv'
    <3> DEFINE call == Call("acts", session, a)
    <3>1. call \in CallType
      BY <2>1, CallsMade, Zenon DEF CallStates
    <3>2. call.state = "acts" /\ call.action = a
      BY DEF Call
    <3> HIDE DEF call
    <3> QED
      BY <2>3, <3>1, <3>2, WaitsTyped, Zenon DEF call
  <2>7. CallsType'
    BY <1>8, <2>2, <2>3, <2>6 DEF Act, CallsType, ActionIds
  <2> QED
    BY <1>1, <2>4, <2>5, <2>6, <2>7
<1>9. CASE ActAnswered(k) \/ GiveUpActing(k)
  <2>1. WireType' /\ EntryType' /\ LinkInv'
    BY <1>1, <1>2, <1>9, Zenon
       DEF ActAnswered, GiveUpActing, WireType, EntryType, LinkInv, wire, entry
  <2>2. outcome' \in [ActionIds -> Told \cup {"none", "timeout"}]
    <3>1. caller[k].action \in ActionIds /\ answer[k] \in Told \cup {"none"}
      BY <1>9, Zenon DEF ActAnswered, GiveUpActing, CallsInv, Acting
    <3> QED
      BY <1>9, <3>1, ZenonT(30) DEF ActAnswered, GiveUpActing, CallsType
  <2>3. CallsType' /\ CallsInv'
    BY <1>9, <2>2, ReturnsTyped, Zenon DEF ActAnswered, GiveUpActing, CallsType
  <2> QED
    BY <1>1, <2>1, <2>3
<1>10. CASE EndSession(k)
  <2>1. live \in Conns /\ SessionEnd(session, "cell") \in CellFrames
    BY <1>10, CellFramesMade DEF EndSession, Holds, EntryType, LinkInv
  <2>2. WireType'
    BY <1>1, <1>10, <2>1, SendsTyped DEF EndSession, WireType
  <2>3. EntryType' /\ LinkInv'
    BY <1>2, <1>10, Zenon DEF EndSession, EntryType, LinkInv
  <2> QED
    BY <1>1, <1>10, <2>2, <2>3, CallsFrame DEF EndSession
<1> QED
  BY <1>3, <1>4, <1>5, <1>6, <1>7, <1>8, <1>9, <1>10 DEF Calls

\* The device's steps.
LEMMA TypesAgent ==
  ASSUME Types, AgentNext, UNCHANGED <<serve, hub>>
  PROVE  Types'
<1> USE DEF Types, AgentInv
<1>1. EntryType' /\ CallsType' /\ CallsInv'
  BY CallsFrame DEF EntryType, hub, entry, calls
<1>2. live' = None => session' = None /\ asking' = None /\ pending' = None
  BY DEF LinkInv, hub, entry
<1>0. over' => granted' # None
  <2>1. \A a \in ActionIds : CheckAction(a) => UNCHANGED <<granted, over>> \/ ~over'
    BY DEF CheckAction, NowGranted
  <2>2. \A s \in SessionIds : RequestStarts(s) \/ PersonAnswers(s) \/ RequestAllowed(s)
          => UNCHANGED <<granted, over>> \/ ~over'
    BY ZenonT(30) DEF RequestStarts, PersonAnswers, RequestAllowed, NowGranted
  <2>3. LinkEnds \/ ReadFrame \/ Kill => UNCHANGED <<granted, over>> \/ ~over'
    BY DEF LinkEnds, ReadFrame, Kill, NowGranted
  <2>4. Welcomed \/ SendAnswer \/ KillBlockEnds \/ (\E a \in ActionIds : RunAction(a))
          => UNCHANGED <<granted, over>>
    BY DEF Welcomed, SendAnswer, KillBlockEnds, RunAction
  <2>5. GrantIsOver => granted' # None
    BY DEF GrantIsOver
  <2> QED
    BY <2>1, <2>2, <2>3, <2>4, <2>5, Zenon DEF AgentNext
<1>3. ASSUME WireType', AgentType', welcomed' => link' # None
      PROVE  Types'
  BY <1>0, <1>1, <1>2, <1>3 DEF LinkInv
<1>4. ASSUME UNCHANGED <<wire, link, welcomed>>
      PROVE  WireType' /\ (welcomed' => link' # None)
  BY <1>4 DEF WireType, LinkInv, wire
<1>5. CASE Welcomed
  <2>1. link \in Conns
    BY <1>5 DEF Welcomed, WireType
  <2>2. WireType'
    BY <1>5, <2>1 DEF Welcomed, WireType
  <2>3. AgentType'
    BY <1>5 DEF Welcomed, AgentType, tasks
  <2> QED
    BY <1>3, <1>5, <2>1, <2>2, <2>3, Ids DEF Welcomed
<1>6. CASE LinkEnds
  <2>1. WireType'
    BY <1>6 DEF LinkEnds, WireType
  <2>2. AgentType'
    <3>1. request' \in [SessionIds -> {"none", "start", "dialog", "allow", "orphan"}]
      BY <1>6 DEF LinkEnds
    <3>2. action' \in [ActionIds -> {"none", "check", "run", "orphan"}]
      BY <1>6 DEF LinkEnds
    <3>3. answers' \in Seq(DeviceFrames)
      BY <1>6 DEF LinkEnds
    <3> QED
      BY <1>6, <3>1, <3>2, <3>3, Zenon DEF LinkEnds, NowGranted, AgentType
  <2> QED
    BY <1>3, <1>6, <2>1, <2>2 DEF LinkEnds
<1>7. CASE ReadFrame
  <2>1. link \in Conns
    BY <1>7, ZenonT(30) DEF ReadFrame, WireType, LinkInv
  <2>2. down[link] \in Seq(CellFrames) /\ down[link] # <<>>
    BY <1>7, <2>1 DEF ReadFrame, WireType
  <2>3. PICK f \in CellFrames : f = Head(down[link])
    BY <2>2
  <2>4. WireType'
    BY <1>7, <2>1, <2>2, SMTT(30) DEF ReadFrame, WireType
  <2>5. AgentType'
    BY <1>7, <2>3, CellFrameRead, Zenon DEF ReadFrame, NowGranted, AgentType
  <2> QED
    BY <1>3, <1>7, <2>4, <2>5, ZenonT(30) DEF ReadFrame, LinkInv
<1>8. CASE SendAnswer
  <2>1. link \in Conns
    BY <1>8 DEF SendAnswer, WireType, LinkInv
  <2>2. answers \in Seq(DeviceFrames) /\ answers # <<>>
    BY <1>8 DEF SendAnswer, AgentType
  <2>3. Head(answers) \in DeviceFrames /\ Tail(answers) \in Seq(DeviceFrames)
    BY <2>2
  <2>4. WireType'
    BY <1>8, <2>1, <2>3, SendsTyped DEF SendAnswer, WireType
  <2>5. AgentType'
    BY <1>8, <2>3, ZenonT(30) DEF SendAnswer, AgentType
  <2> QED
    BY <1>3, <1>8, <2>4, <2>5 DEF SendAnswer, LinkInv
<1>9. CASE Kill
  <2>1. WireType'
    <3>1. CASE link # None /\ granted # None
      <4>1. link \in Conns /\ SessionEnd(granted, "killed") \in DeviceFrames
        BY <3>1, DeviceFramesMade DEF WireType, AgentType, Reasons
      <4>2. SendUp(link, SessionEnd(granted, "killed"))
        BY <1>9, <3>1 DEF Kill
      <4> QED
        BY <1>9, <4>1, <4>2, SendsTyped DEF Kill, WireType
    <3>2. CASE ~(link # None /\ granted # None)
      BY <1>9, <3>2 DEF Kill, WireType
    <3> QED
      BY <3>1, <3>2
  <2>2. AgentType'
    BY <1>9, Zenon DEF Kill, NowGranted, AgentType, tasks
  <2> QED
    BY <1>3, <1>9, <2>1, <2>2 DEF Kill, LinkInv
<1>10. CASE KillBlockEnds \/ GrantIsOver
  <2>1. AgentType'
    BY <1>10, Zenon DEF KillBlockEnds, GrantIsOver, AgentType, tasks
  <2> QED
    BY <1>3, <1>4, <1>10, <2>1 DEF KillBlockEnds, GrantIsOver
<1>11. ASSUME NEW s \in SessionIds, RequestStarts(s) \/ PersonAnswers(s) \/ RequestAllowed(s)
       PROVE  Types'
  <2>1. PICK denied \in DeviceFrames, grant \in DeviceFrames :
          denied = SessionDenied(s) /\ grant = SessionGranted(s)
    BY DeviceFramesMade
  <2>2. answers' \in Seq(DeviceFrames)
    <3>1. \/ answers' = answers
          \/ answers' = Append(answers, denied)
          \/ answers' = Append(answers, grant)
      BY <1>11, <2>1 DEF RequestStarts, PersonAnswers, RequestAllowed
    <3>2. answers \in Seq(DeviceFrames)
      BY DEF AgentType
    <3> HIDE DEF Types
    <3> QED
      BY <3>1, <3>2
  <2>3. AgentType'
    BY <1>11, <2>2, Zenon DEF RequestStarts, PersonAnswers, RequestAllowed, NowGranted, AgentType
  <2> QED
    BY <1>3, <1>4, <1>11, <2>3 DEF RequestStarts, PersonAnswers, RequestAllowed
<1>12. ASSUME NEW a \in ActionIds, CheckAction(a)
       PROVE  Types'
  <2>1. answers' \in Seq(DeviceFrames)
    <3>1. answers \in Seq(DeviceFrames) /\ Result(a, "refused") \in DeviceFrames
      BY DeviceFramesMade DEF Verdicts, AgentType
    <3>2. CASE answers' = answers \/ answers' = Append(answers, Result(a, "refused"))
      BY <3>1, <3>2
    <3>3. CASE /\ over
               /\ answers' = answers \o <<SessionEnd(granted, "checked"), Result(a, "refused")>>
      <4>1. SessionEnd(granted, "checked") \in DeviceFrames
        BY <3>3, DeviceFramesMade DEF AgentType, Reasons
      <4>2. <<SessionEnd(granted, "checked"), Result(a, "refused")>> \in Seq(DeviceFrames)
        BY <3>1, <4>1
      <4> QED
        BY <3>1, <3>3, <4>2
    <3> QED
      BY <1>12, <3>2, <3>3, Zenon DEF CheckAction
  <2>2. AgentType'
    BY <1>12, <2>1, Zenon DEF CheckAction, NowGranted, AgentType
  <2> QED
    BY <1>3, <1>4, <1>12, <2>2 DEF CheckAction
<1>13. ASSUME NEW a \in ActionIds, RunAction(a)
       PROVE  Types'
  <2>1. PICK did \in BOOLEAN, verdict \in Verdicts :
          /\ performed' = IF did THEN [performed EXCEPT ![a] = @ + 1] ELSE performed
          /\ answers' = IF action[a] = "orphan" THEN answers
                        ELSE Append(answers, Result(a, verdict))
    BY <1>13 DEF RunAction, Verdicts
  <2>2. answers' \in Seq(DeviceFrames)
    <3>1. Result(a, verdict) \in DeviceFrames
      BY DeviceFramesMade
    <3> QED
      BY <2>1, <3>1 DEF AgentType
  <2>3. performed' \in [ActionIds -> Nat]
    BY <2>1 DEF AgentType
  <2>4. AgentType'
    BY <1>13, <2>2, <2>3 DEF RunAction, AgentType
  <2> QED
    BY <1>3, <1>4, <1>13, <2>4 DEF RunAction
<1> QED
  BY <1>5, <1>6, <1>7, <1>8, <1>9, <1>10, <1>11, <1>12, <1>13 DEF AgentNext

LEMMA TypesStep == Types /\ [Next]_vars => Types'
<1> SUFFICES ASSUME Types, [Next]_vars
             PROVE  Types'
  OBVIOUS
<1>1. CASE Dial
  <2>1. CallsType' /\ CallsInv'
    BY <1>1, CallsFrame DEF Types, Dial
  <2>2. WireType'
    BY <1>1 DEF Types, Dial, Hello, WireType, wire
  <2>3. EntryType' /\ LinkInv'
    BY <1>1, Ids DEF Types, Dial, Hello, EntryType, LinkInv, entry
  <2>4. AgentInv'
    BY <1>1, Zenon DEF Types, Dial, Hello, NowGranted, AgentInv, AgentType, tasks
  <2> QED
    BY <2>1, <2>2, <2>3, <2>4 DEF Types
<1>2. CASE HubNext /\ UNCHANGED <<link, agent>>
  <2>1. CASE Revoke
    <3>1. live \in Conns
      BY <2>1 DEF Revoke, Types, EntryType
    <3> QED
      BY <1>2, <2>1, <3>1, TypesConns
  <2>2. CASE SessionExpires
    <3>1. CallsType' /\ CallsInv' /\ AgentInv'
      BY <1>2, <2>2, CallsFrame, AgentFrame, ZenonT(30) DEF Types, SessionExpires
    <3>2. WireType' /\ EntryType' /\ LinkInv'
      BY <1>2, <2>2 DEF Types, SessionExpires, WireType, EntryType, LinkInv, wire, agent
    <3> QED
      BY <3>1, <3>2 DEF Types
  <2> QED
    BY <1>2, <2>1, <2>2, TypesConns, TypesReads, TypesCalls DEF HubNext
<1>3. CASE AgentNext /\ UNCHANGED <<serve, hub>>
  BY <1>3, TypesAgent
<1>4. CASE UNCHANGED vars
  <2>1. CallsType' /\ CallsInv' /\ AgentInv'
    BY <1>4, CallsFrame, AgentFrame, ZenonT(30) DEF Types, vars, hub
  <2>2. WireType' /\ EntryType' /\ LinkInv'
    BY <1>4 DEF Types, vars, WireType, EntryType, LinkInv, hub, wire, entry, agent
  <2> QED
    BY <2>1, <2>2 DEF Types
<1> QED
  BY <1>1, <1>2, <1>3, <1>4 DEF Next

LEMMA TypesInvariant == Spec => []Types
BY TypesInit, TypesStep, PTL DEF Spec

\* Every variable of the hub, the wire and the agent keeps its type, whatever
\* arrives when.
THEOREM TypeCorrect == Spec => []TypeOK
<1>1. Types => TypeOK
  BY Zenon
     DEF Types, TypeOK, WireType, EntryType, CallsType, AgentInv, AgentType, CallType, CallStates, Told
<1> QED
  BY <1>1, TypesInvariant, PTL

-----------------------------------------------------------------------------
(* The kill switch *)

LEMMA KillStep == KillHolds /\ [Next]_vars => KillHolds'
<1> SUFFICES ASSUME KillHolds, [Next]_vars
             PROVE  KillHolds'
  OBVIOUS
<1> USE DEF KillHolds
\* The grant is the one step that gives a session, and it looks first.
<1>1. ASSUME NEW s \in SessionIds, RequestAllowed(s)
      PROVE  KillHolds'
  BY <1>1 DEF RequestAllowed, NowGranted
<1>2. ASSUME NEW s \in SessionIds, RequestStarts(s) \/ PersonAnswers(s)
      PROVE  KillHolds'
  BY <1>2, Zenon DEF RequestStarts, PersonAnswers, NowGranted
<1>3. ASSUME NEW a \in ActionIds, CheckAction(a) \/ RunAction(a)
      PROVE  KillHolds'
  BY <1>3, Zenon DEF CheckAction, RunAction, NowGranted
<1>4. CASE Kill \/ KillBlockEnds \/ GrantIsOver
  BY <1>4, Zenon DEF Kill, KillBlockEnds, GrantIsOver, NowGranted
<1>5. CASE Welcomed \/ LinkEnds \/ ReadFrame \/ SendAnswer
  BY <1>5, Zenon DEF Welcomed, LinkEnds, ReadFrame, SendAnswer, NowGranted
<1>6. CASE Dial
  BY <1>6 DEF Dial, Hello, NowGranted
<1>7. CASE UNCHANGED agent
  BY <1>7 DEF agent
<1> QED
  BY <1>1, <1>2, <1>3, <1>4, <1>5, <1>6, <1>7 DEF Next, AgentNext, vars

\* Pressing the kill switch keeps every session off the device for as long as
\* it blocks, though requests, grants and connections race it.
THEOREM KillAlwaysHolds == Spec => []KillHolds
<1>1. Init => KillHolds
  BY ZenonT(30) DEF Init, AgentInit, KillHolds
<1> QED
  BY <1>1, KillStep, PTL DEF Spec

-----------------------------------------------------------------------------
(* The served connection is the current one *)

LEMMA ServedStep == Types /\ ServedIsLive /\ [Next]_vars => ServedIsLive'
<1> SUFFICES ASSUME Types, ServedIsLive, [Next]_vars
             PROVE  ServedIsLive'
  OBVIOUS
<1> USE DEF Types, WireType, EntryType, ServedIsLive
<1>1. ASSUME UNCHANGED <<serve, dropped, live>>
      PROVE  ServedIsLive'
  BY <1>1, ZenonT(30)
<1>2. ASSUME NEW c \in Conns, Connect(c)
      PROVE  ServedIsLive'
  BY <1>2, Ids, ZenonT(30) DEF Connect, NowLive
<1>3. ASSUME NEW c \in Conns, ServeEnds(c)
      PROVE  ServedIsLive'
  BY <1>3 DEF ServeEnds, Disconnect, NowLive, entry
<1>4. CASE Revoke
  BY <1>4 DEF Revoke, NowLive
<1>5. ASSUME NEW c \in Conns, ServeReads(c)
      PROVE  ServedIsLive'
  BY <1>1, <1>5 DEF ServeReads, entry
<1>6. ASSUME NEW k \in Callers, Calls(k)
      PROVE  ServedIsLive'
  BY <1>1, <1>6, Zenon DEF Calls, AskSession, SessionAnswered, ConsentTimesOut, GiveUpAsking,
                    ActExpired, Act, ActAnswered, ActTimesOut, GiveUpActing, EndSession, entry
<1>7. CASE SessionExpires
  BY <1>1, <1>7 DEF SessionExpires
<1>8. CASE Dial
  BY <1>8 DEF Dial, entry
<1>9. CASE UNCHANGED <<serve, hub>>
  BY <1>1, <1>9 DEF hub, entry
<1> QED
  BY <1>2, <1>3, <1>4, <1>5, <1>6, <1>7, <1>8, <1>9 DEF Next, HubNext, vars

\* A connection the hub serves and did not drop is the one callers reach,
\* however often the device reconnects before the cell notices.
THEOREM ServedAlwaysLive == Spec => []ServedIsLive
<1>1. Init => ServedIsLive
  BY DEF Init, HubInit, ServedIsLive
<1> QED
  BY <1>1, ServedStep, TypesInvariant, PTL DEF Spec

-----------------------------------------------------------------------------
(* Nobody waits on a connection that is gone *)

\* A session or an action is one caller's.
CallsApart ==
  \A k \in Callers :
    /\ Asking(k) => caller[k].session <= asked
    /\ Acting(k) => caller[k].action <= sent
    /\ \A j \in Callers \ {k} :
         /\ Asking(k) /\ Asking(j) => caller[k].session # caller[j].session
         /\ Acting(k) /\ Acting(j) => caller[k].action # caller[j].action

LEMMA ApartFrame ==
  ASSUME CallsApart, UNCHANGED <<caller, asked, sent>> PROVE CallsApart'
BY ZenonT(30) DEF CallsApart, Asking, Acting

\* One caller's call changes.
LEMMA ApartBut ==
  ASSUME Types, CallsApart, NEW k \in Callers,
         \A j \in Callers : j # k => caller'[j] = caller[j],
         asked' \in {asked, asked + 1}, sent' \in {sent, sent + 1},
         Asking(k)' => /\ caller'[k].session <= asked'
                       /\ \A j \in Callers \ {k} : Asking(j) => caller[j].session # caller'[k].session,
         Acting(k)' => /\ caller'[k].action <= sent'
                       /\ \A j \in Callers \ {k} : Acting(j) => caller[j].action # caller'[k].action
  PROVE  CallsApart'
<1>1. asked \in Nat /\ sent \in Nat /\ asked <= asked' /\ sent <= sent'
  BY SMTT(30) DEF Types, CallsType
<1>2. \A j \in Callers : /\ Asking(j) => caller[j].session \in Nat
                         /\ Acting(j) => caller[j].action \in Nat
  BY Ids, ZenonT(30) DEF Types, CallsInv
<1>3. \A j \in Callers : j # k => (Asking(j)' <=> Asking(j)) /\ (Acting(j)' <=> Acting(j))
  BY ZenonT(30) DEF Asking, Acting
<1>4. \A j \in Callers : /\ Asking(j) => caller[j].session <= asked
                         /\ Acting(j) => caller[j].action <= sent
  BY ZenonT(30) DEF CallsApart
<1>5. ASSUME NEW i \in Callers
      PROVE  /\ Asking(i)' => caller'[i].session <= asked'
             /\ Acting(i)' => caller'[i].action <= sent'
  <2>1. CASE i = k
    BY <2>1, ZenonT(30)
  <2>2. CASE i # k /\ Asking(i)
    <3>1. caller[i].session <= asked /\ caller[i].session \in Nat /\ caller'[i] = caller[i]
      BY <1>2, <1>4, <2>2, SMTT(30)
    <3>2. ~Acting(i)'
      BY <1>3, <2>2, ZenonT(30) DEF Asking, Acting
    <3> QED
      BY <1>1, <3>1, <3>2, SMTT(30)
  <2>3. CASE i # k /\ Acting(i)
    <3>1. caller[i].action <= sent /\ caller[i].action \in Nat /\ caller'[i] = caller[i]
      BY <1>2, <1>4, <2>3, SMTT(30)
    <3>2. ~Asking(i)'
      BY <1>3, <2>3, ZenonT(30) DEF Asking, Acting
    <3> QED
      BY <1>1, <3>1, <3>2, SMTT(30)
  <2> QED
    BY <1>3, <2>1, <2>2, <2>3, ZenonT(30)
<1>6. ASSUME NEW i \in Callers, NEW j \in Callers \ {i}
      PROVE  /\ Asking(i)' /\ Asking(j)' => caller'[i].session # caller'[j].session
             /\ Acting(i)' /\ Acting(j)' => caller'[i].action # caller'[j].action
  <2>1. CASE i = k
    BY <1>3, <2>1, ZenonT(30)
  <2>2. CASE j = k
    BY <1>3, <2>2, ZenonT(30)
  <2>3. CASE i # k /\ j # k
    BY <1>3, <2>3, ZenonT(30) DEF CallsApart
  <2> QED
    BY <2>1, <2>2, <2>3, ZenonT(30)
<1>7. CallsApart' <=>
        \A i \in Callers :
          /\ Asking(i)' => caller'[i].session <= asked'
          /\ Acting(i)' => caller'[i].action <= sent'
          /\ \A j \in Callers \ {i} :
               /\ Asking(i)' /\ Asking(j)' => caller'[i].session # caller'[j].session
               /\ Acting(i)' /\ Acting(j)' => caller'[i].action # caller'[j].action
  BY DEF CallsApart
<1> QED
  BY <1>5, <1>6, <1>7, ZenonT(30)

\* A caller that returns, or goes on waiting for the same thing.
LEMMA ApartKept ==
  ASSUME Types, CallsApart, NEW k \in Callers, NEW call \in CallType,
         caller' = [caller EXCEPT ![k] = call], UNCHANGED <<asked, sent>>,
         \/ call.state = "idle"
         \/ call.state = "asked too long" /\ Asking(k) /\ call.session = caller[k].session
         \/ call.state = "acted too long" /\ Acting(k) /\ call.action = caller[k].action
  PROVE  CallsApart'
<1>1. caller'[k] = call /\ \A j \in Callers : j # k => caller'[j] = caller[j]
  BY Zenon DEF Types, CallsType
<1>2. /\ Asking(k)' => Asking(k) /\ caller'[k].session = caller[k].session
      /\ Acting(k)' => Acting(k) /\ caller'[k].action = caller[k].action
  BY <1>1, Zenon DEF Asking, Acting
<1>3. /\ Asking(k) => /\ caller[k].session <= asked
                      /\ \A j \in Callers \ {k} : Asking(j) => caller[j].session # caller[k].session
      /\ Acting(k) => /\ caller[k].action <= sent
                      /\ \A j \in Callers \ {k} : Acting(j) => caller[j].action # caller[k].action
  BY Zenon DEF CallsApart
<1> HIDE DEF CallsApart
<1> QED
  BY <1>1, <1>2, <1>3, ApartBut, ZenonT(30)

LEMMA ApartStep == Types /\ CallsApart /\ [Next]_vars => CallsApart'
<1> SUFFICES ASSUME Types, CallsApart, [Next]_vars
             PROVE  CallsApart'
  OBVIOUS
<1>1. ASSUME NEW k \in Callers, AskSession(k)
      PROVE  CallsApart'
  <2>1. CASE caller' = caller /\ asked' = asked
    BY <1>1, <2>1, ApartFrame, ZenonT(30) DEF AskSession
  <2>2. CASE ~(caller' = caller /\ asked' = asked)
    <3>0. asked \in Nat
      BY Counts, Zenon
    <3>1. asked' = asked + 1 /\ sent' = sent /\ asked \in Nat
          /\ caller' = [caller EXCEPT ![k] = Call("asks", asked', None)]
      BY <1>1, <2>2, <3>0, ZenonT(30) DEF AskSession
    <3>2. caller'[k].state = "asks" /\ caller'[k].session = asked + 1
      BY <3>1, ZenonT(30) DEF Types, CallsType, Call
    <3>3. \A j \in Callers : j # k => caller'[j] = caller[j]
      BY <3>1 DEF Types, CallsType
    <3>4. \A j \in Callers : Asking(j) => caller[j].session \in Nat
      BY Ids, Zenon DEF Types, CallsInv
    <3>5. \A j \in Callers : Asking(j) => caller[j].session # asked + 1
      BY <3>1, <3>4 DEF CallsApart
    <3>6. ~Acting(k)'
      BY <3>2, ZenonT(30) DEF Acting
    <3> QED
      BY <3>1, <3>2, <3>3, <3>5, <3>6, ApartBut, SMTT(30)
  <2> QED
    BY <2>1, <2>2, SMTT(30)
<1>2. ASSUME NEW k \in Callers, Act(k)
      PROVE  CallsApart'
  <2>1. sent' = sent + 1 /\ asked' = asked /\ sent \in Nat
        /\ caller' = [caller EXCEPT ![k] = Call("acts", session, sent')]
    BY <1>2 DEF Act, Types, CallsType
  <2>2. caller'[k].state = "acts" /\ caller'[k].action = sent + 1
    BY <2>1 DEF Types, CallsType, Call
  <2>3. \A j \in Callers : j # k => caller'[j] = caller[j]
    BY <2>1, SMTT(30) DEF Types, CallsType
  <2>4. \A j \in Callers : Acting(j) => caller[j].action \in Nat
    BY Ids, Zenon DEF Types, CallsInv
  <2>5. \A j \in Callers : Acting(j) => caller[j].action # sent + 1
    BY <2>1, <2>4 DEF CallsApart
  <2>6. ~Asking(k)'
    BY <2>2 DEF Asking
  <2> QED
    BY <2>1, <2>2, <2>3, <2>5, <2>6, ApartBut
<1>3. ASSUME NEW k \in Callers, Returns(k), UNCHANGED <<asked, sent>>
      PROVE  CallsApart'
  <2>1. Idle \in CallType /\ Idle.state = "idle"
    BY CallsMade DEF Idle, Call
  <2> QED
    BY <1>3, <2>1, ApartKept, Zenon DEF Returns
<1>4. ASSUME NEW k \in Callers, ConsentTimesOut(k) \/ ActTimesOut(k)
      PROVE  CallsApart'
  <2>1. PICK state \in CallStates :
          /\ caller' = [caller EXCEPT ![k].state = state] /\ UNCHANGED <<asked, sent>>
          /\ \/ state = "asked too long" /\ Asking(k)
             \/ state = "acted too long" /\ Acting(k)
    BY <1>4, Zenon DEF ConsentTimesOut, ActTimesOut, CallStates, Asking, Acting
  <2> DEFINE call == [caller[k] EXCEPT !.state = state]
  <2>2. /\ call \in CallType /\ call.state = state
        /\ call.session = caller[k].session /\ call.action = caller[k].action
    BY DEF Types, CallsType, CallType
  <2>3. caller' = [caller EXCEPT ![k] = call]
    BY <2>1, ZenonT(30)
  <2> HIDE DEF call
  <2> QED
    BY <2>1, <2>2, <2>3, ApartKept, Zenon
<1>5. ASSUME NEW k \in Callers, Calls(k)
      PROVE  CallsApart'
  BY <1>1, <1>2, <1>3, <1>4, <1>5, ApartFrame, ZenonT(30)
     DEF Calls, SessionAnswered, GiveUpAsking, ActExpired, ActAnswered, GiveUpActing,
         EndSession, calls
<1>6. ASSUME NEW c \in Conns, Connect(c) \/ ServeEnds(c) \/ ServeReads(c) \/ Revoke
      PROVE  CallsApart'
  BY <1>6, ApartFrame, ZenonT(30) DEF Connect, ServeEnds, Disconnect, ServeReads, Revoke, calls
<1>7. CASE Revoke \/ SessionExpires \/ Dial
  BY <1>7, ApartFrame DEF Revoke, SessionExpires, Dial, calls
<1>8. CASE UNCHANGED hub
  BY <1>8, ApartFrame, ZenonT(30) DEF hub, calls
<1> QED
  BY <1>5, <1>6, <1>7, <1>8 DEF Next, HubNext, vars

LEMMA FailWaitersAll ==
  ASSUME Types, WaitersReachable, FailWaiters, NEW k \in Callers,
         caller[k].state \in {"asks", "acts"}
  PROVE  answer'[k] # "none"
<1>1. answer'[k] = IF Asks(k, asking) \/ Acts(k, pending) THEN "gone" ELSE answer[k]
  BY ZenonT(30) DEF FailWaiters
<1>2. CASE answer[k] = "none" /\ caller[k].state = "asks"
  <2>1. asking = caller[k].session /\ asking # None
    BY <1>2, Ids, ZenonT(30) DEF WaitersReachable, Types, CallsInv, Asking
  <2> QED
    BY <1>1, <1>2, <2>1, SMTT(30) DEF Asks
<1>3. CASE answer[k] = "none" /\ caller[k].state = "acts"
  <2>1. pending = caller[k].action /\ pending # None
    BY <1>3, Ids, ZenonT(30) DEF WaitersReachable, Types, CallsInv, Acting
  <2> QED
    BY <1>1, <1>3, <2>1, SMTT(30) DEF Acts
<1> QED
  BY <1>1, <1>2, <1>3, ZenonT(30)

\* A step that answers whom it stops reaching.
LEMMA WaitersAnswered ==
  ASSUME WaitersReachable, caller' = caller, live' = live,
         \A k \in Callers : \/ answer'[k] # "none"
                            \/ answer'[k] = answer[k],
         \/ asking' = asking
         \/ \A k \in Callers : caller[k].state = "asks" => answer'[k] # "none",
         \/ pending' = pending
         \/ \A k \in Callers : caller[k].state = "acts" => answer'[k] # "none"
  PROVE  WaitersReachable'
BY DEF WaitersReachable

LEMMA WaitersReads ==
  ASSUME Types, WaitersReachable, NEW c \in Conns, ServeReads(c)
  PROVE  WaitersReachable'
<1>1. CASE live # c
  BY <1>1, Zenon DEF ServeReads, entry, WaitersReachable
<1>2. CASE live = c
  <2>1. up[c] \in Seq(DeviceFrames) /\ up[c] # <<>>
    BY ZenonT(30) DEF ServeReads, Types, WireType
  <2>2. PICK f \in DeviceFrames : f = Head(up[c])
    BY <2>1, SMTT(30)
  <2>3. OnFrame(f) /\ live' = live /\ caller' = caller
    BY <1>2, <2>2, ZenonT(30) DEF ServeReads
  \* Everybody who waits for it waits for what is open.
  <2>4. ASSUME NEW k \in Callers, answer[k] = "none"
        PROVE  /\ caller[k].state = "asks" => Asks(k, asking)
               /\ caller[k].state = "acts" => Acts(k, pending)
    BY <2>4, Ids, Zenon DEF WaitersReachable, Types, CallsInv, Asking, Acting, Asks, Acts
  <2>5. CASE f.type = "granted" \/ f.type = "denied"
    <3>1. \/ UNCHANGED <<answer, asking, pending>>
          \/ /\ pending' = pending
             /\ AnswerAsk(asking, "granted") \/ AnswerAsk(asking, "denied")
      BY <2>3, <2>5, ZenonT(30) DEF OnFrame, OnGranted, OnDenied
    <3>2. CASE UNCHANGED <<answer, asking, pending>>
      BY <2>3, <3>2, WaitersAnswered, ZenonT(30)
    <3>3. ASSUME NEW what \in {"granted", "denied"}, AnswerAsk(asking, what), pending' = pending
          PROVE  WaitersReachable'
      <4>1. \A k \in Callers : answer'[k] = IF Asks(k, asking) THEN what ELSE answer[k]
        BY <3>3, ZenonT(30) DEF AnswerAsk
      <4>2. \A k \in Callers : caller[k].state = "asks" => answer'[k] # "none"
        BY <2>4, <4>1
      <4> QED
        BY <2>3, <3>3, <4>1, <4>2, WaitersAnswered
    <3> QED
      BY <3>1, <3>2, <3>3, ZenonT(30)
  <2>6. CASE f.type = "result" \/ f.type = "end"
    <3>1. \/ UNCHANGED <<answer, asking, pending>>
          \/ /\ asking' = asking
             /\ \E what \in Told : AnswerAct(pending, what)
      BY <2>3, <2>6, DeviceFrameRead, ZenonT(30)
         DEF OnFrame, OnResult, OnSessionEnd, Told, Verdicts, Reasons
    <3>2. CASE UNCHANGED <<answer, asking, pending>>
      BY <2>3, <3>2, WaitersAnswered
    <3>3. ASSUME NEW what \in Told, AnswerAct(pending, what), asking' = asking
          PROVE  WaitersReachable'
      <4>1. what # "none"
        BY DEF Told
      <4>2. \A k \in Callers : answer'[k] = IF Acts(k, pending) THEN what ELSE answer[k]
        BY <3>3, ZenonT(30) DEF AnswerAct
      <4>3. \A k \in Callers : caller[k].state = "acts" => answer'[k] # "none"
        BY <2>4, <4>1, <4>2, SMTT(30)
      <4> QED
        BY <2>3, <3>3, <4>1, <4>2, <4>3, WaitersAnswered
    <3> QED
      BY <3>1, <3>2, <3>3, ZenonT(30)
  <2> QED
    BY <2>3, <2>5, <2>6, ZenonT(30) DEF OnFrame
<1> QED
  BY <1>1, <1>2, SMTT(30)

\* One caller's call changes, and what is open stays open for the others.
LEMMA WaitersBut ==
  ASSUME Types, WaitersReachable, NEW k \in Callers, live' = live,
         \A j \in Callers : j # k => caller'[j] = caller[j] /\ answer'[j] = answer[j],
         \A j \in Callers \ {k} : answer[j] = "none" =>
           /\ caller[j].state = "asks" => asking' = asking
           /\ caller[j].state = "acts" => pending' = pending,
         answer'[k] = "none" =>
           /\ caller'[k].state = "asks" => live # None /\ asking' = caller'[k].session
           /\ caller'[k].state = "acts" => live # None /\ pending' = caller'[k].action
  PROVE  WaitersReachable'
BY Zenon DEF WaitersReachable

LEMMA WaitersCalls ==
  ASSUME Types, WaitersReachable, CallsApart, NEW k \in Callers, Calls(k)
  PROVE  WaitersReachable'
<1> USE DEF Types, CallsType
\* Whoever waits for an answer waits for what is open, which is something.
<1>1. ASSUME NEW j \in Callers, answer[j] = "none"
      PROVE  /\ caller[j].state = "asks" => asking = caller[j].session /\ asking # None
             /\ caller[j].state = "acts" => pending = caller[j].action /\ pending # None
  BY <1>1, Ids, ZenonT(30) DEF WaitersReachable, CallsInv, Asking, Acting
<1>2. live' = live
  BY Zenon DEF Calls, AskSession, SessionAnswered, ConsentTimesOut, GiveUpAsking, ActExpired, Act,
         ActAnswered, ActTimesOut, GiveUpActing, EndSession, entry
<1>3. CASE UNCHANGED <<caller, answer, asking, pending>>
  BY <1>2, <1>3 DEF WaitersReachable
<1>4. ASSUME AskSession(k), ~UNCHANGED <<caller, answer, asking, pending>>
      PROVE  WaitersReachable'
  <2>1. /\ asking = None /\ live # None /\ answer' = answer /\ pending' = pending
        /\ asking' = asked' /\ caller' = [caller EXCEPT ![k] = Call("asks", asked', None)]
    BY <1>4, Zenon DEF AskSession
  <2>2. caller'[k].state = "asks" /\ caller'[k].session = asking'
    BY <2>1 DEF Call
  <2>3. \A j \in Callers : j # k => caller'[j] = caller[j]
    BY <2>1, ZenonT(30)
  <2> HIDE DEF Types, CallsType
  <2> QED
    BY <1>1, <1>2, <2>1, <2>2, <2>3, WaitersBut, ZenonT(30)
<1>5. ASSUME Act(k)
      PROVE  WaitersReachable'
  <2>1. /\ pending = None /\ live # None /\ answer' = answer /\ asking' = asking
        /\ pending' = sent' /\ caller' = [caller EXCEPT ![k] = Call("acts", session, sent')]
    BY <1>5, ZenonT(30) DEF Act, Holds, LinkInv
  <2>2. caller'[k].state = "acts" /\ caller'[k].action = pending'
    BY <2>1 DEF Call
  <2>3. \A j \in Callers : j # k => caller'[j] = caller[j]
    BY <2>1, SMTT(30)
  <2> QED
    BY <1>1, <1>2, <2>1, <2>2, <2>3, WaitersBut, ZenonT(30)
<1>6. ASSUME ConsentTimesOut(k) \/ ActTimesOut(k)
      PROVE  WaitersReachable'
  <2>1. /\ UNCHANGED <<answer, asking, pending>>
        /\ caller'[k].state \in {"asked too long", "acted too long"}
        /\ \A j \in Callers : j # k => caller'[j] = caller[j]
    BY <1>6, ZenonT(30) DEF ConsentTimesOut, ActTimesOut, entry, CallType
  <2> QED
    BY <1>2, <2>1, WaitersBut, Zenon
<1>7. ASSUME Returns(k),
             asking' # asking => Asking(k) /\ asking = caller[k].session,
             pending' # pending => Acting(k) /\ pending = caller[k].action
      PROVE  WaitersReachable'
  <2>1. caller'[k].state = "idle"
    BY <1>7, Zenon DEF Returns, Idle, Call
  <2>2. \A j \in Callers : j # k => caller'[j] = caller[j] /\ answer'[j] = answer[j]
    BY <1>7, SMTT(30) DEF Returns
  <2>3. ASSUME NEW j \in Callers \ {k}, answer[j] = "none"
        PROVE  /\ caller[j].state = "asks" => asking' = asking
               /\ caller[j].state = "acts" => pending' = pending
    BY <1>1, <1>7, <2>3, ZenonT(30) DEF CallsApart, Asking, Acting
  <2> HIDE DEF Types, CallsType
  <2> QED
    BY <1>2, <2>1, <2>2, <2>3, WaitersBut, ZenonT(30)
<1>8. CASE SessionAnswered(k) \/ ActAnswered(k)
  BY <1>7, <1>8 DEF SessionAnswered, ActAnswered, entry
<1>9. CASE GiveUpAsking(k)
  BY <1>7, <1>9, Zenon DEF GiveUpAsking, Asking
<1>10. CASE GiveUpActing(k)
  BY <1>7, <1>10, Zenon DEF GiveUpActing, Acting
<1>11. CASE ActExpired(k) \/ EndSession(k)
  BY <1>3, <1>11 DEF ActExpired, EndSession, calls
<1> QED
  BY <1>3, <1>4, <1>5, <1>6, <1>8, <1>9, <1>10, <1>11 DEF Calls

LEMMA WaitersStep ==
  Types /\ CallsApart /\ WaitersReachable /\ [Next]_vars => WaitersReachable'
<1> SUFFICES ASSUME Types, CallsApart, WaitersReachable, [Next]_vars
             PROVE  WaitersReachable'
  BY ZenonT(30)
<1>1. ASSUME UNCHANGED <<caller, answer, live, asking, pending>>
      PROVE  WaitersReachable'
  BY <1>1, ZenonT(30) DEF WaitersReachable
<1>2. ASSUME FailWaiters, caller' = caller
      PROVE  WaitersReachable'
  BY <1>2, FailWaitersAll, ZenonT(30) DEF WaitersReachable
<1>3. ASSUME NEW c \in Conns, Connect(c) \/ ServeEnds(c)
      PROVE  WaitersReachable'
  BY <1>1, <1>2, <1>3, ZenonT(30) DEF Connect, ServeEnds, Disconnect, entry, calls
<1>4. CASE Revoke \/ SessionExpires \/ Dial
  BY <1>1, <1>2, <1>4, ZenonT(30) DEF Revoke, SessionExpires, Dial, entry, calls
<1>5. CASE UNCHANGED hub
  BY <1>1, <1>5 DEF hub, entry, calls
<1> QED
  BY <1>3, <1>4, <1>5, WaitersReads, WaitersCalls DEF Next, HubNext, vars

\* Nobody is left to sit out a timeout on a connection that ended, was
\* replaced or was revoked, or on a question that another caller withdrew.
THEOREM WaitersAlwaysReachable == Spec => []WaitersReachable
<1>1. Init => CallsApart /\ WaitersReachable
  <2>1. Init => \A k \in Callers : caller[k].state = "idle"
    BY DEF Init, HubInit, Idle, Call
  <2> QED
    BY <2>1, Zenon DEF CallsApart, WaitersReachable, Asking, Acting
<1> QED
  BY <1>1, ApartStep, WaitersStep, TypesInvariant, PTL DEF Spec
=============================================================================
