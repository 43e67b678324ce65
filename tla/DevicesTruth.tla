---------------------------- MODULE DevicesTruth ----------------------------
(***************************************************************************)
(* Proofs about Devices, for any number of connections, sessions, actions  *)
(* and callers: what a caller is told of an action is what happened on the *)
(* machine, and nothing happens there that the person did not allow.       *)
(*                                                                         *)
(* Both rest on the life of an action.  Its frame goes to the device once, *)
(* on the connection the device is on; read, it is one task; over, it is   *)
(* never taken up again, so what was said of it stays true.                *)
(***************************************************************************)
EXTENDS DevicesProofs

-----------------------------------------------------------------------------
(* The action frames on the way to the device *)

Carries(q, a) == \E i \in 1..Len(q) : q[i].type = "action" /\ q[i].action = a

\* No action twice.
Once(q) ==
  \A i, j \in 1..Len(q) :
    q[i].type = "action" /\ q[j].type = "action" /\ q[i].action = q[j].action => i = j

LEMMA CarriesAppend ==
  ASSUME NEW q \in Seq(CellFrames), NEW f \in CellFrames, NEW a, Carries(Append(q, f), a)
  PROVE  Carries(q, a) \/ (f.type = "action" /\ f.action = a)
<1>1. PICK i \in 1..Len(Append(q, f)) :
        Append(q, f)[i].type = "action" /\ Append(q, f)[i].action = a
  BY DEF Carries
<1>2. CASE i = Len(q) + 1
  BY <1>1, <1>2
<1>3. CASE i # Len(q) + 1
  <2>1. i \in 1..Len(q) /\ Append(q, f)[i] = q[i]
    BY <1>3
  <2> QED
    BY <1>1, <2>1 DEF Carries
<1> QED
  BY <1>2, <1>3

LEMMA OnceAppend ==
  ASSUME NEW q \in Seq(CellFrames), NEW f \in CellFrames, Once(q),
         f.type = "action" => ~Carries(q, f.action)
  PROVE  Once(Append(q, f))
<1> DEFINE p == Append(q, f)
<1>1. Len(p) = Len(q) + 1 /\ p[Len(q) + 1] = f /\ \A i \in 1..Len(q) : p[i] = q[i]
  OBVIOUS
<1> HIDE DEF p
<1>2. Len(q) \in Nat
  OBVIOUS
<1>3. SUFFICES ASSUME NEW i \in 1..Len(p), NEW j \in 1..Len(p), i # j,
                      p[i].type = "action", p[j].type = "action", p[i].action = p[j].action
               PROVE  FALSE
  BY DEF Once, p
<1>4. CASE i \in 1..Len(q) /\ j \in 1..Len(q)
  BY <1>1, <1>3, <1>4 DEF Once
<1>5. CASE i = Len(q) + 1 /\ j \in 1..Len(q)
  BY <1>1, <1>3, <1>5 DEF Carries
<1>6. CASE j = Len(q) + 1 /\ i \in 1..Len(q)
  BY <1>1, <1>3, <1>6 DEF Carries
<1> QED
  BY <1>1, <1>2, <1>3, <1>4, <1>5, <1>6

LEMMA TailShifts ==
  ASSUME NEW q \in Seq(CellFrames), q # <<>>
  PROVE  /\ Len(q) \in Nat /\ Len(Tail(q)) = Len(q) - 1 /\ Len(q) >= 1
         /\ \A i \in 1..Len(Tail(q)) : i + 1 \in 1..Len(q) /\ Tail(q)[i] = q[i + 1]
         /\ Head(q) = q[1]
OBVIOUS

LEMMA CarriesTail ==
  ASSUME NEW q \in Seq(CellFrames), q # <<>>, NEW a, Carries(Tail(q), a)
  PROVE  Carries(q, a)
<1>1. PICK i \in 1..Len(Tail(q)) : Tail(q)[i].type = "action" /\ Tail(q)[i].action = a
  BY Zenon DEF Carries
<1>2. i + 1 \in 1..Len(q) /\ Tail(q)[i] = q[i + 1]
  BY TailShifts
<1> QED
  BY <1>1, <1>2 DEF Carries

LEMMA OnceTail ==
  ASSUME NEW q \in Seq(CellFrames), q # <<>>, Once(q)
  PROVE  /\ Once(Tail(q))
         /\ Head(q).type = "action" => Carries(q, Head(q).action) /\ ~Carries(Tail(q), Head(q).action)
<1> DEFINE p == Tail(q)
<1>1. /\ Len(q) \in Nat /\ Len(p) = Len(q) - 1 /\ Len(q) >= 1
      /\ \A i \in 1..Len(p) : i + 1 \in 1..Len(q) /\ p[i] = q[i + 1]
      /\ Head(q) = q[1]
  BY TailShifts
<1> HIDE DEF p
<1>2. Once(p)
  <2> SUFFICES ASSUME NEW i \in 1..Len(p), NEW j \in 1..Len(p),
                      p[i].type = "action", p[j].type = "action", p[i].action = p[j].action
               PROVE  i = j
    BY DEF Once
  <2>1. i + 1 = j + 1
    BY <1>1, ZenonT(30) DEF Once
  <2> QED
    BY <1>1, <2>1
<1>3. ASSUME Head(q).type = "action"
      PROVE  Carries(q, Head(q).action) /\ ~Carries(p, Head(q).action)
  <2>1. 1 \in 1..Len(q)
    BY <1>1
  <2>2. ASSUME Carries(p, Head(q).action)
        PROVE  FALSE
    <3>1. PICK i \in 1..Len(p) : p[i].type = "action" /\ p[i].action = Head(q).action
      BY <2>2 DEF Carries
    <3>2. i + 1 = 1
      BY <1>1, <1>3, <2>1, <3>1 DEF Once
    <3> QED
      BY <1>1, <3>2
  <2> QED
    BY <1>1, <1>3, <2>1, <2>2 DEF Carries
<1> QED
  BY <1>2, <1>3 DEF p

InDown(a) == \E c \in Conns : Carries(down[c], a)

\* Frames wait only on the connection the device is on, no action twice.
DownOnce == \A c \in Conns : Once(down[c]) /\ (c # link => down[c] = <<>>)

\* No action frame appears in a step.
DownShrinks == \A a \in ActionIds : InDown(a)' => InDown(a)

LEMMA DownSame == ASSUME DownOnce, UNCHANGED <<down, link>> PROVE DownOnce' /\ DownShrinks
BY DEF DownOnce, DownShrinks, InDown

LEMMA DownSent ==
  ASSUME Types, DownOnce, link' = link, NEW c \in Conns, NEW f \in CellFrames,
         SendDown(c, f) \/ TrySend(c, f),
         f.type = "action" => ~InDown(f.action)
  PROVE  /\ DownOnce'
         /\ \A a \in ActionIds : InDown(a)' => InDown(a) \/ (f.type = "action" /\ f.action = a)
<1>1. CASE down' = down
  BY <1>1, DownSame DEF DownShrinks
<1>2. CASE down' # down
  <2>1. c = link /\ down' = [down EXCEPT ![c] = Append(@, f)]
    BY <1>2 DEF SendDown, TrySend
  <2>2. down[c] \in Seq(CellFrames) /\ down'[c] = Append(down[c], f)
    BY <2>1 DEF Types, WireType
  <2>3. \A d \in Conns : d # c => down'[d] = down[d]
    BY <2>1 DEF Types, WireType
  <2>4. Once(down'[c])
    <3>1. f.type = "action" => ~Carries(down[c], f.action)
      BY DEF InDown
    <3> QED
      BY <2>2, <3>1, OnceAppend DEF DownOnce
  <2>5. DownOnce'
    BY <2>1, <2>3, <2>4 DEF DownOnce
  <2>6. ASSUME NEW a \in ActionIds, InDown(a)'
        PROVE  InDown(a) \/ (f.type = "action" /\ f.action = a)
    <3>1. PICK d \in Conns : Carries(down'[d], a)
      BY <2>6 DEF InDown
    <3>2. CASE d = c
      <4>1. PICK q \in Seq(CellFrames) : q = down[c]
        BY <2>2
      <4>2. Carries(Append(q, f), a)
        BY <2>2, <3>1, <3>2, <4>1, Zenon
      <4>3. Carries(q, a) \/ (f.type = "action" /\ f.action = a)
        BY <4>2, CarriesAppend
      <4> QED
        BY <4>1, <4>3 DEF InDown
    <3>3. CASE d # c
      BY <2>3, <3>1, <3>3 DEF InDown
    <3> QED
      BY <3>2, <3>3
  <2> QED
    BY <2>5, <2>6
<1> QED
  BY <1>1, <1>2

LEMMA DownRead ==
  ASSUME Types, DownOnce, link' = link, link \in Conns, down[link] # <<>>,
         down' = [down EXCEPT ![link] = Tail(@)], NEW f, f = Head(down[link])
  PROVE  /\ DownOnce' /\ DownShrinks
         /\ f.type = "action" => InDown(f.action) /\ ~InDown(f.action)'
<1> PICK c \in Conns : c = link
  OBVIOUS
<1>1. /\ down[c] \in Seq(CellFrames) /\ down[c] # <<>> /\ down'[c] = Tail(down[c])
      /\ \A d \in Conns : d # c => down'[d] = down[d] /\ down'[d] = <<>>
  BY DEF Types, WireType, DownOnce
<1>2. /\ Once(down'[c])
      /\ f.type = "action" => Carries(down[c], f.action) /\ ~Carries(down'[c], f.action)
  BY <1>1, OnceTail DEF DownOnce
<1>3. DownOnce'
  BY <1>1, <1>2 DEF DownOnce
<1>4. ASSUME NEW a, NEW d \in Conns, Carries(down'[d], a)
      PROVE  d = c /\ Carries(down[c], a)
  <2>1. d = c
    BY <1>1, <1>4 DEF Carries
  <2> QED
    BY <1>1, <1>4, <2>1, CarriesTail
<1>5. DownShrinks
  BY <1>4 DEF DownShrinks, InDown
<1>6. f.type = "action" => InDown(f.action) /\ ~InDown(f.action)'
  BY <1>2, <1>4 DEF InDown
<1> QED
  BY <1>3, <1>5, <1>6

\* The hub sends an action in Act alone.
LEMMA DownHub ==
  ASSUME Types, DownOnce, HubNext, UNCHANGED <<link, agent>>
  PROVE  \/ DownOnce' /\ DownShrinks /\ sent' = sent
         \/ \E k \in Callers : Act(k)
<1> SUFFICES ASSUME \A k \in Callers : ~Act(k)
             PROVE  DownOnce' /\ DownShrinks /\ sent' = sent
  OBVIOUS
<1>1. ASSUME NEW c \in Conns, NEW f \in CellFrames, f.type # "action",
             SendDown(c, f) \/ TrySend(c, f)
      PROVE  DownOnce' /\ DownShrinks
  BY <1>1, DownSent DEF DownShrinks
<1>2. ASSUME NEW s \in SessionIds \cup {None}, live \in Conns,
             TrySend(live, SessionEnd(s, "cell"))
      PROVE  DownOnce' /\ DownShrinks
  <2>1. SessionEnd(s, "cell") \in CellFrames /\ SessionEnd(s, "cell").type # "action"
    BY CellFramesMade DEF SessionEnd
  <2> QED
    BY <1>1, <1>2, <2>1
<1>3. live # None => live \in Conns
  BY DEF Types, EntryType
<1>4. ASSUME NEW c \in Conns, Connect(c) \/ ServeEnds(c) \/ ServeReads(c)
      PROVE  DownOnce' /\ DownShrinks /\ sent' = sent
  <2>1. Welcome \in CellFrames /\ Welcome.type # "action"
    BY CellFramesMade DEF Welcome
  <2>2. CASE Connect(c)
    BY <1>1, <2>1, <2>2 DEF Connect
  <2>3. CASE ServeEnds(c) \/ ServeReads(c)
    BY <2>3, DownSame DEF ServeEnds, Disconnect, ServeReads, calls
  <2> QED
    BY <1>4, <2>2, <2>3
<1>5. CASE Revoke
  BY <1>2, <1>3, <1>5 DEF Revoke, Types, EntryType
<1>6. CASE SessionExpires
  BY <1>6, DownSame DEF SessionExpires, wire, calls
<1>7. ASSUME NEW k \in Callers, AskSession(k)
      PROVE  DownOnce' /\ DownShrinks /\ sent' = sent
  <2>1. CASE down' = down
    BY <1>7, <2>1, DownSame DEF AskSession
  <2>2. CASE down' # down
    <3>1. PICK s \in SessionIds : s = asked + 1
      BY <1>7, DeviceWireAssumption DEF AskSession, Types, CallsType, SessionIds
    <3>2. TrySend(live, SessionRequest(s)) /\ live # None /\ sent' = sent
      BY <1>7, <2>2, <3>1 DEF AskSession
    <3>3. SessionRequest(s) \in CellFrames /\ SessionRequest(s).type # "action"
      BY CellFramesMade DEF SessionRequest
    <3> QED
      BY <1>1, <1>3, <3>2, <3>3, ZenonT(30)
  <2> QED
    BY <2>1, <2>2, ZenonT(30)
<1>8. ASSUME NEW k \in Callers, GiveUpAsking(k)
      PROVE  DownOnce' /\ DownShrinks /\ sent' = sent
  <2>1. caller[k].session \in SessionIds
    BY <1>8, Zenon DEF GiveUpAsking, Types, CallsInv, Asking
  <2>2. CASE live = None
    BY <1>8, <2>2, DownSame, Zenon DEF GiveUpAsking
  <2>3. CASE live # None
    BY <1>2, <1>3, <1>8, <2>1, <2>3, Zenon DEF GiveUpAsking
  <2> QED
    BY <2>2, <2>3
<1>9. ASSUME NEW k \in Callers, EndSession(k)
      PROVE  DownOnce' /\ DownShrinks /\ sent' = sent
  <2>1. live # None /\ session \in SessionIds \cup {None}
    BY <1>9 DEF EndSession, Holds, Types, LinkInv, EntryType
  <2> QED
    BY <1>2, <1>3, <1>9, <2>1 DEF EndSession, calls
<1>10. ASSUME NEW k \in Callers,
              \/ SessionAnswered(k) \/ ConsentTimesOut(k) \/ ActExpired(k) \/ ActAnswered(k)
              \/ ActTimesOut(k) \/ GiveUpActing(k)
       PROVE  DownOnce' /\ DownShrinks /\ sent' = sent
  BY <1>10, DownSame, ZenonT(30) DEF SessionAnswered, ConsentTimesOut, ActExpired, ActAnswered,
                         ActTimesOut, GiveUpActing, wire, calls
<1> QED
  BY <1>4, <1>5, <1>6, <1>7, <1>8, <1>9, <1>10 DEF HubNext, Calls

LEMMA DownAgent ==
  ASSUME Types, DownOnce, AgentNext \/ Dial
  PROVE  DownOnce' /\ DownShrinks
<1>1. CASE UNCHANGED <<down, link>>
  BY <1>1, DownSame
<1>2. CASE Welcomed \/ ReadFrame
  <2>1. /\ link \in Conns /\ link' = link /\ down[link] # <<>>
        /\ down' = [down EXCEPT ![link] = Tail(@)]
    BY <1>2 DEF Welcomed, ReadFrame, Types, WireType, LinkInv
  <2> QED
    BY <2>1, DownRead, ZenonT(30)
<1>3. CASE LinkEnds
  <2>1. \A c \in Conns : down'[c] = <<>>
    BY <1>3 DEF LinkEnds, Types, WireType, DownOnce
  <2> QED
    BY <2>1 DEF DownOnce, DownShrinks, InDown, Once, Carries
<1>4. CASE Dial
  <2>1. \A c \in Conns : down'[c] = <<>>
    BY <1>4, Ids, Zenon DEF Dial, Hello, wire, DownOnce
  <2> QED
    BY <2>1 DEF DownOnce, DownShrinks, InDown, Once, Carries
<1> QED
  BY <1>1, <1>2, <1>3, <1>4, Zenon
     DEF AgentNext, SendAnswer, Kill, KillBlockEnds, GrantIsOver, RequestStarts, PersonAnswers,
         RequestAllowed, CheckAction, RunAction, wire

-----------------------------------------------------------------------------
(* The life of an action *)

LifeInv ==
  \A a \in ActionIds :
    /\ InDown(a) => a <= sent
    /\ a > sent \/ InDown(a) => action[a] = "none" /\ performed[a] = 0
    /\ action[a] # "none" => performed[a] = 0
    /\ performed[a] <= 1

LEMMA LifeInit == Init => DownOnce /\ LifeInv
<1> SUFFICES ASSUME Init PROVE DownOnce /\ LifeInv
  OBVIOUS
<1>1. \A c \in Conns : down[c] = <<>>
  BY DEF Init
<1>2. DownOnce /\ \A a \in ActionIds : ~InDown(a)
  BY <1>1, SMTT(30) DEF DownOnce, Once, InDown, Carries
<1> QED
  BY <1>2 DEF Init, AgentInit, LifeInv

\* The actions of the device's step: none begins but one whose frame is read.
LEMMA LifeAgent ==
  ASSUME Types, DownOnce, LifeInv, AgentNext, UNCHANGED <<serve, hub>>
  PROVE  \A a \in ActionIds :
           /\ action[a] = "none" /\ ~InDown(a) =>
                action'[a] = "none" /\ performed'[a] = performed[a] /\ work'[a] = work[a]
           /\ InDown(a)' => action'[a] = "none" /\ performed'[a] = performed[a]
           /\ action'[a] # "none" => performed'[a] = 0
           /\ performed'[a] \in {performed[a], 1}
<1> USE DEF Types, AgentInv, AgentType
<1>1. DownShrinks
  BY DownAgent
<1>2. ASSUME UNCHANGED <<action, work, performed>>, NEW a \in ActionIds
      PROVE  /\ InDown(a)' => action'[a] = "none"
             /\ action'[a] # "none" => performed'[a] = 0
  BY <1>1, <1>2 DEF DownShrinks, LifeInv
<1>3. CASE UNCHANGED <<action, work, performed>>
  BY <1>2, <1>3
<1>4. CASE LinkEnds
  <2>1. performed' = performed /\ work' = work
    BY <1>4 DEF LinkEnds
  <2>2. ASSUME NEW a \in ActionIds
        PROVE  action'[a] # "none" => action[a] # "none"
    BY <1>4, ZenonT(30) DEF LinkEnds
  <2> QED
    BY <1>1, <2>1, <2>2 DEF DownShrinks, LifeInv
<1>5. CASE ReadFrame
  <2>1. /\ link \in Conns /\ link' = link /\ down[link] # <<>>
        /\ down' = [down EXCEPT ![link] = Tail(@)] /\ performed' = performed
    BY <1>5 DEF ReadFrame, WireType, LinkInv
  <2>2. PICK f \in CellFrames : f = Head(down[link])
    BY <2>1 DEF WireType
  <2>3. f.type = "action" => f.action \in ActionIds /\ InDown(f.action) /\ ~InDown(f.action)'
    BY <2>1, <2>2, DownRead, CellFrameRead, ZenonT(30)
  <2>4. CASE f.type # "action"
    BY <1>3, <1>5, <2>1, <2>2, <2>4, ZenonT(30) DEF ReadFrame
  <2>5. CASE f.type = "action"
    <3>1. /\ action' = [action EXCEPT ![f.action] = "check"]
          /\ work' = [work EXCEPT ![f.action] = f.session]
      BY <1>5, <2>2, <2>5 DEF ReadFrame
    <3>2. performed[f.action] = 0
      BY <2>3, <2>5 DEF LifeInv
    <3>3. \A a \in ActionIds : a # f.action => action'[a] = action[a] /\ work'[a] = work[a]
      BY <3>1
    <3> QED
      BY <1>1, <2>1, <2>3, <2>5, <3>2, <3>3, ZenonT(30) DEF DownShrinks, LifeInv
  <2> QED
    BY <2>4, <2>5, ZenonT(30)
<1>6. ASSUME NEW b \in ActionIds, CheckAction(b)
      PROVE  \A a \in ActionIds :
               /\ action[a] = "none" => action'[a] = "none"
               /\ a # b => action'[a] = action[a]
               /\ action[b] # "none" /\ performed' = performed /\ work' = work
  BY <1>6 DEF CheckAction
<1>7. ASSUME NEW b \in ActionIds, CheckAction(b), NEW a \in ActionIds
      PROVE  /\ action[a] = "none" /\ ~InDown(a) =>
                  action'[a] = "none" /\ performed'[a] = performed[a] /\ work'[a] = work[a]
             /\ InDown(a)' => action'[a] = "none" /\ performed'[a] = performed[a]
             /\ action'[a] # "none" => performed'[a] = 0
             /\ performed'[a] \in {performed[a], 1}
  BY <1>1, <1>6, <1>7, ZenonT(30) DEF DownShrinks, LifeInv
<1>8. ASSUME NEW b \in ActionIds, RunAction(b), NEW a \in ActionIds
      PROVE  /\ action[a] = "none" /\ ~InDown(a) =>
                  action'[a] = "none" /\ performed'[a] = performed[a] /\ work'[a] = work[a]
             /\ InDown(a)' => action'[a] = "none" /\ performed'[a] = performed[a]
             /\ action'[a] # "none" => performed'[a] = 0
             /\ performed'[a] \in {performed[a], 1}
  <2>1. /\ action[b] # "none" /\ action'[b] = "none" /\ work' = work
        /\ a # b => action'[a] = action[a] /\ performed'[a] = performed[a]
        /\ performed'[b] \in {performed[b], performed[b] + 1}
    BY <1>8 DEF RunAction
  <2>2. performed[b] = 0 /\ ~InDown(b)
    BY <2>1 DEF LifeInv
  <2> QED
    BY <1>1, <2>1, <2>2 DEF DownShrinks, LifeInv
<1> QED
  BY <1>3, <1>4, <1>5, <1>7, <1>8, ZenonT(30)
     DEF AgentNext, Welcomed, SendAnswer, Kill, KillBlockEnds, GrantIsOver, RequestStarts,
         PersonAnswers, RequestAllowed, tasks

\* Over for good: not to be sent, not on its way, not at work.
Done(a) == a <= sent /\ action[a] = "none" /\ ~InDown(a)

StaysDone(a) ==
  Done(a) => Done(a)' /\ performed'[a] = performed[a] /\ work'[a] = work[a]

LEMMA LifeStep ==
  ASSUME Types, DownOnce, LifeInv, [Next]_vars
  PROVE  DownOnce' /\ LifeInv' /\ \A a \in ActionIds : StaysDone(a)
<1>1. sent \in Nat /\ ActionIds \subseteq Nat
  BY Ids DEF Types, CallsType
<1>2. ASSUME DownOnce', DownShrinks, UNCHANGED <<sent, action, performed, work>>
      PROVE  DownOnce' /\ LifeInv' /\ \A a \in ActionIds : StaysDone(a)
  BY <1>2 DEF DownShrinks, LifeInv, StaysDone, Done
<1>3. CASE Dial
  BY <1>2, <1>3, DownAgent, Zenon DEF Dial, Hello, tasks, calls
<1>4. CASE UNCHANGED vars
  <2>1. UNCHANGED <<down, link, sent, action, performed, work>>
    BY <1>4 DEF vars, wire, hub, calls, agent, tasks
  <2> QED
    BY <1>2, <2>1, DownSame
<1>5. CASE HubNext /\ UNCHANGED <<link, agent>>
  <2>1. UNCHANGED <<action, performed, work>>
    BY <1>5 DEF agent, tasks
  <2>2. CASE DownOnce' /\ DownShrinks /\ sent' = sent
    BY <1>2, <2>1, <2>2, ZenonT(30)
  <2>3. ASSUME NEW k \in Callers, Act(k)
        PROVE  DownOnce' /\ LifeInv' /\ \A a \in ActionIds : StaysDone(a)
    <3>1. PICK b \in ActionIds : b = sent + 1
      BY <2>3, DeviceWireAssumption DEF Act, Types, CallsType, ActionIds
    <3>2. live \in Conns /\ session \in SessionIds
      BY <2>3 DEF Act, Holds, Types, EntryType, LinkInv
    <3>3. PICK s \in SessionIds : s = session
      BY <3>2
    <3>4. sent' = b /\ TrySend(live, ActionFrame(b, s))
      BY <2>3, <3>1, <3>3 DEF Act
    <3>5. PICK f \in CellFrames : f = ActionFrame(b, s)
      BY CellFramesMade
    <3>6. f.type = "action" /\ f.action = b
      BY <3>5 DEF ActionFrame
    <3>7. ~InDown(b) /\ action[b] = "none" /\ performed[b] = 0
      BY <1>1, <3>1, SMTT(30) DEF LifeInv
    <3>8. DownOnce' /\ \A a \in ActionIds : InDown(a)' => InDown(a) \/ a = b
      BY <1>5, <3>2, <3>4, <3>5, <3>6, <3>7, DownSent, ZenonT(30)
    <3>9. ASSUME NEW a \in ActionIds
          PROVE  /\ InDown(a)' => a <= sent'
                 /\ a > sent' \/ InDown(a)' => action'[a] = "none" /\ performed'[a] = 0
                 /\ Done(a) => Done(a)'
      BY <1>1, <2>1, <3>1, <3>4, <3>7, <3>8 DEF LifeInv, Done
    <3> QED
      BY <2>1, <3>8, <3>9, ZenonT(30) DEF LifeInv, StaysDone
  <2> QED
    BY <1>5, <2>2, <2>3, DownHub
<1>6. CASE AgentNext /\ UNCHANGED <<serve, hub>>
  <2>1. DownOnce' /\ DownShrinks /\ sent' = sent
    BY <1>6, DownAgent DEF hub, calls
  <2>2. ASSUME NEW a \in ActionIds
        PROVE  /\ a > sent => action'[a] = "none" /\ performed'[a] = 0
               /\ InDown(a)' => action'[a] = "none" /\ performed'[a] = 0
               /\ action'[a] # "none" => performed'[a] = 0
               /\ performed'[a] <= 1
    <3>1. /\ action[a] = "none" /\ ~InDown(a) =>
               action'[a] = "none" /\ performed'[a] = performed[a]
          /\ InDown(a)' => action'[a] = "none" /\ performed'[a] = performed[a]
          /\ action'[a] # "none" => performed'[a] = 0
          /\ performed'[a] \in {performed[a], 1}
      BY <1>6, LifeAgent
    <3>2. a > sent => ~InDown(a)
      BY <1>1 DEF LifeInv
    <3> QED
      BY <2>1, <3>1, <3>2, SMTT(30) DEF LifeInv, DownShrinks
  <2>3. LifeInv'
    BY <2>1, <2>2, ZenonT(30) DEF LifeInv, DownShrinks
  <2>4. ASSUME NEW a \in ActionIds
        PROVE  StaysDone(a)
    BY <1>6, <2>1, LifeAgent DEF StaysDone, Done, DownShrinks
  <2> QED
    BY <2>1, <2>3, <2>4
<1> QED
  BY <1>3, <1>4, <1>5, <1>6 DEF Next

LEMMA LifeInvariant == Spec => [](DownOnce /\ LifeInv)
<1>1. Types /\ DownOnce /\ LifeInv /\ [Next]_vars => DownOnce' /\ LifeInv'
  BY LifeStep
<1> QED
  BY <1>1, LifeInit, TypesInvariant, PTL DEF Spec

\* What was done is over.
LEMMA PerformedDone ==
  ASSUME Types, LifeInv, NEW a \in ActionIds, performed[a] > 0
  PROVE  Done(a) /\ performed[a] = 1
BY Ids DEF LifeInv, Done, Types, AgentInv, AgentType, CallsType

-----------------------------------------------------------------------------
(* What the device says is so, and stays so *)

Good ==
  {f \in DeviceFrames :
     /\ f.type = "granted" => f.session \in allowed
     /\ f.type = "result" =>
          /\ Done(f.action)
          /\ f.verdict = "ok" => performed[f.action] = 1
          /\ f.verdict = "refused" => performed[f.action] = 0}

FramesGood == up \in [Conns -> Seq(Good)] /\ answers \in Seq(Good)

LEMMA SeqGrows == ASSUME NEW S, NEW T, S \subseteq T, NEW q \in Seq(S) PROVE q \in Seq(T)
OBVIOUS

LEMMA AllowedGrows == [Next]_vars => allowed \subseteq allowed'
<1> SUFFICES ASSUME [Next]_vars PROVE allowed \subseteq allowed'
  BY SMTT(30)
<1>1. CASE AgentNext
  BY <1>1, Zenon DEF AgentNext, Welcomed, LinkEnds, ReadFrame, SendAnswer, Kill, KillBlockEnds,
              GrantIsOver, RequestStarts, PersonAnswers, RequestAllowed, CheckAction, RunAction
<1>2. CASE Dial
  BY <1>2 DEF Dial, Hello
<1>3. CASE UNCHANGED agent
  BY <1>3, ZenonT(30) DEF agent
<1> QED
  BY <1>1, <1>2, <1>3 DEF Next, vars

LEMMA GoodGrows ==
  ASSUME Types, DownOnce, LifeInv, [Next]_vars
  PROVE  Good \subseteq Good'
<1> SUFFICES ASSUME NEW f \in Good PROVE f \in Good'
  OBVIOUS
<1>1. /\ f \in DeviceFrames
      /\ f.type = "granted" => f.session \in allowed
      /\ f.type = "result" =>
           /\ Done(f.action)
           /\ f.verdict = "ok" => performed[f.action] = 1
           /\ f.verdict = "refused" => performed[f.action] = 0
  BY DEF Good
<1>2. f.type = "granted" => f.session \in allowed'
  BY <1>1, AllowedGrows, ZenonT(30)
<1>3. f.type = "result" => Done(f.action)' /\ performed'[f.action] = performed[f.action]
  BY <1>1, LifeStep, DeviceFrameRead, ZenonT(30) DEF StaysDone
<1> QED
  BY <1>1, <1>2, <1>3 DEF Good

\* The frames of the device that promise nothing.
LEMMA GoodPlain ==
  /\ \A s \in SessionIds : SessionDenied(s) \in Good
  /\ \A s \in SessionIds, why \in Reasons : SessionEnd(s, why) \in Good
BY DeviceFramesMade, ZenonT(30) DEF Good, SessionDenied, SessionEnd

LEMMA GoodGrant == ASSUME NEW s \in SessionIds, s \in allowed PROVE SessionGranted(s) \in Good
BY DeviceFramesMade, ZenonT(30) DEF Good, SessionGranted

\* What is said of an action is said once it is over.
LEMMA GoodResult ==
  ASSUME NEW a \in ActionIds, NEW v \in Verdicts, Done(a)',
         v = "ok" => performed'[a] = 1, v = "refused" => performed'[a] = 0
  PROVE  Result(a, v) \in Good'
BY DeviceFramesMade, ZenonT(30) DEF Good, Result

\* On the device, control is by sessions the person allowed.
AgentGood ==
  /\ \A s \in SessionIds : request[s] \in {"allow", "orphan"} => s \in allowed
  /\ granted # None => granted \in allowed
  /\ \A a \in ActionIds :
       /\ action[a] = "check" => work[a] # None
       /\ action[a] \in {"run", "orphan"} => work[a] \in allowed
       /\ performed[a] > 0 => work[a] \in allowed

LEMMA AgentGoodStep ==
  ASSUME Types, DownOnce, LifeInv, AgentGood, [Next]_vars
  PROVE  AgentGood'
<1> USE DEF Types, AgentInv, AgentType
<1>1. allowed \subseteq allowed'
  BY AllowedGrows, ZenonT(30)
<1>2. ASSUME UNCHANGED <<action, work, performed>>,
             granted' \in {granted, None} \/ granted' \in allowed',
             \A s \in SessionIds : request'[s] \in {"allow", "orphan"} =>
               request[s] \in {"allow", "orphan"} \/ s \in allowed'
      PROVE  AgentGood'
  BY <1>1, <1>2, ZenonT(30) DEF AgentGood
<1>3. CASE Dial \/ UNCHANGED agent
  BY <1>2, <1>3, ZenonT(30) DEF Dial, Hello, NowGranted, agent, tasks
<1>4. CASE Welcomed \/ SendAnswer \/ Kill \/ KillBlockEnds \/ GrantIsOver
  BY <1>2, <1>4, ZenonT(30) DEF Welcomed, SendAnswer, Kill, KillBlockEnds, GrantIsOver, NowGranted, tasks
<1>5. ASSUME NEW s \in SessionIds, RequestStarts(s) \/ PersonAnswers(s) \/ RequestAllowed(s)
      PROVE  AgentGood'
  <2>1. UNCHANGED <<action, work, performed>>
    BY <1>5, ZenonT(30) DEF RequestStarts, PersonAnswers, RequestAllowed
  <2>2. granted' \in {granted, None} \/ granted' \in allowed'
    BY <1>1, <1>5, ZenonT(30) DEF RequestStarts, PersonAnswers, RequestAllowed, NowGranted, AgentGood
  <2>3. \A t \in SessionIds : request'[t] \in {"allow", "orphan"} =>
          request[t] \in {"allow", "orphan"} \/ t \in allowed'
    BY <1>5, ZenonT(30) DEF RequestStarts, PersonAnswers, RequestAllowed
  <2> QED
    BY <1>2, <2>1, <2>2, <2>3, ZenonT(30)
<1>6. CASE LinkEnds
  <2>1. UNCHANGED <<work, performed, allowed>> /\ granted' \in {granted, None}
    BY <1>6, ZenonT(30) DEF LinkEnds, NowGranted
  <2>2. \A s \in SessionIds : request'[s] \in {"allow", "orphan"} =>
          request[s] \in {"allow", "orphan"}
    BY <1>6, ZenonT(30) DEF LinkEnds
  <2>3. \A a \in ActionIds : /\ action'[a] # "check"
                             /\ action'[a] \in {"run", "orphan"} => action[a] \in {"run", "orphan"}
    BY <1>6 DEF LinkEnds
  <2> QED
    BY <2>1, <2>2, <2>3, ZenonT(30) DEF AgentGood
<1>7. CASE ReadFrame
  <2>1. /\ link \in Conns /\ link' = link /\ down[link] # <<>>
        /\ down' = [down EXCEPT ![link] = Tail(@)]
        /\ UNCHANGED <<performed, allowed>>
    BY <1>7 DEF ReadFrame, WireType, LinkInv
  <2>2. PICK f \in CellFrames : f = Head(down[link])
    BY <2>1 DEF WireType
  <2>3. CASE f.type # "action"
    <3>1. /\ UNCHANGED <<action, work>> /\ granted' \in {granted, None}
          /\ \A s \in SessionIds : request'[s] \in {request[s], "start"}
      BY <1>7, <2>2, <2>3, CellFrameRead, ZenonT(30) DEF ReadFrame, NowGranted
    <3> QED
      BY <1>2, <2>1, <3>1, ZenonT(30)
  <2>4. CASE f.type = "action"
    <3>1. /\ f.action \in ActionIds /\ f.session \in SessionIds /\ performed[f.action] = 0
      BY <2>1, <2>2, <2>4, DownRead, CellFrameRead, ZenonT(30) DEF LifeInv
    <3>2. /\ action' = [action EXCEPT ![f.action] = "check"]
          /\ work' = [work EXCEPT ![f.action] = f.session]
          /\ UNCHANGED <<granted, request>>
      BY <1>7, <2>2, <2>4, ZenonT(30) DEF ReadFrame
    <3>3. \A a \in ActionIds : a # f.action => action'[a] = action[a] /\ work'[a] = work[a]
      BY <3>2, ZenonT(30)
    <3>4. action'[f.action] = "check" /\ work'[f.action] # None
      BY <3>1, <3>2, Ids, ZenonT(30)
    <3> QED
      BY <2>1, <3>1, <3>2, <3>3, <3>4, SMTT(30) DEF AgentGood
  <2> QED
    BY <2>3, <2>4, ZenonT(30)
<1>8. ASSUME NEW b \in ActionIds, CheckAction(b)
      PROVE  AgentGood'
  <2>1. UNCHANGED <<request, work, performed, allowed>> /\ granted' \in {granted, None}
    BY <1>8, ZenonT(30) DEF CheckAction, NowGranted
  <2>2. \A a \in ActionIds : a # b => action'[a] = action[a]
    BY <1>8, ZenonT(30) DEF CheckAction
  <2>3. \/ action'[b] = "none"
        \/ action'[b] = "run" /\ granted = work[b] /\ action[b] = "check"
    BY <1>8, ZenonT(30) DEF CheckAction
  <2> QED
    BY <2>1, <2>2, <2>3, ZenonT(30) DEF AgentGood
<1>9. ASSUME NEW b \in ActionIds, RunAction(b)
      PROVE  AgentGood'
  <2>1. UNCHANGED <<request, work, granted, allowed>>
    BY <1>9, ZenonT(30) DEF RunAction
  <2>2. \A a \in ActionIds : a # b => action'[a] = action[a] /\ performed'[a] = performed[a]
    BY <1>9, ZenonT(30) DEF RunAction
  <2>3. action'[b] = "none" /\ action[b] \in {"run", "orphan"}
    BY <1>9 DEF RunAction
  <2> QED
    BY <2>1, <2>2, <2>3, ZenonT(30) DEF AgentGood
<1> QED
  BY <1>3, <1>4, <1>5, <1>6, <1>7, <1>8, <1>9, ZenonT(30) DEF Next, AgentNext, vars

LEMMA FramesStep ==
  ASSUME Types, DownOnce, LifeInv, AgentGood, FramesGood, [Next]_vars
  PROVE  FramesGood'
<1> USE DEF FramesGood
<1>1. Good \subseteq Good'
  BY GoodGrows
<1>2. \A q \in Seq(Good) : q \in Seq(Good')
  BY <1>1, SeqGrows
<1>3. ASSUME up' \in [Conns -> Seq(Good)], answers' \in Seq(Good)
      PROVE  FramesGood'
  BY <1>2, <1>3
<1>4. ASSUME up' = up, NEW f \in Good', answers' = Append(answers, f)
      PROVE  FramesGood'
  <2>1. answers \in Seq(Good')
    BY <1>2
  <2>2. answers' \in Seq(Good')
    BY <1>4, <2>1
  <2>3. up' \in [Conns -> Seq(Good')]
    BY <1>2, <1>4, ZenonT(30)
  <2> QED
    BY <2>2, <2>3
<1>5. CASE Dial \/ UNCHANGED vars
  BY <1>3, <1>5 DEF Dial, Hello, wire, tasks, vars, agent
<1>6. CASE HubNext /\ UNCHANGED <<link, agent>>
  <2>1. answers' = answers
    BY <1>6 DEF agent, tasks
  <2>2. ASSUME NEW c \in Conns, Connect(c) \/ ServeEnds(c) \/ ServeReads(c)
        PROVE  up' \in [Conns -> Seq(Good)]
    <3>1. CASE up' = up
      BY <3>1
    <3>2. CASE ServeEnds(c)
      BY <3>2 DEF ServeEnds
    <3>3. CASE ServeReads(c)
      <4>1. up[c] \in Seq(Good) /\ up[c] # <<>> /\ up' = [up EXCEPT ![c] = Tail(@)]
        BY <3>3 DEF ServeReads
      <4>2. Tail(up[c]) \in Seq(Good)
        BY <4>1
      <4> QED
        BY <4>1, <4>2, ZenonT(30)
    <3> QED
      BY <2>2, <3>1, <3>2, <3>3 DEF Connect
  <2>3. CASE Revoke \/ SessionExpires \/ \E k \in Callers : Calls(k)
    BY <1>3, <2>1, <2>3, Zenon
       DEF Revoke, SessionExpires, Calls, AskSession, SessionAnswered, ConsentTimesOut,
           GiveUpAsking, ActExpired, Act, ActAnswered, ActTimesOut, GiveUpActing, EndSession, wire
  <2> QED
    BY <1>3, <1>6, <2>1, <2>2, <2>3 DEF HubNext
<1>7. ASSUME NEW c \in Conns, NEW f \in Good, SendUp(c, f)
      PROVE  up' \in [Conns -> Seq(Good)]
  <2>1. Append(up[c], f) \in Seq(Good)
    OBVIOUS
  <2> QED
    BY <1>7, <2>1 DEF SendUp
<1>8. CASE AgentNext /\ UNCHANGED <<serve, hub>>
  <2>1. CASE Welcomed \/ ReadFrame \/ KillBlockEnds \/ GrantIsOver
    BY <1>3, <2>1 DEF Welcomed, ReadFrame, KillBlockEnds, GrantIsOver, wire, tasks
  <2>2. CASE LinkEnds
    <3>1. up' = up /\ answers' = <<>>
      BY <2>2 DEF LinkEnds
    <3> QED
      BY <1>3, <3>1
  <2>3. CASE SendAnswer
    <3>1. link \in Conns /\ answers \in Seq(Good) /\ answers # <<>>
      BY <2>3 DEF SendAnswer, Types, WireType, LinkInv
    <3>2. Head(answers) \in Good /\ Tail(answers) \in Seq(Good)
      BY <3>1
    <3>3. SendUp(link, Head(answers)) /\ answers' = Tail(answers)
      BY <2>3 DEF SendAnswer
    <3> QED
      BY <1>3, <1>7, <3>1, <3>2, <3>3, ZenonT(30)
  <2>4. CASE Kill
    <3>1. answers' = answers
      BY <2>4, ZenonT(30) DEF Kill, tasks
    <3>2. CASE link # None /\ granted # None
      <4>1. link \in Conns /\ granted \in SessionIds /\ SendUp(link, SessionEnd(granted, "killed"))
        BY <2>4, <3>2 DEF Kill, Types, WireType, AgentInv, AgentType
      <4>2. SessionEnd(granted, "killed") \in Good
        BY <4>1, GoodPlain, ZenonT(30) DEF Reasons
      <4> QED
        BY <1>3, <1>7, <3>1, <4>1, <4>2, ZenonT(30)
    <3>3. CASE ~(link # None /\ granted # None)
      BY <1>3, <2>4, <3>1, <3>3, ZenonT(30) DEF Kill
    <3> QED
      BY <3>2, <3>3
  <2>5. ASSUME NEW s \in SessionIds, RequestStarts(s) \/ PersonAnswers(s) \/ RequestAllowed(s)
        PROVE  FramesGood'
    <3>1. up' = up
      BY <2>5, SMTT(30) DEF RequestStarts, PersonAnswers, RequestAllowed, wire
    <3>2. \/ answers' = answers
          \/ answers' = Append(answers, SessionDenied(s))
          \/ answers' = Append(answers, SessionGranted(s)) /\ s \in allowed
      BY <2>5, Zenon DEF RequestStarts, PersonAnswers, RequestAllowed, AgentGood
    <3>3. SessionDenied(s) \in Good /\ (s \in allowed => SessionGranted(s) \in Good)
      BY GoodPlain, GoodGrant
    <3> QED
      BY <1>1, <1>3, <1>4, <3>1, <3>2, <3>3, ZenonT(30)
  <2>6. ASSUME NEW a \in ActionIds, CheckAction(a)
        PROVE  FramesGood'
    <3>1. up' = up
      BY <2>6 DEF CheckAction, wire
    <3>2. CASE answers' = answers
      BY <1>3, <3>1, <3>2
    <3>3. CASE answers' # answers
      <4>1. action'[a] = "none" /\ action[a] = "check" /\ performed' = performed
        BY <2>6, <3>3, ZenonT(30) DEF CheckAction, Types, AgentInv, AgentType
      <4>2. Done(a)' /\ performed'[a] = 0
        <5>1. DownShrinks /\ sent' = sent
          BY <1>8, DownAgent, ZenonT(30) DEF hub, calls
        <5>2. ~InDown(a) /\ a <= sent /\ performed[a] = 0
          BY <4>1, Ids DEF LifeInv, Types, CallsType
        <5> QED
          BY <4>1, <5>1, <5>2, ZenonT(30) DEF Done, DownShrinks
      <4>3. PICK f \in Good' : f = Result(a, "refused")
        BY <4>2, GoodResult, ZenonT(30) DEF Verdicts
      <4>4. CASE answers' = Append(answers, f)
        BY <1>4, <3>1, <4>4, ZenonT(30)
      <4>5. CASE over /\ answers' = answers \o <<SessionEnd(granted, "checked"), f>>
        <5>1. SessionEnd(granted, "checked") \in Good
          BY <4>5, GoodPlain, ZenonT(30) DEF Types, AgentInv, AgentType, Reasons
        <5>2. PICK e \in Good' : e = SessionEnd(granted, "checked")
          BY <1>1, <5>1
        <5>3. <<e, f>> \in Seq(Good') /\ answers \in Seq(Good')
          BY <1>2
        <5>4. answers' \in Seq(Good')
          BY <4>5, <5>2, <5>3
        <5>5. up' \in [Conns -> Seq(Good')]
          BY <1>2, <3>1, ZenonT(30)
        <5> QED
          BY <5>4, <5>5, ZenonT(30)
      <4> QED
        BY <2>6, <3>3, <4>3, <4>4, <4>5, ZenonT(30) DEF CheckAction
    <3> QED
      BY <3>2, <3>3, ZenonT(30)
  <2>7. ASSUME NEW a \in ActionIds, RunAction(a)
        PROVE  FramesGood'
    <3>1. up' = up /\ action[a] \in {"run", "orphan"} /\ action'[a] = "none"
      BY <2>7 DEF RunAction, wire, Types, AgentInv, AgentType
    <3>2. Done(a)'
      <4>1. DownShrinks /\ sent' = sent
        BY <1>8, DownAgent DEF hub, calls
      <4>2. ~InDown(a) /\ a <= sent
        BY <3>1, Ids DEF LifeInv, Types, CallsType
      <4> QED
        BY <3>1, <4>1, <4>2, ZenonT(30) DEF Done, DownShrinks
    <3>3. PICK did \in BOOLEAN, verdict \in Verdicts :
            /\ (verdict = "ok") => did
            /\ (verdict = "refused") => ~did
            /\ performed' = IF did THEN [performed EXCEPT ![a] = @ + 1] ELSE performed
            /\ answers' = IF action[a] = "orphan" THEN answers
                          ELSE Append(answers, Result(a, verdict))
      BY <2>7, ZenonT(30) DEF RunAction, Verdicts
    <3>4. performed'[a] = IF did THEN 1 ELSE 0
      BY <3>1, <3>3 DEF LifeInv, Types, AgentInv, AgentType
    <3>5. PICK f \in Good' : f = Result(a, verdict)
      BY <3>2, <3>3, <3>4, GoodResult, ZenonT(30)
    <3> QED
      BY <1>3, <1>4, <3>1, <3>3, <3>5, ZenonT(30)
  <2> QED
    BY <1>8, <2>1, <2>2, <2>3, <2>4, <2>5, <2>6, <2>7, ZenonT(30) DEF AgentNext
<1> QED
  BY <1>5, <1>6, <1>8 DEF Next

-----------------------------------------------------------------------------
(* What the hub's callers are told is so *)

TrueOf(a, told) ==
  /\ told = "ok" => Done(a) /\ performed[a] = 1
  /\ told = "refused" => Done(a) /\ performed[a] = 0

ReplyGood(k) ==
  /\ caller[k].state = "asks" /\ answer[k] = "granted" => caller[k].session \in allowed
  /\ caller[k].state = "acts" => TrueOf(caller[k].action, answer[k])

HubGood ==
  /\ session # None => session \in allowed
  /\ \A k \in Callers : ReplyGood(k)
  /\ \A a \in ActionIds : TrueOf(a, outcome[a])

\* Answers that say nothing of what happened.
Vague == {"none", "gone", "denied", "failed", "checked", "killed"}

LEMMA HubGoodStep ==
  ASSUME Types, DownOnce, LifeInv, FramesGood, HubGood, [Next]_vars
  PROVE  HubGood'
<1>1. allowed \subseteq allowed'
  BY AllowedGrows, ZenonT(30)
<1>2. ASSUME NEW a \in ActionIds, NEW told, TrueOf(a, told)
      PROVE  TrueOf(a, told)'
  BY <1>2, LifeStep, ZenonT(30) DEF TrueOf, StaysDone
<1>3. ASSUME NEW k \in Callers, caller'[k] = caller[k], answer'[k] = answer[k]
      PROVE  ReplyGood(k)'
  <2>1. ReplyGood(k)
    BY ZenonT(30) DEF HubGood
  <2>2. CASE caller[k].state = "acts"
    <3>1. PICK a \in ActionIds : a = caller[k].action
      BY <2>2, Zenon DEF Types, CallsInv, Acting
    <3>2. PICK told : told = answer[k]
      BY ZenonT(30)
    <3>3. TrueOf(a, told)'
      BY <1>2, <2>1, <2>2, <3>1, <3>2, ZenonT(30) DEF ReplyGood
    <3>4. TrueOf(caller[k].action, answer[k])'
      BY <1>3, <3>1, <3>2, <3>3, ZenonT(30) DEF TrueOf
    <3> QED
      BY <1>3, <2>2, <3>4 DEF ReplyGood
  <2>3. CASE caller[k].state # "acts"
    BY <1>1, <1>3, <2>1, <2>3, ZenonT(30) DEF ReplyGood
  <2> QED
    BY <2>2, <2>3
<1>4. ASSUME NEW k \in Callers, answer'[k] \in Vague
      PROVE  ReplyGood(k)'
  BY <1>4, ZenonT(30) DEF ReplyGood, TrueOf, Vague
<1>5. ASSUME outcome' = outcome
      PROVE  \A a \in ActionIds : TrueOf(a, outcome[a])'
  <2> SUFFICES ASSUME NEW a \in ActionIds PROVE TrueOf(a, outcome[a])'
    OBVIOUS
  <2>1. PICK told : told = outcome[a]
    OBVIOUS
  <2>2. TrueOf(a, told)'
    BY <1>2, <2>1, ZenonT(30) DEF HubGood
  <2> QED
    BY <1>5, <2>1, <2>2, ZenonT(30) DEF TrueOf
<1>6. ASSUME session' \in {session, None}
      PROVE  session' # None => session' \in allowed'
  BY <1>1, <1>6, ZenonT(30) DEF HubGood
<1>7. ASSUME UNCHANGED <<session, caller, answer, outcome>>
      PROVE  HubGood'
  BY <1>3, <1>5, <1>6, <1>7, ZenonT(30) DEF HubGood
<1>8. CASE Dial \/ UNCHANGED hub \/ SessionExpires
  BY <1>7, <1>8, SMTT(30) DEF Dial, SessionExpires, hub, entry, calls
\* A connection comes or goes.
<1>9. ASSUME session' \in {session, None}, outcome' = outcome, caller' = caller,
             FailWaiters \/ answer' = answer
      PROVE  HubGood'
  <2>1. \A k \in Callers : answer'[k] = answer[k] \/ answer'[k] \in Vague
    BY <1>9, ZenonT(30) DEF FailWaiters, Vague
  <2> QED
    BY <1>3, <1>4, <1>5, <1>6, <1>9, <2>1, Zenon DEF HubGood
<1>10. ASSUME NEW c \in Conns, Connect(c) \/ ServeEnds(c) \/ Revoke
       PROVE  HubGood'
  BY <1>9, <1>10, ZenonT(30) DEF Connect, ServeEnds, Disconnect, Revoke, NowLive, entry, calls
<1>11. CASE Revoke
  BY <1>9, <1>11 DEF Revoke, NowLive
\* A frame of the device answers the caller it is for.
<1>12. ASSUME NEW c \in Conns, ServeReads(c)
       PROVE  HubGood'
  <2>1. caller' = caller /\ outcome' = outcome
    BY <1>12, ZenonT(30) DEF ServeReads
  <2>2. CASE live # c
    BY <1>7, <1>12, <2>1, <2>2, ZenonT(30) DEF ServeReads, entry
  <2>3. CASE live = c
    <3>1. up[c] \in Seq(Good) /\ up[c] # <<>>
      BY <1>12, ZenonT(30) DEF ServeReads, FramesGood
    <3>2. PICK f \in Good : f = Head(up[c])
      BY <3>1
    <3>3. OnFrame(f)
      BY <1>12, <2>3, <3>2, ZenonT(30) DEF ServeReads
    <3>4. f \in DeviceFrames
      BY DEF Good
    <3>5. session' \in {session, None}
      BY <3>3, ZenonT(30) DEF OnFrame, OnSessionEnd
    <3>6. ASSUME NEW k \in Callers
          PROVE  ReplyGood(k)'
      <4>1. CASE answer'[k] = answer[k] \/ answer'[k] \in Vague
        BY <1>3, <1>4, <2>1, <4>1, ZenonT(30)
      <4>2. CASE f.type = "granted" /\ answer'[k] # answer[k]
        <5>1. Asks(k, f.session) /\ answer'[k] = "granted"
          BY <3>3, <4>2, ZenonT(30) DEF OnFrame, OnGranted, AnswerAsk
        <5>2. f.session \in allowed
          BY <4>2, ZenonT(30) DEF Good
        <5> QED
          BY <1>1, <2>1, <5>1, <5>2, ZenonT(30) DEF ReplyGood, Asks
      <4>3. CASE f.type = "result" /\ answer'[k] # answer[k]
        <5>1. Acts(k, f.action) /\ answer'[k] = f.verdict
          BY <3>3, <4>3, ZenonT(30) DEF OnFrame, OnResult, AnswerAct
        <5>2. f.action \in ActionIds /\ TrueOf(f.action, f.verdict)
          BY <3>4, <4>3, DeviceFrameRead, ZenonT(30) DEF Good, TrueOf
        <5>3. TrueOf(f.action, f.verdict)'
          BY <1>2, <5>2, ZenonT(30)
        <5> QED
          BY <2>1, <5>1, <5>3, ZenonT(30) DEF ReplyGood, Acts, TrueOf
      <4>4. CASE f.type = "denied" \/ f.type = "end"
        <5>1. f.type = "end" => f.why \in Reasons
          BY <3>4, DeviceFrameRead, ZenonT(30)
        <5>2. answer'[k] = answer[k] \/ answer'[k] \in Vague
          BY <3>3, <4>4, <5>1, SMTT(30)
             DEF OnFrame, OnDenied, OnSessionEnd, AnswerAsk, AnswerAct, Vague, Reasons
        <5> QED
          BY <4>1, <5>2, ZenonT(30)
      <4> QED
        BY <3>3, <4>1, <4>2, <4>3, <4>4, ZenonT(30) DEF OnFrame
    <3> QED
      BY <1>5, <1>6, <2>1, <3>5, <3>6, ZenonT(30) DEF HubGood
  <2> QED
    BY <2>2, <2>3, ZenonT(30)
\* The callers' own steps.
<1>13. ASSUME NEW k \in Callers, Calls(k)
       PROVE  HubGood'
  <2>1. ASSUME NEW j \in Callers, j # k
        PROVE  caller'[j] = caller[j] /\ answer'[j] = answer[j]
    BY <1>13, <2>1, ZenonT(30)
       DEF Calls, AskSession, SessionAnswered, ConsentTimesOut, GiveUpAsking,
         ActExpired, Act, ActAnswered, ActTimesOut, GiveUpActing, EndSession, Returns, calls,
         Types, CallsType
  <2>2. \/ caller'[k] = caller[k] /\ answer'[k] = answer[k]
        \/ answer'[k] = "none"
    BY <1>13, ZenonT(30) DEF Calls, AskSession, SessionAnswered, ConsentTimesOut, GiveUpAsking,
         ActExpired, Act, ActAnswered, ActTimesOut, GiveUpActing, EndSession, Holds, Returns,
         calls, Types, CallsType, CallsInv
  <2>3. \A j \in Callers : ReplyGood(j)'
    BY <1>3, <1>4, <2>1, <2>2, ZenonT(30) DEF Vague
  <2>4. session' # None => session' \in allowed'
    <3>1. CASE SessionAnswered(k)
      BY <1>1, <1>6, <3>1, ZenonT(30) DEF SessionAnswered, HubGood, ReplyGood
    <3>2. CASE session' \in {session, None}
      BY <1>6, <3>2
    <3> QED
      BY <1>13, <3>1, <3>2, ZenonT(30)
         DEF Calls, AskSession, ConsentTimesOut, GiveUpAsking, ActExpired, Act,
           ActAnswered, ActTimesOut, GiveUpActing, EndSession, entry
  <2>5. \A a \in ActionIds : TrueOf(a, outcome[a])'
    <3>1. CASE outcome' = outcome
      BY <1>5, <3>1, ZenonT(30)
    <3>2. CASE ActAnswered(k) \/ GiveUpActing(k)
      <4>1. PICK b \in ActionIds, told \in Told \cup {"none", "timeout"} :
              /\ b = caller[k].action /\ outcome' = [outcome EXCEPT ![b] = told]
              /\ \/ told = answer[k] /\ caller[k].state = "acts"
                 \/ told = "timeout"
        BY <3>2, Zenon DEF ActAnswered, GiveUpActing, Types, CallsInv, Acting
      <4>2. TrueOf(b, told)'
        <5>1. TrueOf(b, told)
          BY <4>1, ZenonT(30) DEF HubGood, ReplyGood, TrueOf
        <5> QED
          BY <1>2, <5>1, ZenonT(30)
      <4>3. ASSUME NEW a \in ActionIds
            PROVE  TrueOf(a, outcome[a])'
        <5>1. CASE a = b
          BY <4>1, <4>2, <5>1, SMTT(30) DEF TrueOf, Types, CallsType
        <5>2. CASE a # b
          <6>1. PICK was : was = outcome[a]
            OBVIOUS
          <6>2. outcome'[a] = was
            BY <4>1, <5>2, <6>1, ZenonT(30) DEF Types, CallsType
          <6>3. TrueOf(a, was)'
            BY <1>2, <6>1 DEF HubGood
          <6> QED
            BY <6>2, <6>3, Zenon DEF TrueOf
        <5> QED
          BY <5>1, <5>2, ZenonT(30)
      <4> QED
        BY <4>3, SMTT(30)
    <3> QED
      BY <1>13, <3>1, <3>2, Zenon
         DEF Calls, AskSession, SessionAnswered, ConsentTimesOut, GiveUpAsking,
           ActExpired, Act, ActTimesOut, EndSession, calls
  <2> QED
    BY <2>3, <2>4, <2>5, ZenonT(30) DEF HubGood
<1> QED
  BY <1>8, <1>10, <1>11, <1>12, <1>13 DEF Next, HubNext, vars

-----------------------------------------------------------------------------

LEMMA GoodInit == Init => AgentGood /\ FramesGood /\ HubGood
<1> SUFFICES ASSUME Init PROVE AgentGood /\ FramesGood /\ HubGood
  OBVIOUS
<1>1. AgentGood
  BY DEF Init, AgentInit, AgentGood
<1>2. FramesGood
  <2>1. up = [c \in Conns |-> <<>>] /\ answers = <<>>
    BY ZenonT(30) DEF Init, AgentInit
  <2> QED
    BY <2>1 DEF FramesGood
<1>3. HubGood
  BY DEF Init, HubInit, HubGood, ReplyGood, TrueOf
<1> QED
  BY <1>1, <1>2, <1>3

LEMMA GoodInvariant == Spec => [](AgentGood /\ FramesGood /\ HubGood)
<1>1. Types /\ DownOnce /\ LifeInv /\ AgentGood /\ FramesGood /\ HubGood /\ [Next]_vars
        => AgentGood' /\ FramesGood' /\ HubGood'
  BY AgentGoodStep, FramesStep, HubGoodStep
<1> QED
  BY <1>1, GoodInit, TypesInvariant, LifeInvariant, PTL DEF Spec

\* The hub never holds a session, and nothing is ever done to the machine, but
\* by the person's yes - for any number of connections, sessions and callers.
THEOREM ControlAlwaysConsented == Spec => []ControlConsented
<1>1. AgentGood /\ HubGood => ControlConsented
  BY DEF AgentGood, HubGood, ControlConsented
<1> QED
  BY <1>1, GoodInvariant, PTL

\* An action is done at most once, and a caller that is told it was done, or
\* that it was refused, is told what happened.
THEOREM AlwaysToldTheTruth == Spec => []ToldTheTruth
<1>1. LifeInv /\ HubGood => ToldTheTruth
  BY DEF LifeInv, HubGood, TrueOf, ToldTheTruth
<1> QED
  BY <1>1, LifeInvariant, GoodInvariant, PTL
=============================================================================
