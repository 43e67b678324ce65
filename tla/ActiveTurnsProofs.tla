------------------------- MODULE ActiveTurnsProofs -------------------------
(***************************************************************************)
(* Theorems about reaching a running turn, for any number of attempts,     *)
(* messages and cancels, and that ActiveTurns implements Turn: the initial *)
(* states are Turn's, and every step is a step of Turn or changes nothing  *)
(* Turn can see.                                                           *)
(***************************************************************************)
EXTENDS ActiveTurns, FiniteSetTheorems, TLAPS

-----------------------------------------------------------------------------
(* Types *)

Phases == {"idle", "claimed", "registered", "child", "linked", "running",
           "ended", "unlinked", "closed", "removed", "done"}
SenderStates == {"idle", "found", "accepted", "refused"}
CancelStates == {"idle", "found", "kill", "children", "kill child", "watchers",
                 "accepted", "refused"}

PhaseType == phase \in [Attempts -> Phases]
RegistryType ==
  /\ running_turns \in SUBSET Keys
  /\ claimed \in SUBSET Attempts /\ guarded \in SUBSET Attempts
  /\ active \in [Requests -> Attempts \cup {Nobody}]
InboxType ==
  /\ inbox \in [Attempts -> SUBSET Messages] /\ read \in [Attempts -> SUBSET Messages]
  /\ closed \in SUBSET Attempts /\ answered \in SUBSET Attempts
TokenType ==
  /\ cancelled \in SUBSET Attempts /\ child \in SUBSET Attempts
  /\ child_cancelled \in SUBSET Attempts /\ watcher \in SUBSET Attempts
  /\ llm_cancelled \in SUBSET Attempts /\ heard \in SUBSET Attempts

\* A thread that is past its search has found a turn.
SenderType ==
  /\ sender \in [Messages -> [state : SenderStates, turn : Attempts \cup {Nobody}]]
  /\ \A m \in Messages : sender[m].state \in {"found", "accepted"} => sender[m].turn \in Attempts
CancellerType ==
  /\ canceller \in [Cancellers -> [state : CancelStates, turn : Attempts \cup {Nobody}]]
  /\ \A c \in Cancellers :
       canceller[c].state \notin {"idle", "refused"} => canceller[c].turn \in Attempts

Types ==
  /\ PhaseType /\ RegistryType /\ InboxType /\ TokenType /\ SenderType /\ CancellerType

LEMMA TypesInit == Init => Types
<1> SUFFICES ASSUME Init PROVE Types
  OBVIOUS
<1>1. PhaseType /\ RegistryType /\ InboxType /\ TokenType
  BY DEF Init, PhaseType, RegistryType, InboxType, TokenType, Phases
<1>2. SenderType /\ CancellerType
  BY ZenonT(30) DEF Init, SenderType, CancellerType, Thread, SenderStates, CancelStates
<1> QED
  BY <1>1, <1>2 DEF Types

\* The steps of an attempt leave the senders and the cancellers alone.
LEMMA TypesAttempt ==
  ASSUME Types, NEW a \in Attempts,
         \/ Setup(a) \/ Round(a) \/ Answer(a) \/ RoundCancelled(a) \/ LoopFails(a)
         \/ CallerGone(a) \/ Teardown(a)
  PROVE  Types'
<1> USE DEF Types, PhaseType, RegistryType, InboxType, TokenType, SenderType,
            CancellerType, registry, inboxes, tokens
<1>1. TurnKey[a] \in Keys /\ RequestId[a] \in Requests
  BY DEF Keys, Requests
<1>2. ASSUME NEW from, NEW to \in Phases, Move(a, from, to)
      PROVE  PhaseType'
  BY <1>2, ZenonT(30) DEF Move
<1>3. CASE Claim(a)
  BY <1>1, <1>2, <1>3 DEF Claim, Phases
<1>4. CASE Register(a)
  BY <1>1, <1>2, <1>4 DEF Register, Phases
<1>5. CASE MakeChild(a) \/ LinkTo(a) \/ Unlink(a)
  BY <1>2, <1>5 DEF MakeChild, LinkTo, Unlink, Phases
<1>6. CASE StartLoop(a) \/ DropClose(a)
  BY <1>2, <1>6 DEF StartLoop, DropClose, Phases
<1>7. CASE Round(a)
  BY <1>7 DEF Round
<1>8. CASE Answer(a) \/ LoopFails(a)
  BY <1>2, <1>8 DEF Answer, LoopFails, LoopEnds, Phases
<1>9. CASE RoundCancelled(a)
  BY <1>2, <1>9 DEF RoundCancelled, LoopEnds, Phases
<1>10. CASE CallerGone(a)
  BY <1>10, ZenonT(30) DEF CallerGone
<1>11. CASE DropRemove(a)
  BY <1>1, <1>2, <1>11, ZenonT(30) DEF DropRemove, Phases
<1>12. CASE DropResume(a)
  BY <1>1, <1>2, <1>12 DEF DropResume, Phases
<1> QED
  BY <1>3, <1>4, <1>5, <1>6, <1>7, <1>8, <1>9, <1>10, <1>11, <1>12, ZenonT(30) DEF Setup, Teardown

\* The steps of senders and cancellers leave the phases and the registry alone.
LEMMA TypesSender ==
  ASSUME Types, NEW m \in Messages, SendPush(m) \/ \E r \in Requests : SendFind(m, r)
  PROVE  Types'
<1> USE DEF Types, PhaseType, RegistryType, InboxType, TokenType, SenderType,
            CancellerType, registry, inboxes, tokens, SenderStates
<1>1. CASE SendPush(m)
  <2>1. sender[m].turn \in Attempts /\ sender[m].state = "found"
    BY <1>1 DEF SendPush
  <2>2. SenderType'
    <3>1. PICK to \in {"accepted", "refused"} : sender' = [sender EXCEPT ![m].state = to]
      BY <1>1 DEF SendPush
    <3> QED
      BY <2>1, <3>1
  <2>3. InboxType'
    BY <1>1, <2>1 DEF SendPush
  <2> QED
    BY <1>1, <2>2, <2>3 DEF SendPush
<1>2. ASSUME NEW r \in Requests, SendFind(m, r)
      PROVE  Types'
  <2> DEFINE found == IF active[r] = Nobody THEN Thread("refused", Nobody)
                      ELSE Thread("found", active[r])
  <2>1. /\ found \in [state : SenderStates, turn : Attempts \cup {Nobody}]
        /\ found.state \in {"found", "refused"}
        /\ found.state = "found" => found.turn \in Attempts
    BY DEF Thread
  <2>2. SenderType'
    <3>1. sender' = [sender EXCEPT ![m] = found]
      BY <1>2 DEF SendFind
    <3> HIDE DEF found
    <3> QED
      BY <2>1, <3>1
  <2> QED
    BY <1>2, <2>2 DEF SendFind
<1> QED
  BY <1>1, <1>2

LEMMA TypesCanceller ==
  ASSUME Types, NEW c \in Cancellers, Kill(c) \/ \E r \in Requests : CancelFind(c, r)
  PROVE  Types'
<1> USE DEF Types, PhaseType, RegistryType, InboxType, TokenType, SenderType,
            CancellerType, registry, inboxes, tokens, CancelStates, Becomes
<1>1. CASE CancelCheck(c)
  BY <1>1, ZenonT(30) DEF CancelCheck
<1>2. CASE KillSwap(c)
  BY <1>2, ZenonT(30) DEF KillSwap
<1>3. CASE KillChildren(c)
  BY <1>3, ZenonT(30) DEF KillChildren
<1>4. CASE KillChildSwap(c)
  BY <1>4, ZenonT(30) DEF KillChildSwap
<1>5. CASE KillWatchers(c)
  <2>1. canceller[c].turn \in Attempts
    BY <1>5, Zenon DEF KillWatchers
  <2>2. CancellerType'
    BY <1>5, <2>1, Zenon DEF KillWatchers
  <2>3. TokenType'
    BY <1>5, <2>1, Zenon DEF KillWatchers
  <2> QED
    BY <1>5, <2>2, <2>3, Zenon DEF KillWatchers
<1>6. ASSUME NEW r \in Requests, CancelFind(c, r)
      PROVE  Types'
  <2> DEFINE found == IF active[r] = Nobody THEN Thread("refused", Nobody)
                      ELSE Thread("found", active[r])
  <2>1. /\ found \in [state : CancelStates, turn : Attempts \cup {Nobody}]
        /\ found.state \in {"found", "refused"}
        /\ found.state = "found" => found.turn \in Attempts
    BY Zenon DEF Thread
  <2>2. CancellerType'
    <3>1. canceller' = [canceller EXCEPT ![c] = found]
      BY <1>6, Zenon DEF CancelFind
    <3> HIDE DEF found
    <3> QED
      BY <2>1, <3>1, Zenon
  <2> QED
    BY <1>6, <2>2, Zenon DEF CancelFind
<1> QED
  BY <1>1, <1>2, <1>3, <1>4, <1>5, <1>6, Zenon DEF Kill

LEMMA TypesStep == Types /\ [Next]_vars => Types'
<1> SUFFICES ASSUME Types, [Next]_vars PROVE Types'
  OBVIOUS
<1>1. CASE UNCHANGED vars
  BY <1>1 DEF vars, registry, inboxes, tokens, Types, PhaseType, RegistryType, InboxType,
              TokenType, SenderType, CancellerType
<1> QED
  BY <1>1, TypesAttempt, TypesSender, TypesCanceller DEF Next

LEMMA TypesInvariant == Spec => []Types
BY TypesInit, TypesStep, PTL DEF Spec

-----------------------------------------------------------------------------
(* Claims *)

LEMMA ClaimsInit == Init => ClaimsExclusive
BY ZenonT(30) DEF Init, ClaimsExclusive

LEMMA ClaimsStep == Types /\ ClaimsExclusive /\ [Next]_vars => ClaimsExclusive'
<1> SUFFICES ASSUME Types, ClaimsExclusive, [Next]_vars
             PROVE  ClaimsExclusive'
  OBVIOUS
<1> USE DEF Types, PhaseType, RegistryType, ClaimsExclusive
<1>1. ASSUME NEW a \in Attempts, Claim(a)
      PROVE  ClaimsExclusive'
  BY <1>1 DEF Claim, Move
<1>2. ASSUME NEW a \in Attempts, DropResume(a)
      PROVE  ClaimsExclusive'
  BY <1>2 DEF DropResume, Move
\* Other steps leave the claims alone, and no phase they end in is idle or done.
<1>3. ASSUME running_turns' = running_turns, claimed' = claimed,
             \A a \in Attempts : phase'[a] = phase[a] \/ phase'[a] \notin {"idle", "done"}
      PROVE  ClaimsExclusive'
  BY <1>3, ZenonT(30)
<1>4. ASSUME NEW a \in Attempts,
             \/ Register(a) \/ MakeChild(a) \/ LinkTo(a) \/ StartLoop(a)
             \/ Unlink(a) \/ DropClose(a) \/ DropRemove(a)
      PROVE  ClaimsExclusive'
  BY <1>3, <1>4, ZenonT(30) DEF Register, MakeChild, LinkTo, StartLoop, Unlink, DropClose, DropRemove,
                    Move, registry
<1>5. ASSUME NEW a \in Attempts,
             Round(a) \/ Answer(a) \/ RoundCancelled(a) \/ LoopFails(a) \/ CallerGone(a)
      PROVE  ClaimsExclusive'
  BY <1>3, <1>5 DEF Round, Answer, RoundCancelled, LoopFails, CallerGone, LoopEnds, Move,
                    registry
<1>6. ASSUME NEW m \in Messages, SendPush(m) \/ \E r \in Requests : SendFind(m, r)
      PROVE  ClaimsExclusive'
  BY <1>3, <1>6 DEF SendPush, SendFind, registry
<1>7. ASSUME NEW c \in Cancellers, Kill(c) \/ \E r \in Requests : CancelFind(c, r)
      PROVE  ClaimsExclusive'
  BY <1>3, <1>7, Zenon DEF Kill, CancelCheck, KillSwap, KillChildren, KillChildSwap, KillWatchers,
                    CancelFind, registry
<1>8. CASE UNCHANGED vars
  BY <1>3, <1>8 DEF vars, registry
<1> QED
  BY <1>1, <1>2, <1>4, <1>5, <1>6, <1>7, <1>8 DEF Next, Setup, Teardown

\* No two attempts ever hold the claim on one turn, and the process never
\* keeps a claim for an attempt that is over, however many attempts race
\* (TurnResume::claim and its drop).
THEOREM ClaimsAlwaysExclusive == Spec => []ClaimsExclusive
BY ClaimsInit, ClaimsStep, TypesInvariant, PTL DEF Spec

-----------------------------------------------------------------------------
(* The registry *)

\* What ReachesItsTurn needs to be inductive: a request reaches a turn of its
\* own, so the guard of an ended turn removes no other turn's entry.
RegistryInv ==
  /\ ReachesItsTurn
  /\ \A r \in Requests : active[r] # Nobody => RequestId[active[r]] = r

LEMMA RegistryInit == Init => RegistryInv
BY SMTT(30) DEF Init, RegistryInv, ReachesItsTurn

LEMMA RegistryStep == Types /\ RegistryInv /\ [Next]_vars => RegistryInv'
<1> SUFFICES ASSUME Types, RegistryInv, [Next]_vars
             PROVE  RegistryInv'
  OBVIOUS
<1> USE DEF Types, PhaseType, RegistryType, RegistryInv, ReachesItsTurn, Over
<1>1. ASSUME NEW a \in Attempts, Register(a)
      PROVE  RegistryInv'
  <2>1. RequestId[a] \in Requests
    BY DEF Requests
  <2>2. a # Nobody /\ phase'[a] = "registered"
        /\ \A b \in Attempts \ {a} : phase'[b] = phase[b]
    BY <1>1, ActiveTurnsAssumption DEF Register, Move
  <2>3. CASE active[RequestId[a]] = Nobody
    <3>1. /\ guarded' = guarded \cup {a}
          /\ \A r \in Requests : active'[r] = IF r = RequestId[a] THEN a ELSE active[r]
      BY <1>1, <2>1, <2>3 DEF Register
    <3>2. \A b \in guarded : b # Nobody /\ RequestId[b] \in Requests
                             /\ RequestId[b] # RequestId[a]
      BY <2>3, ActiveTurnsAssumption DEF Requests
    <3> QED
      BY <2>1, <2>2, <3>1, <3>2
  <2>4. CASE active[RequestId[a]] # Nobody
    BY <1>1, <2>2, <2>4 DEF Register
  <2> QED
    BY <2>3, <2>4
<1>2. ASSUME NEW a \in Attempts, DropRemove(a)
      PROVE  RegistryInv'
  <2>1. RequestId[a] \in Requests /\ \A b \in Attempts : RequestId[b] \in Requests
    BY DEF Requests
  <2>2. \A b \in Attempts \ {a} : phase'[b] = phase[b]
    BY <1>2 DEF DropRemove, Move
  <2>3. \A r \in Requests : active'[r] = IF active[r] = a THEN Nobody ELSE active[r]
    BY <1>2, <2>1 DEF DropRemove
  <2>4. guarded' = guarded \ {a}
    BY <1>2 DEF DropRemove
  <2> QED
    BY <2>1, <2>2, <2>3, <2>4
\* Other steps leave the registry alone, and end no turn that is not over.
<1>3. ASSUME active' = active, guarded' = guarded,
             \A a \in Attempts : Over(a)' => Over(a)
      PROVE  RegistryInv'
  BY <1>3, ZenonT(30)
<1>4. ASSUME NEW a \in Attempts,
             \/ Claim(a) \/ MakeChild(a) \/ LinkTo(a) \/ StartLoop(a)
             \/ Unlink(a) \/ DropClose(a) \/ DropResume(a)
      PROVE  RegistryInv'
  BY <1>3, <1>4, ZenonT(30) DEF Claim, MakeChild, LinkTo, StartLoop, Unlink, DropClose, DropResume,
                    Move, registry
<1>5. ASSUME NEW a \in Attempts,
             Round(a) \/ Answer(a) \/ RoundCancelled(a) \/ LoopFails(a) \/ CallerGone(a)
      PROVE  RegistryInv'
  BY <1>3, <1>5 DEF Round, Answer, RoundCancelled, LoopFails, CallerGone, LoopEnds, Move,
                    registry
<1>6. ASSUME NEW m \in Messages, SendPush(m) \/ \E r \in Requests : SendFind(m, r)
      PROVE  RegistryInv'
  BY <1>3, <1>6 DEF SendPush, SendFind, registry
<1>7. ASSUME NEW c \in Cancellers, Kill(c) \/ \E r \in Requests : CancelFind(c, r)
      PROVE  RegistryInv'
  BY <1>3, <1>7, Zenon DEF Kill, CancelCheck, KillSwap, KillChildren, KillChildSwap, KillWatchers,
                    CancelFind, registry
<1>8. CASE UNCHANGED vars
  BY <1>3, <1>8 DEF vars, registry
<1> QED
  BY <1>1, <1>2, <1>4, <1>5, <1>6, <1>7, <1>8, Zenon DEF Next, Setup, Teardown

\* A request always reaches the one turn that holds its guard, and nothing once
\* the guard is gone, whoever else registers under the same request id
\* (ActiveTurns::register, ActiveTurnGuard::drop).
THEOREM AlwaysReachesItsTurn == Spec => []ReachesItsTurn
<1>1. RegistryInv => ReachesItsTurn
  BY DEF RegistryInv
<1> QED
  BY <1>1, RegistryInit, RegistryStep, TypesInvariant, PTL DEF Spec

-----------------------------------------------------------------------------
(* Messages *)

\* What AcceptedRead needs to be inductive: an accepted message is waiting or
\* was read, and an answer leaves a closed and empty inbox.
MailInv ==
  /\ \A m \in Messages :
       sender[m].state = "accepted" =>
         m \in inbox[sender[m].turn] \cup read[sender[m].turn]
  /\ \A a \in answered : a \in closed /\ inbox[a] = {}

LEMMA MailInit == Init => MailInv
BY SMTT(30) DEF Init, MailInv, Thread

LEMMA MailStep == Types /\ MailInv /\ [Next]_vars => MailInv'
<1> SUFFICES ASSUME Types, MailInv, [Next]_vars
             PROVE  MailInv'
  OBVIOUS
<1> USE DEF Types, InboxType, SenderType, MailInv
\* Reading moves messages and loses none.
<1>1. ASSUME NEW a \in Attempts,
             read' = [read EXCEPT ![a] = @ \cup inbox[a]],
             inbox' = [inbox EXCEPT ![a] = {}],
             closed' = closed, answered' = answered, sender' = sender
      PROVE  MailInv'
  <2>1. \A b \in Attempts : inbox'[b] \cup read'[b] = inbox[b] \cup read[b]
                            /\ (inbox[b] = {} => inbox'[b] = {})
    BY <1>1
  <2> QED
    BY <1>1, <2>1
\* An inbox that is closed stays closed.
<1>2. ASSUME inbox' = inbox, read' = read, answered' = answered, sender' = sender,
             closed \subseteq closed'
      PROVE  MailInv'
  BY <1>2
<1>3. ASSUME NEW a \in Attempts, Answer(a)
      PROVE  MailInv'
  BY <1>3, ZenonT(30) DEF Answer, LoopEnds
<1>4. ASSUME NEW a \in Attempts, Round(a) \/ RoundCancelled(a)
      PROVE  MailInv'
  <2>1. CASE Round(a)
    BY <1>1, <2>1, ZenonT(30) DEF Round
  <2>2. CASE RoundCancelled(a)
    BY <1>1, <1>2, <2>2, ZenonT(30) DEF RoundCancelled, LoopEnds
  <2> QED
    BY <1>4, <2>1, <2>2, ZenonT(30)
<1>5. ASSUME NEW a \in Attempts, LoopFails(a) \/ DropClose(a) \/ CallerGone(a)
      PROVE  MailInv'
  BY <1>2, <1>5, ZenonT(30) DEF LoopFails, DropClose, CallerGone, inboxes
<1>6. ASSUME NEW a \in Attempts,
             Setup(a) \/ Unlink(a) \/ DropRemove(a) \/ DropResume(a)
      PROVE  MailInv'
  BY <1>2, <1>6, ZenonT(30) DEF Setup, Claim, Register, MakeChild, LinkTo, StartLoop, Unlink, DropRemove,
                    DropResume, inboxes
<1>7. ASSUME NEW m \in Messages, NEW r \in Requests, SendFind(m, r)
      PROVE  MailInv'
  BY <1>7, ZenonT(30) DEF SendFind, Thread, inboxes
<1>8. ASSUME NEW m \in Messages, SendPush(m)
      PROVE  MailInv'
  <2>1. sender[m].turn \in Attempts
    BY <1>8 DEF SendPush
  <2>2. CASE PushRefused(sender[m].turn)
    BY <1>8, <2>1, <2>2 DEF SendPush
  <2>3. CASE ~PushRefused(sender[m].turn)
    <3>1. /\ sender' = [sender EXCEPT ![m].state = "accepted"]
          /\ inbox' = [inbox EXCEPT ![sender[m].turn] = @ \cup {m}]
          /\ read' = read /\ closed' = closed /\ answered' = answered
      BY <1>8, <2>3 DEF SendPush
    <3>2. sender[m].turn \notin answered
      BY <2>3 DEF PushRefused
    <3>3. \A n \in Messages : sender'[n].turn = sender[n].turn
      BY <3>1, SMTT(30)
    <3> QED
      BY <2>1, <3>1, <3>2, <3>3
  <2> QED
    BY <2>2, <2>3
<1>9. ASSUME NEW c \in Cancellers, Kill(c) \/ \E r \in Requests : CancelFind(c, r)
      PROVE  MailInv'
  BY <1>2, <1>9, Zenon DEF Kill, CancelCheck, KillSwap, KillChildren, KillChildSwap, KillWatchers,
                    CancelFind, inboxes
<1>10. CASE UNCHANGED vars
  BY <1>2, <1>10 DEF vars, inboxes
<1> QED
  BY <1>3, <1>4, <1>5, <1>6, <1>7, <1>8, <1>9, <1>10, ZenonT(30) DEF Next, Teardown

\* Whatever finds a turn just before it ends, a message it accepts is read
\* before its model answers: the last look into the inbox closes it
\* (SteerInbox::push, take_or_close).
THEOREM AcceptedAlwaysRead == Spec => []AcceptedRead
<1>1. Types /\ MailInv => AcceptedRead
  BY DEF MailInv, AcceptedRead, Types, SenderType, InboxType
<1> QED
  BY <1>1, MailInit, MailStep, TypesInvariant, PTL DEF Spec

-----------------------------------------------------------------------------
(* Kills *)

Inside(c) == canceller[c].state \in {"children", "kill child", "watchers"}

\* One kill at most is under way at a turn, that of the canceller that marked
\* its token, and it is the one that will mark the child.
KillersInv ==
  /\ \A c \in Cancellers : Inside(c) => canceller[c].turn \in cancelled
  /\ \A c, d \in Cancellers :
       Inside(c) /\ Inside(d) /\ canceller[c].turn = canceller[d].turn => c = d
  /\ child_cancelled \subseteq cancelled
  /\ \A c \in Cancellers :
       canceller[c].state \in {"children", "kill child"} =>
         canceller[c].turn \notin child_cancelled

\* A turn that is linked has its child, and its watcher until that has run.
LinkInv ==
  /\ \A a \in Attempts : phase[a] \in {"child", "linked", "running"} => a \in child
  /\ \A a \in Attempts :
       phase[a] \in {"linked", "running"} => a \in watcher \/ a \in llm_cancelled
  /\ \A a \in watcher \cup heard :
       phase[a] \notin {"idle", "claimed", "registered", "child"}

\* A turn whose kill began with the watcher there is being killed or is killed.
HeardInv ==
  \A a \in heard :
    phase[a] \in {"linked", "running"} => a \in llm_cancelled \/ Killing(a)

KillInv == KillersInv /\ LinkInv /\ HeardInv

LEMMA KillInit == Init => KillInv
<1> SUFFICES ASSUME Init PROVE KillInv
  OBVIOUS
<1>1. \A c \in Cancellers : canceller[c].state = "idle"
  BY DEF Init, Thread
<1>2. KillersInv
  BY <1>1, Zenon DEF Init, KillersInv, Inside
<1>3. LinkInv /\ HeardInv
  BY DEF Init, LinkInv, HeardInv
<1> QED
  BY <1>2, <1>3 DEF KillInv

\* The steps of an attempt, which start and end no kill.
LEMMA KillAttempt ==
  ASSUME Types, KillInv, NEW a \in Attempts,
         \/ Setup(a) \/ Round(a) \/ Answer(a) \/ RoundCancelled(a) \/ LoopFails(a)
         \/ CallerGone(a) \/ Teardown(a)
  PROVE  KillInv'
<1> USE DEF Types, PhaseType, TokenType
<1>1. /\ canceller' = canceller /\ cancelled' = cancelled
      /\ child_cancelled' = child_cancelled /\ heard' = heard
  BY SMTT(30)
     DEF Setup, Claim, Register, MakeChild, LinkTo, StartLoop, Round, Answer, RoundCancelled,
         LoopFails, CallerGone, Teardown, Unlink, DropClose, DropRemove, DropResume, tokens
<1>2. KillersInv'
  BY <1>1, ZenonT(30) DEF KillInv, KillersInv, Inside
<1>3. \A b \in Attempts : Killing(b)' <=> Killing(b)
  BY <1>1, ZenonT(30) DEF Killing
<1>4. LinkInv' /\ HeardInv'
  <2> USE <1>1, <1>3 DEF KillInv, LinkInv, HeardInv, Move, tokens
  <2>1. CASE Claim(a) \/ Register(a) \/ DropClose(a) \/ DropRemove(a) \/ DropResume(a)
    BY <2>1, ZenonT(30) DEF Claim, Register, DropClose, DropRemove, DropResume
  <2>2. CASE MakeChild(a) \/ LinkTo(a)
    BY <2>2 DEF MakeChild, LinkTo
  <2>3. CASE StartLoop(a) \/ Unlink(a)
    BY <2>3, ZenonT(30) DEF StartLoop, Unlink
  <2>4. CASE Round(a) \/ CallerGone(a)
    BY <2>4, ZenonT(30) DEF Round, CallerGone
  <2>5. CASE Answer(a) \/ RoundCancelled(a) \/ LoopFails(a)
    BY <2>5 DEF Answer, RoundCancelled, LoopFails, LoopEnds
  <2> QED
    BY <2>1, <2>2, <2>3, <2>4, <2>5, SMTT(30) DEF Setup, Teardown
<1> QED
  BY <1>2, <1>4, ZenonT(30) DEF KillInv

\* A canceller's state changes and its turn does not.
LEMMA BecomesKeeps ==
  ASSUME Types, NEW c \in Cancellers, NEW to, Becomes(c, to)
  PROVE  /\ canceller'[c].state = to /\ canceller'[c].turn = canceller[c].turn
         /\ \A d \in Cancellers \ {c} : canceller'[d] = canceller[d]
BY SMTT(30) DEF Becomes, Types, CancellerType

\* Cancellers that end their kill, or never began one, disturb no other kill.
LEMMA KillersKept ==
  ASSUME KillersInv, UNCHANGED <<cancelled, child_cancelled>>,
         \A d \in Cancellers : Inside(d)' => Inside(d) /\ canceller'[d] = canceller[d]
  PROVE  KillersInv'
<1>1. \A d \in Cancellers : Inside(d)' => canceller'[d].turn \in cancelled'
  BY Zenon DEF KillersInv
<1>2. \A d, e \in Cancellers :
        Inside(d)' /\ Inside(e)' /\ canceller'[d].turn = canceller'[e].turn => d = e
  BY Zenon DEF KillersInv
<1>3. \A d \in Cancellers :
        canceller'[d].state \in {"children", "kill child"} =>
          canceller'[d].turn \notin child_cancelled'
  BY Zenon DEF KillersInv, Inside
<1> QED
  BY <1>1, <1>2, <1>3, Zenon DEF KillersInv

\* The steps of a canceller before it marks the token.
LEMMA KillBegins ==
  ASSUME Types, KillInv, NEW c \in Cancellers,
         CancelCheck(c) \/ KillSwap(c) \/ \E r \in Requests : CancelFind(c, r)
  PROVE  KillInv'
<1>1. ASSUME canceller'[c].state \notin {"children", "kill child", "watchers"},
             ~Inside(c), \A d \in Cancellers \ {c} : canceller'[d] = canceller[d],
             UNCHANGED <<phase, tokens>>
      PROVE  KillInv'
  <2>1. \A d \in Cancellers : Inside(d)' <=> Inside(d)
    BY <1>1, Zenon DEF Inside
  <2>2. \A d \in Cancellers : Inside(d) => canceller'[d] = canceller[d]
    BY <1>1, Zenon
  <2>3. KillersInv'
    BY <1>1, <2>1, <2>2, KillersKept, Zenon DEF KillInv, tokens
  <2>4. \A b \in Attempts : Killing(b) => Killing(b)'
    BY <2>2, Zenon DEF Killing, Inside
  <2>5. LinkInv'
    BY <1>1, ZenonT(30) DEF KillInv, LinkInv, tokens
  <2>6. HeardInv'
    BY <1>1, <2>4, ZenonT(30) DEF KillInv, HeardInv, tokens, Types, TokenType
  <2> QED
    BY <2>3, <2>5, <2>6 DEF KillInv
<1>2. CASE CancelCheck(c)
  BY <1>1, <1>2, BecomesKeeps, ZenonT(30) DEF CancelCheck, Inside
<1>3. ASSUME NEW r \in Requests, CancelFind(c, r)
      PROVE  KillInv'
  BY <1>1, <1>3 DEF CancelFind, Inside, Thread, Types, CancellerType
<1>4. CASE KillSwap(c)
  <2>1. canceller[c].turn \in Attempts /\ ~Inside(c)
    BY <1>4 DEF KillSwap, Inside, Types, CancellerType
  <2> PICK a \in Attempts : a = canceller[c].turn
    BY <2>1, ZenonT(30)
  <2>2. CASE a \in cancelled
    <3>1. Becomes(c, "accepted") /\ cancelled \cup {a} = cancelled
      BY <1>4, <2>2, ZenonT(30) DEF KillSwap
    <3>2. UNCHANGED <<phase, tokens>>
      BY <1>4, <2>2, <3>1 DEF KillSwap, tokens
    <3> QED
      <4>1. /\ canceller'[c].state = "accepted"
            /\ \A d \in Cancellers \ {c} : canceller'[d] = canceller[d]
        BY <3>1, BecomesKeeps, SMTT(30)
      <4> QED
        BY <1>1, <2>1, <3>2, <4>1, ZenonT(30)
  <2>3. CASE a \notin cancelled
    <3>1. /\ Becomes(c, "children") /\ cancelled' = cancelled \cup {a}
          /\ heard' = IF a \in watcher THEN heard \cup {a} ELSE heard
          /\ UNCHANGED <<phase, child, child_cancelled, watcher, llm_cancelled>>
      BY <1>4, <2>3, ZenonT(30) DEF KillSwap
    <3>2. /\ canceller'[c].state = "children" /\ canceller'[c].turn = a
          /\ \A d \in Cancellers \ {c} : canceller'[d] = canceller[d]
      BY <3>1, BecomesKeeps
    <3>3. KillersInv'
      <4>1. \A d \in Cancellers \ {c} :
              /\ Inside(d)' <=> Inside(d)
              /\ Inside(d) => canceller[d].turn # a
        BY <2>3, <3>2, ZenonT(30) DEF KillInv, KillersInv, Inside
      <4>2. a \notin child_cancelled
        BY <2>3, ZenonT(30) DEF KillInv, KillersInv
      <4>3. \A d \in Cancellers : Inside(d)' => canceller'[d].turn \in cancelled'
        BY <3>1, <3>2, <4>1, ZenonT(30) DEF KillInv, KillersInv
      <4>4. \A d, e \in Cancellers :
              Inside(d)' /\ Inside(e)' /\ canceller'[d].turn = canceller'[e].turn => d = e
        BY <3>2, <4>1, ZenonT(30) DEF KillInv, KillersInv
      <4>5. \A d \in Cancellers :
              canceller'[d].state \in {"children", "kill child"} =>
                canceller'[d].turn \notin child_cancelled'
        BY <3>1, <3>2, <4>2, ZenonT(30) DEF KillInv, KillersInv
      <4>6. child_cancelled' \subseteq cancelled'
        BY <3>1, ZenonT(30) DEF KillInv, KillersInv
      <4> QED
        BY <4>3, <4>4, <4>5, <4>6, ZenonT(30) DEF KillersInv
    <3>4. Killing(a)' /\ \A b \in Attempts : Killing(b) => Killing(b)'
      BY <2>1, <3>2, ZenonT(30) DEF Killing, Inside
    <3>5. LinkInv'
      BY <3>1, ZenonT(30) DEF KillInv, LinkInv
    <3>6. HeardInv'
      BY <3>1, <3>4 DEF KillInv, HeardInv, Types, TokenType
    <3> QED
      BY <3>3, <3>5, <3>6, ZenonT(30) DEF KillInv
  <2> QED
    BY <2>2, <2>3
<1> QED
  BY <1>2, <1>3, <1>4

\* From the marked token to the watchers: the kill of a linked turn goes on
\* until the dispatcher's token is cancelled.
LEMMA KillProceeds ==
  ASSUME Types, KillInv, NEW c \in Cancellers,
         KillChildren(c) \/ KillChildSwap(c) \/ KillWatchers(c)
  PROVE  KillInv'
<1>1. canceller[c].turn \in Attempts /\ Inside(c)
  BY Zenon DEF KillChildren, KillChildSwap, KillWatchers, Inside, Types, CancellerType
<1> PICK a \in Attempts : a = canceller[c].turn
  BY <1>1, SMTT(30)
\* The other cancellers are at other turns.
<1>2. \A d \in Cancellers \ {c} : Inside(d) => canceller[d].turn # a
  BY <1>1, Zenon DEF KillInv, KillersInv
<1>3. CASE KillChildren(c)
  <2>1. PICK to \in {"kill child", "accepted"} :
          Becomes(c, to) /\ (a \in child => to = "kill child")
    BY <1>3, Zenon DEF KillChildren
  <2>2. /\ canceller'[c].state = to /\ canceller'[c].turn = a
        /\ \A d \in Cancellers \ {c} : canceller'[d] = canceller[d]
    BY <2>1, BecomesKeeps, Zenon
  <2>3. UNCHANGED <<phase, cancelled, child, child_cancelled, watcher, llm_cancelled, heard>>
    BY <1>3, Zenon DEF KillChildren, tokens
  <2>4. canceller[c].state = "children"
    BY <1>3, Zenon DEF KillChildren
  <2>5. KillersInv'
    <3>1. \A d \in Cancellers : Inside(d)' => Inside(d) /\ canceller'[d].turn = canceller[d].turn
      BY <1>1, <2>2, ZenonT(30) DEF Inside
    <3>2. \A d \in Cancellers :
            canceller'[d].state \in {"children", "kill child"} =>
              canceller'[d].turn \notin child_cancelled'
      BY <2>2, <2>3, <2>4, ZenonT(30) DEF KillInv, KillersInv
    <3> QED
      BY <2>3, <3>1, <3>2, Zenon DEF KillInv, KillersInv
  <2>6. /\ a \in child => Killing(a)'
        /\ \A b \in Attempts \ {a} : Killing(b) => Killing(b)'
    BY <2>1, <2>2, Zenon DEF Killing
  <2>7. LinkInv'
    BY <2>3, ZenonT(30) DEF KillInv, LinkInv
  <2>8. HeardInv'
    BY <2>3, <2>6, Zenon DEF KillInv, LinkInv, HeardInv, Types, TokenType
  <2> QED
    BY <2>5, <2>7, <2>8, ZenonT(30) DEF KillInv
<1>4. CASE KillChildSwap(c)
  <2>1. a \notin child_cancelled
    BY <1>4, ZenonT(30) DEF KillChildSwap, KillInv, KillersInv
  <2>2. Becomes(c, "watchers") /\ child_cancelled' = child_cancelled \cup {a}
    BY <1>4, <2>1, Zenon DEF KillChildSwap
  <2>3. UNCHANGED <<phase, cancelled, child, watcher, llm_cancelled, heard>>
    BY <1>4, ZenonT(30) DEF KillChildSwap
  <2>4. /\ canceller'[c].state = "watchers" /\ canceller'[c].turn = a
        /\ \A d \in Cancellers \ {c} : canceller'[d] = canceller[d]
    BY <2>2, BecomesKeeps, SMTT(30)
  <2>5. KillersInv'
    <3>1. \A d \in Cancellers : Inside(d)' => Inside(d) /\ canceller'[d].turn = canceller[d].turn
      BY <1>1, <2>4, ZenonT(30) DEF Inside
    <3>2. \A d \in Cancellers :
            canceller'[d].state \in {"children", "kill child"} =>
              canceller'[d].turn \notin child_cancelled'
      BY <1>2, <2>2, <2>4, ZenonT(30) DEF KillInv, KillersInv, Inside
    <3>3. child_cancelled' \subseteq cancelled'
      BY <1>1, <2>2, <2>3, ZenonT(30) DEF KillInv, KillersInv
    <3> QED
      BY <2>3, <3>1, <3>2, <3>3, ZenonT(30) DEF KillInv, KillersInv
  <2>6. Killing(a)' /\ \A b \in Attempts \ {a} : Killing(b) => Killing(b)'
    BY <2>4, ZenonT(30) DEF Killing
  <2>7. LinkInv'
    BY <2>3, ZenonT(30) DEF KillInv, LinkInv
  <2>8. HeardInv'
    BY <2>3, <2>6, ZenonT(30) DEF KillInv, HeardInv, Types, TokenType
  <2> QED
    BY <2>5, <2>7, <2>8, SMTT(30) DEF KillInv
<1>5. CASE KillWatchers(c)
  <2>1. /\ Becomes(c, "accepted") /\ watcher' = watcher \ {a}
        /\ llm_cancelled' = IF a \in watcher THEN llm_cancelled \cup {a} ELSE llm_cancelled
        /\ UNCHANGED <<phase, cancelled, child, child_cancelled, heard>>
    BY <1>5, ZenonT(30) DEF KillWatchers
  <2>2. /\ canceller'[c].state = "accepted" /\ canceller'[c].turn = a
        /\ \A d \in Cancellers \ {c} : canceller'[d] = canceller[d]
    BY <2>1, BecomesKeeps, ZenonT(30)
  <2>3. KillersInv'
    <3>1. \A d \in Cancellers : Inside(d)' => Inside(d) /\ canceller'[d] = canceller[d]
      BY <2>2, Zenon DEF Inside
    <3> QED
      BY <2>1, <3>1, KillersKept DEF KillInv
  <2>4. \A b \in Attempts \ {a} : Killing(b) => Killing(b)'
    BY <2>2, ZenonT(30) DEF Killing
  <2>5. LinkInv'
    BY <2>1, ZenonT(30) DEF KillInv, LinkInv
  <2>6. phase[a] \in {"linked", "running"} => a \in llm_cancelled'
    BY <2>1, ZenonT(30) DEF KillInv, LinkInv
  <2>7. HeardInv'
    BY <2>1, <2>4, <2>6 DEF KillInv, HeardInv, Types, TokenType
  <2> QED
    BY <2>3, <2>5, <2>7 DEF KillInv
<1> QED
  BY <1>3, <1>4, <1>5

LEMMA KillStep == Types /\ KillInv /\ [Next]_vars => KillInv'
<1> SUFFICES ASSUME Types, KillInv, [Next]_vars
             PROVE  KillInv'
  OBVIOUS
<1>1. ASSUME NEW a \in Attempts,
             \/ Setup(a) \/ Round(a) \/ Answer(a) \/ RoundCancelled(a) \/ LoopFails(a)
             \/ CallerGone(a) \/ Teardown(a)
      PROVE  KillInv'
  BY <1>1, KillAttempt, SMTT(30)
\* Senders touch neither the tokens nor the cancellers.
<1>2. ASSUME UNCHANGED <<phase, tokens, canceller>>
      PROVE  KillInv'
  BY <1>2, ZenonT(30) DEF KillInv, KillersInv, LinkInv, HeardInv, Killing, Inside, tokens
<1>3. ASSUME NEW m \in Messages, SendPush(m) \/ \E r \in Requests : SendFind(m, r)
      PROVE  KillInv'
  BY <1>2, <1>3 DEF SendPush, SendFind
<1>4. ASSUME NEW c \in Cancellers, Kill(c) \/ \E r \in Requests : CancelFind(c, r)
      PROVE  KillInv'
  BY <1>4, KillBegins, KillProceeds DEF Kill
<1>5. CASE UNCHANGED vars
  BY <1>2, <1>5, ZenonT(30) DEF vars
<1> QED
  BY <1>1, <1>3, <1>4, <1>5 DEF Next

\* However many cancels run at once, a kill that began with the turn's watcher
\* in place has cancelled the dispatcher's token when none is under way
\* (CancellationToken::kill, link_to).
THEOREM KillAlwaysReaches == Spec => []KillReaches
<1>1. KillInv => KillReaches
  BY DEF KillInv, HeardInv, KillReaches
<1> QED
  BY <1>1, KillInit, KillStep, TypesInvariant, PTL DEF Spec

-----------------------------------------------------------------------------
(* The bound on an inbox *)

InboxBounded ==
  \A a \in Attempts : IsFiniteSet(inbox[a]) /\ Cardinality(inbox[a]) <= MaxPending

LEMMA EmptyInbox == IsFiniteSet({}) /\ Cardinality({}) <= MaxPending
BY FS_EmptySet, ActiveTurnsAssumption, SMTT(30)

LEMMA BoundedStep == Types /\ InboxBounded /\ [Next]_vars => InboxBounded'
<1> SUFFICES ASSUME Types, InboxBounded, [Next]_vars
             PROVE  InboxBounded'
  OBVIOUS
<1> USE DEF Types, InboxType, SenderType, InboxBounded
<1>1. ASSUME UNCHANGED inbox
      PROVE  InboxBounded'
  BY <1>1
<1>2. ASSUME NEW a \in Attempts, inbox' = [inbox EXCEPT ![a] = {}]
      PROVE  InboxBounded'
  BY <1>2, EmptyInbox, ZenonT(30)
<1>3. ASSUME NEW m \in Messages, SendPush(m)
      PROVE  InboxBounded'
  <2> PICK a \in Attempts : a = sender[m].turn
    BY <1>3 DEF SendPush
  <2>1. CASE PushRefused(a)
    BY <1>1, <1>3, <2>1, ZenonT(30) DEF SendPush
  <2>2. CASE ~PushRefused(a)
    <3>1. inbox' = [inbox EXCEPT ![a] = @ \cup {m}]
      BY <1>3, <2>2 DEF SendPush
    <3>2. IsFiniteSet(inbox[a]) /\ Cardinality(inbox[a]) \in Nat
      BY FS_CardinalityType, ZenonT(30)
    <3>3. Cardinality(inbox[a]) < MaxPending
      BY <2>2, <3>2, ActiveTurnsAssumption DEF PushRefused
    <3>4. /\ IsFiniteSet(inbox[a] \cup {m})
          /\ \/ Cardinality(inbox[a] \cup {m}) = Cardinality(inbox[a])
             \/ Cardinality(inbox[a] \cup {m}) = Cardinality(inbox[a]) + 1
      BY <3>2, FS_AddElement, ZenonT(30)
    <3>5. Cardinality(inbox[a] \cup {m}) <= MaxPending
      BY <3>2, <3>3, <3>4, ActiveTurnsAssumption, SMTT(30)
    <3> QED
      BY <3>1, <3>4, <3>5
  <2> QED
    BY <2>1, <2>2
<1>4. ASSUME NEW a \in Attempts, Round(a) \/ RoundCancelled(a)
      PROVE  InboxBounded'
  BY <1>1, <1>2, <1>4 DEF Round, RoundCancelled
<1>5. ASSUME NEW a \in Attempts,
             Setup(a) \/ Answer(a) \/ LoopFails(a) \/ CallerGone(a) \/ Teardown(a)
      PROVE  InboxBounded'
  BY <1>1, <1>5, Zenon DEF Setup, Claim, Register, MakeChild, LinkTo, StartLoop, Answer,
       LoopFails, CallerGone, Teardown, Unlink, DropClose, DropRemove, DropResume, inboxes
<1>6. ASSUME NEW m \in Messages, NEW r \in Requests, SendFind(m, r)
      PROVE  InboxBounded'
  BY <1>1, <1>6, SMTT(30) DEF SendFind, inboxes
<1>7. ASSUME NEW c \in Cancellers, Kill(c) \/ \E r \in Requests : CancelFind(c, r)
      PROVE  InboxBounded'
  BY <1>1, <1>7, Zenon DEF Kill, CancelFind, CancelCheck, KillSwap, KillChildren,
       KillChildSwap, KillWatchers, inboxes
<1>8. CASE UNCHANGED vars
  BY <1>1, <1>8 DEF vars, inboxes
<1> QED
  BY <1>3, <1>4, <1>5, <1>6, <1>7, <1>8, Zenon DEF Next

\* Every variable keeps its type, and no inbox ever holds more messages than
\* MAX_PENDING_STEER_MESSAGES, however many senders race (SteerInbox::push).
THEOREM TypeCorrect == Spec => []TypeOK
<1>1. Init => InboxBounded
  BY EmptyInbox DEF Init, InboxBounded
<1>2. Types /\ InboxBounded => TypeOK
  BY Zenon DEF Types, PhaseType, Phases, RegistryType, InboxType, TokenType, SenderType,
         SenderStates, CancellerType, CancelStates, InboxBounded, TypeOK
<1> QED
  BY <1>1, <1>2, BoundedStep, TypesInvariant, PTL DEF Spec

-----------------------------------------------------------------------------
(* An attempt that has answered is past its loop *)

AfterLoop == {"ended", "unlinked", "closed", "removed", "done"}
AnswerInv == \A a \in answered : phase[a] \in AfterLoop

LEMMA AnswerInit == Init => AnswerInv
BY DEF Init, AnswerInv

LEMMA AnswerStep == Types /\ AnswerInv /\ [Next]_vars => AnswerInv'
<1> SUFFICES ASSUME Types, AnswerInv, [Next]_vars
             PROVE  AnswerInv'
  OBVIOUS
<1> USE DEF Types, PhaseType, InboxType, AnswerInv, AfterLoop
<1>1. ASSUME NEW a \in Attempts, Answer(a)
      PROVE  AnswerInv'
  BY <1>1 DEF Answer, LoopEnds, Move
\* Every other step that moves an attempt moves one that has not answered, or
\* takes it further.
<1>2. ASSUME answered' = answered, phase' = phase
      PROVE  AnswerInv'
  BY <1>2
<1>3. ASSUME NEW a \in Attempts, NEW from, NEW to, Move(a, from, to), answered' = answered,
             from \in AfterLoop => to \in AfterLoop
      PROVE  AnswerInv'
  BY <1>3 DEF Move
<1>4. ASSUME NEW a \in Attempts, Setup(a)
      PROVE  AnswerInv'
  BY <1>3, <1>4 DEF Setup, Claim, Register, MakeChild, LinkTo, StartLoop, inboxes
<1>5. ASSUME NEW a \in Attempts, Teardown(a)
      PROVE  AnswerInv'
  BY <1>3, <1>5 DEF Teardown, Unlink, DropClose, DropRemove, DropResume, inboxes
<1>6. ASSUME NEW a \in Attempts, Round(a) \/ RoundCancelled(a) \/ LoopFails(a) \/ CallerGone(a)
      PROVE  AnswerInv'
  BY <1>2, <1>3, <1>6 DEF Round, RoundCancelled, LoopFails, CallerGone, LoopEnds, inboxes
<1>7. ASSUME NEW m \in Messages, SendPush(m) \/ \E r \in Requests : SendFind(m, r)
      PROVE  AnswerInv'
  BY <1>2, <1>7 DEF SendPush, SendFind, inboxes
<1>8. ASSUME NEW c \in Cancellers, Kill(c) \/ \E r \in Requests : CancelFind(c, r)
      PROVE  AnswerInv'
  BY <1>2, <1>8, Zenon DEF Kill, CancelCheck, KillSwap, KillChildren, KillChildSwap, KillWatchers,
                    CancelFind, inboxes
<1>9. CASE UNCHANGED vars
  BY <1>2, <1>9 DEF vars, inboxes
<1> QED
  BY <1>1, <1>4, <1>5, <1>6, <1>7, <1>8, <1>9 DEF Next

LEMMA AnswerInvariant == Spec => []AnswerInv
BY AnswerInit, AnswerStep, TypesInvariant, PTL DEF Spec

LEMMA MailInvariant == Spec => []MailInv
BY MailInit, MailStep, TypesInvariant, PTL DEF Spec

-----------------------------------------------------------------------------
(* The refinement *)

LEMMA PromiseInit == Init => Promise!Init
BY DEF Init, Fate, Thread, Promise!Init, Promise!Undecided

\* What a sender shows of itself.
LEMMA FateOf ==
  ASSUME NEW m \in Messages
  PROVE  /\ sender[m].state \in {"idle", "found"} => Fate[m] = Promise!Undecided
         /\ sender[m].state = "refused" => Fate[m] = Promise!Refused
         /\ sender[m].state = "accepted" => Fate[m] = Promise!Accepted(sender[m].turn)
BY DEF Fate, Promise!Undecided, Promise!Refused, Promise!Accepted

\* Nothing Turn sees changes.
LEMMA Unseen ==
  ASSUME UNCHANGED <<claimed, inbox, read, answered, sender>>
  PROVE  UNCHANGED Promise!vars
BY DEF Fate, Promise!vars

LEMMA PromiseAttempt ==
  ASSUME Types, ClaimsExclusive, MailInv, AnswerInv, NEW a \in Attempts,
         \/ Setup(a) \/ Round(a) \/ Answer(a) \/ RoundCancelled(a) \/ LoopFails(a)
         \/ CallerGone(a) \/ Teardown(a)
  PROVE  [Promise!Next]_(Promise!vars)
<1> USE DEF Types, PhaseType, RegistryType, InboxType
<1>1. sender' = sender
  BY DEF Setup, Claim, Register, MakeChild, LinkTo, StartLoop, Round, Answer, RoundCancelled,
         LoopFails, CallerGone, Teardown, Unlink, DropClose, DropRemove, DropResume, LoopEnds
<1>2. Fate' = Fate
  BY <1>1 DEF Fate
<1>3. CASE Claim(a)
  <2>1. CASE TurnKey[a] \in running_turns
    BY <1>1, <1>3, <2>1, Unseen DEF Claim, inboxes
  <2>2. CASE TurnKey[a] \notin running_turns
    <3>1. \A b \in claimed : TurnKey[b] # TurnKey[a]
      BY <2>2 DEF ClaimsExclusive
    <3>2. Promise!Hold(a)
      BY <1>2, <1>3, <2>2, <3>1 DEF Claim, Promise!Hold, inboxes
    <3> QED
      BY <3>2 DEF Promise!Next
  <2> QED
    BY <2>1, <2>2
<1>4. CASE Register(a) \/ MakeChild(a) \/ LinkTo(a) \/ StartLoop(a)
  BY <1>1, <1>4, Unseen, ZenonT(30) DEF Register, MakeChild, LinkTo, StartLoop, registry, inboxes
<1>5. CASE Unlink(a) \/ DropClose(a) \/ DropRemove(a) \/ LoopFails(a) \/ CallerGone(a)
  BY <1>1, <1>5, Unseen DEF Unlink, DropClose, DropRemove, LoopFails, CallerGone, registry,
                           inboxes
<1>6. CASE DropResume(a)
  <2>1. Promise!LetGo(a)
    BY <1>2, <1>6 DEF DropResume, Promise!LetGo, inboxes
  <2> QED
    BY <2>1 DEF Promise!Next
<1>7. ASSUME phase[a] = "running", claimed' = claimed, answered' = answered,
             read' = [read EXCEPT ![a] = @ \cup inbox[a]],
             inbox' = [inbox EXCEPT ![a] = {}]
      PROVE  Promise!Next
  <2>1. a \notin answered
    BY <1>7 DEF AnswerInv, AfterLoop
  <2>2. Promise!Read(a)
    BY <1>2, <1>7, <2>1 DEF Promise!Read
  <2> QED
    BY <2>2 DEF Promise!Next
<1>8. CASE Round(a)
  BY <1>7, <1>8 DEF Round, registry
<1>9. CASE RoundCancelled(a)
  <2>1. CASE read' = [read EXCEPT ![a] = @ \cup inbox[a]] /\ inbox' = [inbox EXCEPT ![a] = {}]
    BY <1>7, <1>9, <2>1, ZenonT(30) DEF RoundCancelled, registry
  <2>2. CASE UNCHANGED <<inbox, read>>
    BY <1>1, <1>9, <2>2, Unseen DEF RoundCancelled, registry
  <2> QED
    BY <1>9, <2>1, <2>2, ZenonT(30) DEF RoundCancelled
<1>10. CASE Answer(a)
  <2>1. phase[a] = "running" /\ inbox[a] = {}
    BY <1>10 DEF Answer, LoopEnds, Move
  <2>2. a \notin answered
    BY <2>1 DEF AnswerInv, AfterLoop
  <2>3. Promise!Answer(a)
    BY <1>2, <1>10, <2>1, <2>2 DEF Answer, Promise!Answer, registry
  <2> QED
    BY <2>3 DEF Promise!Next
<1> QED
  BY <1>3, <1>4, <1>5, <1>6, <1>8, <1>9, <1>10, ZenonT(30) DEF Setup, Teardown

LEMMA PromiseSender ==
  ASSUME Types, MailInv, NEW m \in Messages,
         SendPush(m) \/ \E r \in Requests : SendFind(m, r)
  PROVE  [Promise!Next]_(Promise!vars)
<1> USE DEF Types, SenderType, InboxType
<1>1. UNCHANGED <<claimed, read, answered>>
  BY DEF SendPush, SendFind, registry, inboxes
<1>2. \A n \in Messages : n # m => Fate'[n] = Fate[n]
  BY DEF SendPush, SendFind, Fate
<1>3. Fate[m] = Promise!Undecided
  BY FateOf DEF SendPush, SendFind
<1>4. ASSUME NEW fate, Fate'[m] = fate
      PROVE  Fate' = [Fate EXCEPT ![m] = fate]
  BY <1>2, <1>4, ZenonT(30) DEF Fate
<1>5. ASSUME sender'[m].state = "refused", inbox' = inbox
      PROVE  Promise!Next
  <2>1. Fate'[m] = Promise!Refused
    BY <1>5 DEF Fate, Promise!Refused
  <2>2. Promise!Refuse(m)
    BY <1>1, <1>3, <1>4, <1>5, <2>1 DEF Promise!Refuse
  <2> QED
    BY <2>2 DEF Promise!Next
<1>6. ASSUME NEW r \in Requests, SendFind(m, r)
      PROVE  [Promise!Next]_(Promise!vars)
  <2>1. CASE active[r] = Nobody
    BY <1>5, <1>6, <2>1 DEF SendFind, Thread, inboxes
  <2>2. CASE active[r] # Nobody
    <3>1. sender'[m].state = "found"
      BY <1>6, <2>2, ZenonT(30) DEF SendFind, Thread
    <3>2. Fate'[m] = Promise!Undecided
      BY <3>1 DEF Fate, Promise!Undecided
    <3>3. Fate' = Fate
      BY <1>2, <1>3, <3>2, ZenonT(30) DEF Fate
    <3> QED
      BY <1>1, <1>6, <3>3 DEF SendFind, inboxes, Promise!vars
  <2> QED
    BY <2>1, <2>2
<1>7. ASSUME SendPush(m)
      PROVE  Promise!Next
  <2> PICK a \in Attempts : a = sender[m].turn
    BY <1>7 DEF SendPush
  <2>1. CASE PushRefused(a)
    BY <1>5, <1>7, <2>1 DEF SendPush
  <2>2. CASE ~PushRefused(a)
    <3>1. /\ sender' = [sender EXCEPT ![m].state = "accepted"]
          /\ inbox' = [inbox EXCEPT ![a] = @ \cup {m}]
      BY <1>7, <2>2 DEF SendPush
    <3>2. Fate'[m] = Promise!Accepted(a)
      BY <3>1 DEF Fate, Promise!Accepted
    <3>3. a \notin answered
      BY <2>2 DEF PushRefused, MailInv
    <3>4. Promise!Accept(m, a)
      BY <1>1, <1>3, <1>4, <3>1, <3>2, <3>3 DEF Promise!Accept
    <3> QED
      BY <3>4 DEF Promise!Next
  <2> QED
    BY <2>1, <2>2
<1> QED
  BY <1>6, <1>7

LEMMA PromiseStep ==
  Types /\ ClaimsExclusive /\ MailInv /\ AnswerInv /\ [Next]_vars
    => [Promise!Next]_(Promise!vars)
<1> SUFFICES ASSUME Types, ClaimsExclusive, MailInv, AnswerInv, [Next]_vars
             PROVE  [Promise!Next]_(Promise!vars)
  OBVIOUS
<1>1. ASSUME NEW c \in Cancellers, Kill(c) \/ \E r \in Requests : CancelFind(c, r)
      PROVE  UNCHANGED Promise!vars
  BY <1>1, Unseen, Zenon DEF Kill, CancelCheck, KillSwap, KillChildren, KillChildSwap, KillWatchers,
                      CancelFind, registry, inboxes
<1>2. CASE UNCHANGED vars
  BY <1>2, Unseen DEF vars, registry, inboxes
<1> QED
  BY <1>1, <1>2, PromiseAttempt, PromiseSender DEF Next

\* Reaching a turn from outside keeps the promise Turn states, whatever
\* threads race: one attempt holds a turn, and what it accepts it reads before
\* it answers.
THEOREM TurnImplemented == Spec => KeepsPromise
BY PromiseInit, PromiseStep, TypesInvariant, ClaimsAlwaysExclusive, MailInvariant,
   AnswerInvariant, PTL DEF Spec, KeepsPromise, Promise!Spec
=============================================================================
