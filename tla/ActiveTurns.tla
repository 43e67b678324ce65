---------------------------- MODULE ActiveTurns ----------------------------
(***************************************************************************)
(* Reaching a running turn from outside it: the claims on turns            *)
(* (crates/domains/chat/src/resume.rs), the registry of reachable turns    *)
(* (crates/domains/chat/src/steer.rs) and the cancellation tokens between  *)
(* a cancel and the dispatch it stops (crates/domains/chat/src/cancel.rs). *)
(*                                                                         *)
(* An attempt is one query on its own thread.  Attempts at the same turn   *)
(* have the same turn key; attempts whose clients sent the same tenant and *)
(* request id share a request, whatever they ask.  Senders and cancellers  *)
(* are threads of their own: each finds a turn under the registry's lock   *)
(* and acts on what it found after letting go of it.                       *)
(*                                                                         *)
(* The caller's token has one child per turn, whose one watcher cancels    *)
(* the token the dispatcher polls.  A kill is as many steps as it takes    *)
(* locks.                                                                  *)
(***************************************************************************)
EXTENDS Integers, FiniteSets

CONSTANTS
  Attempts, Nobody,  \* the attempts; none of them
  TurnKey,           \* the turn an attempt is at (resume::turn_key)
  RequestId,         \* the tenant and request id an attempt answers to
  Messages,          \* each sent once, by a thread of its own
  Cancellers,        \* each cancels once
  MaxPending         \* MAX_PENDING_STEER_MESSAGES

ASSUME ActiveTurnsAssumption ==
  /\ Nobody \notin Attempts
  /\ MaxPending \in Nat
  /\ \A a, b \in Attempts : TurnKey[a] = TurnKey[b] => RequestId[a] = RequestId[b]

Requests == {RequestId[a] : a \in Attempts}
Keys == {TurnKey[a] : a \in Attempts}

VARIABLES
  phase,          \* where each attempt is
  running_turns,  \* RunningTurns: the turn keys claimed in this process
  claimed,        \* attempts holding a TurnResume
  active,         \* ActiveTurns: the attempt each request reaches
  guarded,        \* attempts holding an ActiveTurnGuard
  inbox, closed,  \* SteerInbox of each attempt
  read,           \* messages each attempt's loop has read
  answered,       \* attempts whose model answered
  cancelled,      \* attempts whose caller's token is cancelled
  child,          \* attempts whose token has its child token
  child_cancelled,
  watcher,        \* attempts whose child token has its watcher
  llm_cancelled,  \* attempts whose dispatcher token is cancelled
  sender,         \* each message's sender: its state and the turn it found
  canceller,      \* each canceller: its state and the turn it found
  heard           \* history: attempts whose kill began with the watcher there

registry == <<running_turns, claimed, active, guarded>>
inboxes == <<inbox, closed, read, answered>>
tokens == <<cancelled, child, child_cancelled, watcher, llm_cancelled, heard>>
vars == <<phase, registry, inboxes, tokens, sender, canceller>>

Thread(state, turn) == [state |-> state, turn |-> turn]

Init ==
  /\ phase = [a \in Attempts |-> "idle"]
  /\ running_turns = {} /\ claimed = {}
  /\ active = [r \in Requests |-> Nobody] /\ guarded = {}
  /\ inbox = [a \in Attempts |-> {}] /\ closed = {}
  /\ read = [a \in Attempts |-> {}] /\ answered = {}
  /\ cancelled = {} /\ child = {} /\ child_cancelled = {}
  /\ watcher = {} /\ llm_cancelled = {} /\ heard = {}
  /\ sender = [m \in Messages |-> Thread("idle", Nobody)]
  /\ canceller = [c \in Cancellers |-> Thread("idle", Nobody)]

-----------------------------------------------------------------------------
(* An attempt, from its claim to the drop of what it holds *)

Move(a, from, to) == phase[a] = from /\ phase' = [phase EXCEPT ![a] = to]

\* TurnResume::claim: an attempt at a turn that is running goes on without.
Claim(a) ==
  /\ Move(a, "idle", "claimed")
  /\ claimed' = claimed \cup (IF TurnKey[a] \in running_turns THEN {} ELSE {a})
  /\ running_turns' = running_turns \cup {TurnKey[a]}
  /\ UNCHANGED <<active, guarded, inboxes, tokens, sender, canceller>>

Register_TakesOver(a) ==
  /\ Move(a, "claimed", "registered")
  /\ guarded' = guarded \cup {a}
  /\ active' = [active EXCEPT ![RequestId[a]] = a]
  /\ UNCHANGED <<running_turns, claimed, inboxes, tokens, sender, canceller>>

\* ActiveTurns::register: the first turn of a request keeps it.
Register(a) ==
  /\ Move(a, "claimed", "registered")
  /\ IF active[RequestId[a]] = Nobody
     THEN /\ guarded' = guarded \cup {a}
          /\ active' = [active EXCEPT ![RequestId[a]] = a]
     ELSE UNCHANGED <<guarded, active>>
  /\ UNCHANGED <<running_turns, claimed, inboxes, tokens, sender, canceller>>

MakeChild(a) ==
  /\ Move(a, "registered", "child")
  /\ child' = child \cup {a}
  /\ UNCHANGED <<registry, inboxes, cancelled, child_cancelled, watcher,
                 llm_cancelled, heard, sender, canceller>>

LinkTo(a) ==
  /\ Move(a, "child", "linked")
  /\ watcher' = watcher \cup {a}
  /\ UNCHANGED <<registry, inboxes, cancelled, child, child_cancelled,
                 llm_cancelled, heard, sender, canceller>>

\* bridge_runtime: without a runtime the loop never starts, and the inbox is
\* closed only by the guard.
StartLoop(a) ==
  /\ Move(a, "linked", "running") \/ Move(a, "linked", "ended")
  /\ UNCHANGED <<registry, inboxes, tokens, sender, canceller>>

\* One more round: a model call, with what the inbox held, and its calls.
Round(a) ==
  /\ phase[a] = "running" /\ a \notin llm_cancelled
  /\ read' = [read EXCEPT ![a] = @ \cup inbox[a]]
  /\ inbox' = [inbox EXCEPT ![a] = {}]
  /\ UNCHANGED <<phase, registry, closed, answered, tokens, sender, canceller>>

\* take_or_close found nothing waiting: the loop ends.
LoopEnds(a) ==
  /\ inbox[a] = {}
  /\ closed' = closed \cup {a}
  /\ Move(a, "running", "ended")

Answer_LeavesOpen(a) ==
  /\ a \notin llm_cancelled /\ inbox[a] = {}
  /\ Move(a, "running", "ended")
  /\ answered' = answered \cup {a}
  /\ UNCHANGED <<registry, inbox, closed, read, tokens, sender, canceller>>

Answer(a) ==
  /\ a \notin llm_cancelled
  /\ LoopEnds(a)
  /\ answered' = answered \cup {a}
  /\ UNCHANGED <<registry, inbox, read, tokens, sender, canceller>>

\* A dispatch whose token is cancelled fails: the loop reads what is waiting
\* and dispatches again, or ends.
RoundCancelled_StartsAnyway(a) ==
  /\ phase[a] = "running" /\ a \in llm_cancelled
  /\ UNCHANGED vars

RoundCancelled(a) ==
  /\ phase[a] = "running" /\ a \in llm_cancelled
  /\ \/ /\ inbox[a] # {}
        /\ read' = [read EXCEPT ![a] = @ \cup inbox[a]]
        /\ inbox' = [inbox EXCEPT ![a] = {}]
        /\ UNCHANGED <<phase, closed>>
     \/ LoopEnds(a) /\ UNCHANGED <<inbox, read>>
  /\ UNCHANGED <<registry, answered, tokens, sender, canceller>>

\* The loop fails any other way: resume_turn closes the inbox.
LoopFails(a) ==
  /\ Move(a, "running", "ended")
  /\ closed' = closed \cup {a}
  /\ UNCHANGED <<registry, inbox, read, answered, tokens, sender, canceller>>

\* A streamed turn's caller stopped listening: the turn cancels itself.
CallerGone(a) ==
  /\ phase[a] = "running"
  /\ llm_cancelled' = llm_cancelled \cup {a}
  /\ UNCHANGED <<phase, registry, inboxes, cancelled, child, child_cancelled, watcher,
                 heard, sender, canceller>>

\* run_agent_turn returns: KillLink and the child token are dropped.
Unlink(a) ==
  /\ Move(a, "ended", "unlinked")
  /\ watcher' = watcher \ {a} /\ child' = child \ {a}
  /\ UNCHANGED <<registry, inboxes, cancelled, child_cancelled, llm_cancelled, heard,
                 sender, canceller>>

\* ActiveTurnGuard::drop, which closes the inbox before it takes the lock.
DropClose(a) ==
  /\ Move(a, "unlinked", "closed")
  /\ closed' = IF a \in guarded THEN closed \cup {a} ELSE closed
  /\ UNCHANGED <<registry, inbox, read, answered, tokens, sender, canceller>>

DropRemove(a) ==
  /\ Move(a, "closed", "removed")
  /\ guarded' = guarded \ {a}
  /\ active' = [active EXCEPT ![RequestId[a]] =
                  IF a \in guarded /\ @ = a THEN Nobody ELSE @]
  /\ UNCHANGED <<running_turns, claimed, inboxes, tokens, sender, canceller>>

DropResume_Unclaimed(a) ==
  /\ Move(a, "removed", "done")
  /\ claimed' = claimed \ {a}
  /\ running_turns' = running_turns \ {TurnKey[a]}
  /\ UNCHANGED <<active, guarded, inboxes, tokens, sender, canceller>>

\* TurnResume::drop, for an attempt that holds one.
DropResume(a) ==
  /\ Move(a, "removed", "done")
  /\ claimed' = claimed \ {a}
  /\ running_turns' = IF a \in claimed THEN running_turns \ {TurnKey[a]} ELSE running_turns
  /\ UNCHANGED <<active, guarded, inboxes, tokens, sender, canceller>>

-----------------------------------------------------------------------------
(* Sending a message *)

SendFind(m, r) ==
  /\ sender[m].state = "idle"
  /\ sender' = [sender EXCEPT ![m] =
       IF active[r] = Nobody THEN Thread("refused", Nobody) ELSE Thread("found", active[r])]
  /\ UNCHANGED <<phase, registry, inboxes, tokens, canceller>>

PushRefused(a) == a \in closed \/ Cardinality(inbox[a]) >= MaxPending

SendPush(m) ==
  /\ sender[m].state = "found"
  /\ LET a == sender[m].turn IN
       IF PushRefused(a)
       THEN /\ sender' = [sender EXCEPT ![m].state = "refused"]
            /\ UNCHANGED inbox
       ELSE /\ sender' = [sender EXCEPT ![m].state = "accepted"]
            /\ inbox' = [inbox EXCEPT ![a] = @ \cup {m}]
  /\ UNCHANGED <<phase, registry, closed, read, answered, tokens, canceller>>

-----------------------------------------------------------------------------
(* Cancelling *)

Becomes(c, state) == canceller' = [canceller EXCEPT ![c].state = state]

CancelFind_Unchecked(c, r) ==
  /\ canceller[c].state = "idle"
  /\ canceller' = [canceller EXCEPT ![c] = Thread("found", active[r])]
  /\ UNCHANGED <<phase, registry, inboxes, tokens, sender>>

CancelFind(c, r) ==
  /\ canceller[c].state = "idle"
  /\ canceller' = [canceller EXCEPT ![c] =
       IF active[r] = Nobody THEN Thread("refused", Nobody) ELSE Thread("found", active[r])]
  /\ UNCHANGED <<phase, registry, inboxes, tokens, sender>>

CancelCheck(c) ==
  /\ canceller[c].state = "found"
  /\ Becomes(c, IF canceller[c].turn \in closed THEN "refused" ELSE "kill")
  /\ UNCHANGED <<phase, registry, inboxes, tokens, sender>>

\* kill() of the caller's token: a token killed before is left alone.
KillSwap(c) ==
  /\ canceller[c].state = "kill"
  /\ LET a == canceller[c].turn IN
       /\ Becomes(c, IF a \in cancelled THEN "accepted" ELSE "children")
       /\ cancelled' = cancelled \cup {a}
       /\ heard' = IF a \notin cancelled /\ a \in watcher THEN heard \cup {a} ELSE heard
  /\ UNCHANGED <<phase, registry, inboxes, child, child_cancelled, watcher,
                 llm_cancelled, sender>>

KillChildren_NotRecursive(c) ==
  /\ canceller[c].state = "children"
  /\ Becomes(c, "accepted")
  /\ UNCHANGED <<phase, registry, inboxes, tokens, sender>>

\* The children there are when the list is read; a dropped one is not.
KillChildren(c) ==
  /\ canceller[c].state = "children"
  /\ Becomes(c, IF canceller[c].turn \in child THEN "kill child" ELSE "accepted")
  /\ UNCHANGED <<phase, registry, inboxes, tokens, sender>>

KillChildSwap(c) ==
  /\ canceller[c].state = "kill child"
  /\ LET a == canceller[c].turn IN
       /\ Becomes(c, IF a \in child_cancelled THEN "accepted" ELSE "watchers")
       /\ child_cancelled' = child_cancelled \cup {a}
  /\ UNCHANGED <<phase, registry, inboxes, cancelled, child, watcher, llm_cancelled,
                 heard, sender>>

\* The watchers there are when the list is taken run.
KillWatchers(c) ==
  /\ canceller[c].state = "watchers"
  /\ Becomes(c, "accepted")
  /\ LET a == canceller[c].turn IN
       /\ llm_cancelled' = IF a \in watcher THEN llm_cancelled \cup {a} ELSE llm_cancelled
       /\ watcher' = watcher \ {a}
  /\ UNCHANGED <<phase, registry, inboxes, cancelled, child, child_cancelled, heard, sender>>

-----------------------------------------------------------------------------

Setup(a) == Claim(a) \/ Register(a) \/ MakeChild(a) \/ LinkTo(a) \/ StartLoop(a)
Teardown(a) == Unlink(a) \/ DropClose(a) \/ DropRemove(a) \/ DropResume(a)
Kill(c) ==
  CancelCheck(c) \/ KillSwap(c) \/ KillChildren(c) \/ KillChildSwap(c) \/ KillWatchers(c)

Next ==
  \/ \E a \in Attempts :
       \/ Setup(a) \/ Round(a) \/ Answer(a) \/ RoundCancelled(a) \/ LoopFails(a)
       \/ CallerGone(a) \/ Teardown(a)
  \/ \E m \in Messages : SendPush(m) \/ \E r \in Requests : SendFind(m, r)
  \/ \E c \in Cancellers : Kill(c) \/ \E r \in Requests : CancelFind(c, r)

Spec == Init /\ [][Next]_vars

\* Threads keep running, and a dispatch whose token is cancelled returns.  The
\* model is not obliged to answer: Round may be taken for ever.
FairSpec ==
  /\ Spec
  /\ \A a \in Attempts : WF_vars(Setup(a) \/ RoundCancelled(a) \/ Teardown(a))
  /\ \A c \in Cancellers : WF_vars(Kill(c))

-----------------------------------------------------------------------------
(* Properties *)

\* Every variable has its type.
TypeOK ==
  /\ phase \in [Attempts -> {"idle", "claimed", "registered", "child", "linked",
                             "running", "ended", "unlinked", "closed", "removed", "done"}]
  /\ running_turns \subseteq Keys
  /\ active \in [Requests -> Attempts \cup {Nobody}]
  /\ \A S \in {claimed, guarded, closed, answered, cancelled, child, child_cancelled,
               watcher, llm_cancelled, heard} : S \subseteq Attempts
  /\ inbox \in [Attempts -> SUBSET Messages] /\ read \in [Attempts -> SUBSET Messages]
  /\ \A a \in Attempts : Cardinality(inbox[a]) <= MaxPending
  /\ \A m \in Messages :
       /\ sender[m].state \in {"idle", "found", "accepted", "refused"}
       /\ sender[m].turn \in Attempts \cup {Nobody}
  /\ \A c \in Cancellers :
       /\ canceller[c].state \in {"idle", "found", "kill", "children", "kill child",
                                  "watchers", "accepted", "refused"}
       /\ canceller[c].turn \in Attempts \cup {Nobody}

Over(a) == phase[a] \in {"removed", "done"}

\* No two attempts hold the claim on one turn, and the claims of the process
\* are those of attempts that are still running: a turn that is running is
\* never resumed beside itself, and one that ended can be (resume.rs).
ClaimsExclusive ==
  /\ \A a, b \in claimed : TurnKey[a] = TurnKey[b] => a = b
  /\ running_turns = {TurnKey[a] : a \in claimed}
  /\ \A a \in claimed : phase[a] \notin {"idle", "done"}

\* A request reaches the one turn registered for it for as long as that turn
\* holds its guard, and nothing once the guard is gone (steer.rs).
ReachesItsTurn ==
  /\ \A a \in guarded : active[RequestId[a]] = a /\ ~Over(a)
  /\ \A r \in Requests : active[r] # Nobody => active[r] \in guarded

\* A message that a turn accepted is read before that turn's model answers,
\* even when the turn was found just before it ended (take_or_close).
AcceptedRead ==
  \A m \in Messages :
    sender[m].state = "accepted" /\ sender[m].turn \in answered =>
      m \in read[sender[m].turn]

Killing(a) ==
  \E c \in Cancellers :
    /\ canceller[c].turn = a
    /\ canceller[c].state \in {"children", "kill child", "watchers"}

\* A kill that begins once the turn is linked has cancelled the dispatcher's
\* token when it is over, however many cancels run at once.
KillReaches ==
  \A a \in heard : phase[a] = "running" /\ ~Killing(a) => a \in llm_cancelled

\* Such a turn ends, although its model and its senders could keep it going.
KilledTurnEnds == \A a \in Attempts : a \in heard ~> phase[a] = "done"

\* An accepted cancel stops the turn: once no kill is under way, a running
\* turn whose cancel was accepted has its dispatches cancelled (steer.rs,
\* ActiveTurns::cancel).
CancelStops ==
  \A c \in Cancellers :
    LET a == canceller[c].turn IN
      canceller[c].state = "accepted" /\ ~Killing(a) /\ phase[a] = "running" =>
        a \in llm_cancelled

-----------------------------------------------------------------------------
(* What is promised of a turn, and that this keeps it *)

\* A thread that has found a turn and not yet pushed has decided nothing.
Fate ==
  [m \in Messages |->
     [state |-> IF sender[m].state \in {"idle", "found"} THEN "undecided" ELSE sender[m].state,
      turn |-> IF sender[m].state = "accepted" THEN sender[m].turn ELSE Nobody]]

Promise == INSTANCE Turn WITH
  holders <- claimed, fate <- Fate, waiting <- inbox, seen <- read

\* The registry, the claims and the inboxes do what Turn promises: the lookup
\* and the push that follows it, closing an inbox and answering, are one step
\* to whoever looks from outside (resume.rs, steer.rs).
KeepsPromise == Promise!Spec
=============================================================================
