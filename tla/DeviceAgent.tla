---------------------------- MODULE DeviceAgent ----------------------------
(***************************************************************************)
(* The computer's side of remote computer use: the agent that holds the    *)
(* session, asks the person, runs actions and obeys the kill switch        *)
(* (crates/surface/device/src/agent.rs), and the link that dials the cell, *)
(* spawns a task for every request and action, and sends their answers     *)
(* (crates/surface/device/src/link.rs).                                    *)
(*                                                                         *)
(* The tasks of a link run in parallel with its loop on a multi-threaded   *)
(* runtime.  When the link ends they are aborted, which stops a task only  *)
(* where it awaits: one that is running goes on to its next await, and     *)
(* work on a blocking thread goes on to its end.                           *)
(***************************************************************************)
EXTENDS DeviceWire

VARIABLES
  welcomed,   \* its welcome has come
  granted,    \* State::session: the session in force on the device
  over,       \* its time is over, or the person used the machine
  blocked,    \* State::blocked_until_ms is still to come
  request,    \* the task of each session request
  action,     \* the task of each action
  work,       \* the session each action is for
  answers,    \* the channel from the tasks to the loop
  performed,  \* history: how often each action touched the machine
  allowed     \* history: the sessions the person said yes to

tasks == <<request, action, work, answers>>
agent == <<welcomed, granted, over, blocked, tasks, performed, allowed>>

AgentInit ==
  /\ link = None /\ welcomed = FALSE
  /\ granted = None /\ over = FALSE /\ blocked = FALSE
  /\ request = [s \in SessionIds |-> "none"]
  /\ action = [a \in ActionIds |-> "none"]
  /\ work = [a \in ActionIds |-> None]
  /\ answers = <<>>
  /\ performed = [a \in ActionIds |-> 0]
  /\ allowed = {}

NowGranted(s) == granted' = s /\ over' = FALSE

-----------------------------------------------------------------------------
(* The link *)

\* Agent::hello forgets the session; the cell has accepted the connection.
Hello(c) ==
  /\ link = None
  /\ link' = c
  /\ NowGranted(None)
  /\ UNCHANGED <<wire, welcomed, blocked, tasks, performed, allowed>>

Welcomed ==
  /\ link # None /\ ~welcomed
  /\ down[link] # <<>> /\ Head(down[link]) = Welcome
  /\ down' = [down EXCEPT ![link] = Tail(@)]
  /\ welcomed' = TRUE
  /\ UNCHANGED <<up, link, granted, over, blocked, tasks, performed, allowed>>

\* Whatever ends it: the cell closed, a send failed, the cell is silent or
\* never welcomed the device.  abort_all, and Agent::disconnected if it was
\* welcomed.  A task whose dialog was answered may be past its last await.
LinkEnds ==
  /\ link # None
  /\ link' = None /\ welcomed' = FALSE
  /\ IF welcomed THEN NowGranted(None) ELSE UNCHANGED <<granted, over>>
  /\ down' = [down EXCEPT ![link] = <<>>]
  /\ answers' = <<>>
  /\ \E running \in SUBSET {s \in SessionIds : request[s] = "allow"} :
       request' = [s \in SessionIds |->
                     IF s \in running \/ request[s] = "orphan" THEN "orphan" ELSE "none"]
  /\ action' = [a \in ActionIds |->
                  IF action[a] \in {"run", "orphan"} THEN "orphan" ELSE "none"]
  /\ UNCHANGED <<up, blocked, work, performed, allowed>>

\* A frame of the cell, once welcomed.
ReadFrame ==
  /\ welcomed /\ down[link] # <<>>
  /\ down' = [down EXCEPT ![link] = Tail(@)]
  /\ LET frame == Head(down[link])
     IN \/ /\ frame.type = "request"
           /\ request' = [request EXCEPT ![frame.session] = "start"]
           /\ UNCHANGED <<granted, over, action, work>>
        \/ /\ frame.type = "action"
           /\ action' = [action EXCEPT ![frame.action] = "check"]
           /\ work' = [work EXCEPT ![frame.action] = frame.session]
           /\ UNCHANGED <<granted, over, request>>
        \/ /\ frame.type = "end"
           /\ IF granted = frame.session THEN NowGranted(None) ELSE UNCHANGED <<granted, over>>
           /\ UNCHANGED <<request, action, work>>
  /\ UNCHANGED <<up, link, welcomed, blocked, answers, performed, allowed>>

\* The loop sends what a task answered.
SendAnswer ==
  /\ welcomed /\ answers # <<>>
  /\ answers' = Tail(answers)
  /\ SendUp(link, Head(answers))
  /\ UNCHANGED <<down, link, welcomed, granted, over, blocked, request, action, work,
                 performed, allowed>>

-----------------------------------------------------------------------------
(* Agent::request *)

\* A new request ends the session in force; the kill switch refuses it.
RequestStarts(s) ==
  /\ request[s] = "start"
  /\ NowGranted(None)
  /\ IF blocked
     THEN /\ request' = [request EXCEPT ![s] = "none"]
          /\ answers' = Append(answers, SessionDenied(s))
     ELSE /\ request' = [request EXCEPT ![s] = "dialog"]
          /\ UNCHANGED answers
  /\ UNCHANGED <<wire, link, welcomed, blocked, action, work, performed, allowed>>

\* The person answers, or does not in time.
PersonAnswers(s) ==
  /\ request[s] = "dialog"
  /\ \/ /\ request' = [request EXCEPT ![s] = "allow"]
        /\ allowed' = allowed \cup {s}
        /\ UNCHANGED answers
     \/ /\ request' = [request EXCEPT ![s] = "none"]
        /\ answers' = Append(answers, SessionDenied(s))
        /\ UNCHANGED allowed
  /\ UNCHANGED <<wire, link, welcomed, granted, over, blocked, action, work, performed>>

RequestAllowed_NoRecheck(s) ==
  /\ request[s] \in {"allow", "orphan"}
  /\ request' = [request EXCEPT ![s] = "none"]
  /\ NowGranted(s)
  /\ answers' = IF request[s] = "orphan" THEN answers ELSE Append(answers, SessionGranted(s))
  /\ UNCHANGED <<wire, link, welcomed, blocked, action, work, performed, allowed>>

\* A yes, unless the kill switch was pressed while the dialog was up.  An
\* orphan has nobody left to answer to.
RequestAllowed(s) ==
  /\ request[s] \in {"allow", "orphan"}
  /\ request' = [request EXCEPT ![s] = "none"]
  /\ IF blocked THEN UNCHANGED <<granted, over>> ELSE NowGranted(s)
  /\ answers' = IF request[s] = "orphan" THEN answers
                ELSE Append(answers, IF blocked THEN SessionDenied(s) ELSE SessionGranted(s))
  /\ UNCHANGED <<wire, link, welcomed, blocked, action, work, performed, allowed>>

-----------------------------------------------------------------------------
(* Agent::act *)

\* The session is checked; one that is over ends here, and the cell hears of
\* that before it hears of the action.
CheckAction(a) ==
  /\ action[a] = "check"
  /\ \/ /\ granted # work[a]
        /\ action' = [action EXCEPT ![a] = "none"]
        /\ answers' = Append(answers, Result(a, "refused"))
        /\ UNCHANGED <<granted, over>>
     \/ /\ granted = work[a] /\ over
        /\ action' = [action EXCEPT ![a] = "none"]
        /\ answers' = answers \o <<SessionEnd(granted, "checked"), Result(a, "refused")>>
        /\ NowGranted(None)
     \/ /\ granted = work[a] /\ ~over
        /\ action' = [action EXCEPT ![a] = "run"]
        /\ UNCHANGED <<granted, over, answers>>
  /\ UNCHANGED <<wire, link, welcomed, blocked, request, work, performed, allowed>>

RunAction_Blames(a) ==
  /\ action[a] \in {"run", "orphan"}
  /\ action' = [action EXCEPT ![a] = "none"]
  /\ \E did \in BOOLEAN, verdict \in {"ok", "refused"} :
       /\ (verdict = "ok") => did
       /\ performed' = IF did THEN [performed EXCEPT ![a] = @ + 1] ELSE performed
       /\ answers' = IF action[a] = "orphan" THEN answers
                     ELSE Append(answers, Result(a, verdict))
  /\ UNCHANGED <<wire, link, welcomed, granted, over, blocked, request, work, allowed>>

\* run: refused (denied app, secure input, bad keys), or performed and the
\* screen captured; either may fail.
RunAction(a) ==
  /\ action[a] \in {"run", "orphan"}
  /\ action' = [action EXCEPT ![a] = "none"]
  /\ \E did \in BOOLEAN, verdict \in {"ok", "refused", "failed"} :
       /\ (verdict = "ok") => did
       /\ (verdict = "refused") => ~did
       /\ performed' = IF did THEN [performed EXCEPT ![a] = @ + 1] ELSE performed
       /\ answers' = IF action[a] = "orphan" THEN answers
                     ELSE Append(answers, Result(a, verdict))
  /\ UNCHANGED <<wire, link, welcomed, granted, over, blocked, request, work, allowed>>

-----------------------------------------------------------------------------
(* The person, and time *)

Kill_AlwaysTells ==
  /\ link = None \/ welcomed
  /\ ~blocked /\ blocked' = TRUE
  /\ NowGranted(None)
  /\ IF link # None THEN SendUp(link, SessionEnd(granted, "killed")) ELSE UNCHANGED up
  /\ UNCHANGED <<down, link, welcomed, tasks, performed, allowed>>

\* The kill switch.  The loop sends the news itself, ahead of the answers
\* still in the channel; it does not look while it dials.
Kill ==
  /\ link = None \/ welcomed
  /\ ~blocked /\ blocked' = TRUE
  /\ NowGranted(None)
  /\ IF link # None /\ granted # None
     THEN SendUp(link, SessionEnd(granted, "killed"))
     ELSE UNCHANGED up
  /\ UNCHANGED <<down, link, welcomed, tasks, performed, allowed>>

KillBlockEnds ==
  /\ blocked /\ blocked' = FALSE
  /\ UNCHANGED <<wire, link, welcomed, granted, over, tasks, performed, allowed>>

\* until_ms passes, or there is input of the person's after the grace time.
GrantIsOver ==
  /\ granted # None /\ ~over
  /\ over' = TRUE
  /\ UNCHANGED <<wire, link, welcomed, granted, blocked, tasks, performed, allowed>>

-----------------------------------------------------------------------------

AgentNext ==
  \/ Welcomed \/ LinkEnds \/ ReadFrame \/ SendAnswer
  \/ Kill \/ KillBlockEnds \/ GrantIsOver
  \/ \E s \in SessionIds : RequestStarts(s) \/ PersonAnswers(s) \/ RequestAllowed(s)
  \/ \E a \in ActionIds : CheckAction(a) \/ RunAction(a)
=============================================================================
