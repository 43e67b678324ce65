------------------------------ MODULE TurnLoop ------------------------------
(***************************************************************************)
(* One chat turn, over all the attempts made at it: the agent loop         *)
(* (crates/engine/core/src/session.rs), the checkpoint it journals, the    *)
(* stored record a retry resumes from (crates/domains/chat/src/resume.rs)  *)
(* and the inbox messages are sent to (crates/domains/chat/src/steer.rs).  *)
(*                                                                         *)
(* An attempt starts with Claim and ends with an answer, at the round cap, *)
(* with an error, or with the death of the process.  Only one attempt at a *)
(* turn holds its claim at a time (module ActiveTurns), so attempts follow *)
(* each other.  The record outlives the process; everything else does not. *)
(*                                                                         *)
(* A tool call is its identity and its state; its name, arguments and      *)
(* output are left out, except that a settled call says whether it         *)
(* reported a result ("done") or was given up as "interrupted".  Answers,  *)
(* repair requests and other texts that are not journaled are left out of  *)
(* the history.                                                            *)
(***************************************************************************)
EXTENDS Integers, Sequences, FiniteSets

CONSTANTS
  Calls,             \* the tool calls the model may ask for, each once
  Safe,              \* those whose tool is parallel-safe (no side effects)
  Messages,          \* the messages people may send to the turn, each once
  NoRecord,          \* no checkpoint is stored for the turn
  MaxToolRounds,     \* Session.max_tool_rounds
  ToolMaxParallel,   \* the configured toolMaxParallel
  MaxPending,        \* MAX_PENDING_STEER_MESSAGES
  DeleteMayFail,     \* whether deleting the stored record can fail
  MaxCalls,          \* bound: calls the model asks for in one round
  MaxAttempts,       \* bound: attempts at the turn
  MaxFaults          \* bound: crashes, failed store operations, expiries

ASSUME TurnLoopAssumption ==
  /\ Safe \subseteq Calls /\ Calls \cap Messages = {}
  /\ MaxToolRounds \in Nat /\ ToolMaxParallel \in Nat /\ MaxPending \in Nat
  /\ MaxCalls \in Nat /\ MaxAttempts \in Nat /\ MaxFaults \in Nat
  /\ DeleteMayFail \in BOOLEAN

VARIABLES
  stored,          \* the turn's row in the store, or NoRecord
  journal_failed,  \* StoreJournal.failed
  pc,              \* where the attempt is; "idle" when none runs
  outcome,         \* how the last attempt ended
  ck,              \* Session.checkpoint
  left,            \* what is left to replay of the checkpoint resumed from
  replaying,       \* the attempt is still replaying that checkpoint
  queued, running, \* indices of the batch's calls not polled yet / polled
  rounds,          \* rounds of the attempt
  repaired,        \* the one correction of a rejected answer has been used
  failed,          \* RoundLog.failure: the last dispatch failed
  inbox, closed,   \* SteerInbox
  history,         \* the messages and calls of Session.history
  used,            \* calls the model has asked for, in any attempt
  unsent,          \* messages not sent yet
  attempts, faults,
  invoked,         \* history: how often each call's tool was invoked
  accepted,        \* history: messages the attempt's inbox accepted
  shown,           \* history: messages the model has been shown
  journaled        \* history: calls started and messages read that a
                   \* record held when it was last written
                   \* and that nothing has given up since

Empty == [rounds |-> <<>>, steered |-> <<>>]

loop == <<ck, left, replaying, rounds, repaired, failed, history>>
batch == <<queued, running, invoked>>
mail == <<inbox, closed, unsent, accepted>>
record == <<stored, journal_failed, journaled>>
bounds == <<used, attempts>>
vars == <<record, pc, outcome, loop, batch, mail, bounds, shown, faults>>

Fault == faults < MaxFaults /\ faults' = faults + 1

-----------------------------------------------------------------------------
(* Checkpoints *)

CallStates == {"planned", "started", "done", "interrupted"}
Settled(call) == call.state \in {"done", "interrupted"}

CallsIn(record_rounds) ==
  UNION {{r.calls[i] : i \in DOMAIN r.calls} :
           r \in {record_rounds[k] : k \in DOMAIN record_rounds}}
Elements(s) == {s[i] : i \in DOMAIN s}

\* What a record says happened: the calls it has past planned and the
\* messages it holds.
Recorded(record_) ==
  IF record_ = NoRecord THEN {}
  ELSE {call.id : call \in {c \in CallsIn(record_.rounds) : c.state # "planned"}}
         \cup Elements(record_.steered)
         \cup UNION {Elements(record_.rounds[k].steered_before) :
                       k \in DOMAIN record_.rounds}

\* The calls of the round run_calls is working on.
Current == ck.rounds[Len(ck.rounds)].calls

WithState(S, state) ==
  [ck EXCEPT !.rounds[Len(ck.rounds)].calls =
     [i \in DOMAIN @ |-> IF i \in S THEN [@[i] EXCEPT !.state = state] ELSE @[i]]]

\* A call that started and never settled runs again only if it is safe.
ResumedState(call) ==
  IF call.state # "started" THEN call.state
  ELSE IF call.id \in Safe THEN "planned" ELSE "interrupted"

Resumed(round) ==
  [steered_before |-> round.steered_before,
   calls |-> [i \in DOMAIN round.calls |->
                [id |-> round.calls[i].id, state |-> ResumedState(round.calls[i])]]]

Deleted == IF DeleteMayFail THEN {NoRecord, stored} ELSE {NoRecord}

\* StoreJournal::record.  After one failed write nothing more is written.
Journal_KeepsStale(new) ==
  \/ /\ journal_failed
     /\ UNCHANGED <<record, faults>>
  \/ /\ ~journal_failed
     /\ stored' = new
     /\ journaled' = journaled \cup Recorded(new)
     /\ UNCHANGED <<journal_failed, faults>>
  \/ /\ ~journal_failed
     /\ Fault
     /\ journal_failed' = TRUE
     /\ UNCHANGED stored
     /\ journaled' = {}

Journal(new) ==
  \/ /\ journal_failed
     /\ UNCHANGED <<record, faults>>
  \/ /\ ~journal_failed
     /\ stored' = new
     /\ journaled' = journaled \cup Recorded(new)
     /\ UNCHANGED <<journal_failed, faults>>
  \/ /\ ~journal_failed
     /\ Fault
     /\ journal_failed' = TRUE
     /\ stored' \in Deleted
     /\ journaled' = {}

\* TurnResume::finish
Finish ==
  /\ journal_failed' = TRUE
  /\ stored' \in Deleted
  /\ journaled' = {}

-----------------------------------------------------------------------------
(* Starting and ending an attempt *)

Init ==
  /\ stored = NoRecord /\ journal_failed = FALSE /\ journaled = {}
  /\ pc = "idle" /\ outcome = "none"
  /\ ck = Empty /\ left = Empty /\ replaying = FALSE
  /\ queued = {} /\ running = {}
  /\ rounds = 0 /\ repaired = FALSE /\ failed = FALSE
  /\ inbox = <<>> /\ closed = TRUE
  /\ history = <<>> /\ used = {} /\ unsent = Messages
  /\ attempts = 0 /\ faults = 0
  /\ invoked = [c \in Calls |-> 0]
  /\ accepted = {} /\ shown = {}

\* The new attempt registers its inbox and enters the loop with `checkpoint`.
Begin(checkpoint) ==
  /\ pc = "idle" /\ attempts < MaxAttempts
  /\ attempts' = attempts + 1
  /\ pc' = "replay" /\ outcome' = "none"
  /\ left' = checkpoint /\ replaying' = TRUE /\ ck' = Empty
  /\ rounds' = 0 /\ repaired' = FALSE /\ failed' = FALSE /\ history' = <<>>
  /\ inbox' = <<>> /\ closed' = FALSE /\ accepted' = {} /\ shown' = {}
  /\ journal_failed' = FALSE
  /\ UNCHANGED <<batch, used, unsent>>

Claim ==
  /\ Begin(IF stored = NoRecord THEN Empty ELSE stored)
  /\ UNCHANGED <<stored, journaled, faults>>

\* The record cannot be parsed: it is deleted and the turn starts over.
ClaimUnreadable ==
  /\ stored # NoRecord /\ Fault
  /\ Begin(Empty)
  /\ stored' \in Deleted
  /\ journaled' = {}

\* The store cannot be read: the turn starts over beside the old record.
ClaimReadError ==
  /\ stored # NoRecord /\ Fault
  /\ Begin(Empty)
  /\ UNCHANGED stored
  /\ journaled' = {}

\* The attempt is over: what it held in memory is gone.
End(how) ==
  /\ pc' = "idle" /\ outcome' = how
  /\ ck' = Empty /\ left' = Empty /\ replaying' = FALSE
  /\ queued' = {} /\ running' = {}
  /\ rounds' = 0 /\ repaired' = FALSE /\ failed' = FALSE /\ history' = <<>>
  /\ inbox' = <<>> /\ closed' = TRUE
  /\ UNCHANGED <<invoked, unsent, accepted, shown, bounds>>

Crash ==
  /\ pc # "idle" /\ Fault
  /\ End("crashed")
  /\ UNCHANGED record

\* Another turn's first write prunes a record older than CHECKPOINT_TTL_HOURS.
Expire ==
  /\ stored # NoRecord /\ Fault
  /\ stored' = NoRecord
  /\ journaled' = {}
  /\ UNCHANGED <<journal_failed, pc, outcome, loop, batch, mail, bounds, shown>>

-----------------------------------------------------------------------------
(* The inbox *)

InboxFull == Len(inbox) >= MaxPending

\* SteerInbox::push accepts; it refuses when closed or full.
Send(m) ==
  /\ ~closed /\ ~InboxFull
  /\ m \in unsent
  /\ inbox' = Append(inbox, m)
  /\ unsent' = unsent \ {m}
  /\ accepted' = accepted \cup {m}
  /\ UNCHANGED <<record, pc, outcome, loop, batch, closed, bounds, shown, faults>>

ReadItems(messages) == [i \in DOMAIN messages |-> <<messages[i], "read">>]

\* steer(): messages taken from the inbox join the history and, unless there
\* are none, the checkpoint, which is journaled.
Steer_NoJournal(messages) ==
  /\ ck' = [ck EXCEPT !.steered = @ \o messages]
  /\ history' = history \o ReadItems(messages)
  /\ UNCHANGED <<record, faults>>

Steer(messages) ==
  /\ ck' = [ck EXCEPT !.steered = @ \o messages]
  /\ history' = history \o ReadItems(messages)
  /\ IF messages = <<>> THEN UNCHANGED <<record, faults>> ELSE Journal(ck')

-----------------------------------------------------------------------------
(* Rounds of tool calls *)

\* run_calls up to its loop: the round joins the checkpoint and is journaled.
RunCalls(round, steered) ==
  /\ ck' = [rounds |-> Append(ck.rounds, Resumed(round)), steered |-> steered]
  /\ Journal(ck')
  /\ pc' = "calls"

ReplayRound ==
  /\ pc = "replay" /\ left.rounds # <<>>
  /\ rounds' = rounds + 1
  /\ left' = [left EXCEPT !.rounds = Tail(@)]
  /\ history' = history \o ReadItems(Head(left.rounds).steered_before)
  /\ RunCalls(Head(left.rounds), ck.steered)
  /\ UNCHANGED <<outcome, replaying, repaired, failed, batch, mail, bounds, shown>>

FinishReplay_DropsSteered ==
  /\ pc = "replay" /\ left.rounds = <<>>
  /\ history' = history \o ReadItems(left.steered)
  /\ left' = Empty /\ replaying' = FALSE
  /\ pc' = "loop"
  /\ UNCHANGED <<record, outcome, ck, rounds, repaired, failed, batch, mail, bounds,
                 shown, faults>>

\* The messages read after the last recorded round: put back, not journaled.
FinishReplay ==
  /\ pc = "replay" /\ left.rounds = <<>>
  /\ history' = history \o ReadItems(left.steered)
  /\ ck' = [ck EXCEPT !.steered = left.steered]
  /\ left' = Empty /\ replaying' = FALSE
  /\ pc' = "loop"
  /\ UNCHANGED <<record, outcome, rounds, repaired, failed, batch, mail, bounds,
                 shown, faults>>

MaxParallel_Unclamped == ToolMaxParallel

\* with_max_parallel_tool_calls: at least one.
MaxParallel == IF ToolMaxParallel < 1 THEN 1 ELSE ToolMaxParallel

Planned(i) == Current[i].state = "planned"
Parallel(i) == MaxParallel > 1 /\ Current[i].id \in Safe

BatchFrom_IgnoresBarrier(i) ==
  IF Parallel(i)
  THEN {j \in i..Len(Current) : \A k \in i..j : Planned(k)}
  ELSE {i}

\* The calls run together when `i` is the next one that has not run.
BatchFrom(i) ==
  IF Parallel(i)
  THEN {j \in i..Len(Current) : \A k \in i..j : Parallel(k) /\ Planned(k)}
  ELSE {i}

StartBatch_NotJournaled ==
  /\ pc = "calls"
  /\ \E i \in DOMAIN Current :
       /\ Planned(i) /\ \A j \in 1..(i - 1) : ~Planned(j)
       /\ queued' = BatchFrom(i)
       /\ ck' = WithState(BatchFrom(i), "started")
  /\ pc' = "batch"
  /\ UNCHANGED <<record, outcome, left, replaying, rounds, repaired, failed, history,
                 running, invoked, mail, bounds, shown, faults>>

\* A batch's calls are marked started, and journaled, before any of them runs.
StartBatch ==
  /\ pc = "calls"
  /\ \E i \in DOMAIN Current :
       /\ Planned(i) /\ \A j \in 1..(i - 1) : ~Planned(j)
       /\ queued' = BatchFrom(i)
       /\ ck' = WithState(BatchFrom(i), "started")
  /\ Journal(ck')
  /\ pc' = "batch"
  /\ UNCHANGED <<outcome, left, replaying, rounds, repaired, failed, history,
                 running, invoked, mail, bounds, shown>>

\* buffer_unordered polls the batch in order, MaxParallel calls at a time.
Invoke ==
  /\ pc = "batch" /\ Cardinality(running) < MaxParallel
  /\ \E i \in queued :
       /\ \A j \in queued : i <= j
       /\ queued' = queued \ {i}
       /\ running' = running \cup {i}
       /\ invoked' = [invoked EXCEPT ![Current[i].id] = @ + 1]
  /\ UNCHANGED <<record, pc, outcome, loop, mail, bounds, shown, faults>>

\* A call reports back, whether its tool succeeded or failed.
Settle(i) ==
  /\ pc = "batch" /\ i \in running
  /\ ck' = WithState({i}, "done")
  /\ Journal(ck')
  /\ running' = running \ {i}
  /\ pc' = IF running = {i} /\ queued = {} THEN "calls" ELSE "batch"
  /\ UNCHANGED <<outcome, left, replaying, rounds, repaired, failed, history,
                 queued, invoked, mail, bounds, shown>>

\* Results enter the history in call order.  A call that did not run has no
\* place here ("Unreachable" in the code).
CallItem(call) == <<call.id, IF Settled(call) THEN call.state ELSE "did not run">>

EndCalls ==
  /\ pc = "calls"
  /\ \A i \in DOMAIN Current : ~Planned(i)
  /\ history' = history \o [i \in DOMAIN Current |-> CallItem(Current[i])]
  /\ pc' = IF replaying THEN "replay" ELSE "loop"
  /\ UNCHANGED <<record, outcome, ck, left, replaying, rounds, repaired, failed,
                 batch, mail, bounds, shown, faults>>

-----------------------------------------------------------------------------
(* Model calls *)

AtCap_OffByOne == rounds > MaxToolRounds

AtCap == rounds >= MaxToolRounds

\* The turn gave up at the cap: a retry would stop there again.
CapReached ==
  /\ pc = "loop" /\ AtCap
  /\ Finish
  /\ End("capped")
  /\ UNCHANGED faults

MessagesIn(items) == {items[i][1] : i \in DOMAIN items} \cap Messages

\* The inbox is read, then the model is called with the history.
CallModel ==
  /\ pc = "loop" /\ ~AtCap
  /\ rounds' = rounds + 1
  /\ Steer(inbox)
  /\ inbox' = <<>>
  /\ shown' = MessagesIn(history')
  /\ pc' = "model"
  /\ UNCHANGED <<outcome, left, replaying, repaired, failed, batch, closed, unsent,
                 accepted, bounds>>

\* A hook vetoed the round, or it could not be prepared or recorded.
ModelErrors ==
  /\ pc = "model"
  /\ End("failed")
  /\ UNCHANGED <<record, faults>>

\* The model asks for calls (injective: every call has an identity of its own).
ModelAsks(calls) ==
  /\ pc = "model"
  /\ used' = used \cup Elements(calls)
  /\ failed' = FALSE
  /\ RunCalls([steered_before |-> ck.steered,
               calls |-> [i \in DOMAIN calls |-> [id |-> calls[i], state |-> "planned"]]],
              <<>>)
  /\ UNCHANGED <<outcome, left, replaying, rounds, repaired, history, batch, mail,
                 attempts, shown>>

\* A text without calls, rejected by the answer check: one correction is asked
\* for.  A failed dispatch also reaches the check, as a text without calls.
ModelRejected(failure) ==
  /\ pc = "model" /\ ~repaired
  /\ failed' = failure
  /\ repaired' = TRUE
  /\ pc' = "loop"
  /\ UNCHANGED <<record, outcome, ck, left, replaying, rounds, history, batch, mail,
                 bounds, shown, faults>>

ModelRejectedAgain ==
  /\ pc = "model" /\ repaired
  /\ End("failed")
  /\ UNCHANGED <<record, faults>>

\* An answer (or a failed dispatch) while messages wait: the loop goes on.
ModelInterim(failure) ==
  /\ pc = "model" /\ inbox # <<>>
  /\ failed' = failure
  /\ Steer(inbox)
  /\ inbox' = <<>>
  /\ pc' = "loop"
  /\ UNCHANGED <<outcome, left, replaying, rounds, repaired, batch, closed, unsent,
                 accepted, bounds, shown>>

ModelAnswers_LeavesOpen(failure) ==
  /\ pc = "model" /\ inbox = <<>>
  /\ failed' = failure
  /\ pc' = "answered"
  /\ UNCHANGED <<record, outcome, ck, left, replaying, rounds, repaired, history, batch,
                 mail, bounds, shown, faults>>

\* An answer with nothing waiting: the inbox closes in the same step.
ModelAnswers(failure) ==
  /\ pc = "model" /\ inbox = <<>>
  /\ failed' = failure
  /\ closed' = TRUE
  /\ pc' = "answered"
  /\ UNCHANGED <<record, outcome, ck, left, replaying, rounds, repaired, history, batch,
                 inbox, unsent, accepted, bounds, shown, faults>>

\* The answer is recorded and the stored record deleted; a turn whose last
\* dispatch failed keeps it for a retry.
FinishAnswered ==
  /\ pc = "answered" /\ ~failed
  /\ Finish
  /\ End("answered")
  /\ UNCHANGED faults

FinishFailed ==
  /\ pc = "answered" /\ failed
  /\ End("failed")
  /\ UNCHANGED <<record, faults>>

\* Recording the answer failed: the query fails and the record stays.
PersistFails ==
  /\ pc = "answered" /\ Fault
  /\ End("failed")
  /\ UNCHANGED record

-----------------------------------------------------------------------------

\* What the model may ask for: unused calls, all different.
Requests ==
  {calls \in UNION {[1..n -> Calls \ used] : n \in 1..MaxCalls} :
     \A i, j \in DOMAIN calls : calls[i] = calls[j] => i = j}

Step ==
  \/ ReplayRound \/ FinishReplay
  \/ StartBatch \/ Invoke \/ (\E i \in running : Settle(i)) \/ EndCalls
  \/ CapReached \/ CallModel
  \/ ModelErrors \/ (\E calls \in Requests : ModelAsks(calls))
  \/ (\E failure \in BOOLEAN :
        ModelRejected(failure) \/ ModelInterim(failure) \/ ModelAnswers(failure))
  \/ ModelRejectedAgain
  \/ FinishAnswered \/ FinishFailed

Next ==
  \/ Claim \/ ClaimUnreadable \/ ClaimReadError
  \/ Step
  \/ PersistFails \/ Crash \/ Expire
  \/ \E m \in Messages : Send(m)

Spec == Init /\ [][Next]_vars

\* The runtime keeps polling a running turn, tools report back (each has a
\* timeout of its own) and the provider answers or fails (dispatches have a
\* deadline).  Nobody is obliged to retry, to send a message or to crash.
FairSpec == Spec /\ WF_vars(Step)
-----------------------------------------------------------------------------
(* Properties *)

CallSeqs == Seq([id : Calls, state : CallStates])
Records ==
  [rounds : Seq([steered_before : Seq(Messages), calls : CallSeqs]),
   steered : Seq(Messages)]

\* Every variable has its type.
TypeOK ==
  /\ stored = NoRecord \/ (stored \in Records /\ Len(stored.rounds) <= MaxToolRounds)
  /\ journal_failed \in BOOLEAN
  /\ pc \in {"idle", "replay", "calls", "batch", "loop", "model", "answered"}
  /\ outcome \in {"none", "answered", "capped", "failed", "crashed"}
  /\ ck \in Records /\ left \in Records /\ replaying \in BOOLEAN
  /\ queued \subseteq Nat /\ running \subseteq Nat
  /\ rounds \in 0..MaxToolRounds /\ repaired \in BOOLEAN /\ failed \in BOOLEAN
  /\ inbox \in Seq(Messages) /\ Len(inbox) <= MaxPending /\ closed \in BOOLEAN
  /\ history \in Seq((Calls \cup Messages)
                       \X {"read", "done", "interrupted", "did not run"})
  /\ used \subseteq Calls /\ unsent \subseteq Messages
  /\ attempts \in Nat /\ faults \in Nat
  /\ invoked \in [Calls -> Nat]
  /\ accepted \subseteq Messages /\ shown \subseteq Messages
  /\ journaled \subseteq Calls \cup Messages

\* A call with side effects is invoked at most once, whatever crashes, failed
\* writes and retries happen between the attempts (checkpoint.rs: "Repeating
\* it would be the one wrong answer").
UnsafeAtMostOnce == \A c \in Calls \ Safe : invoked[c] <= 1

\* What the record, or what is left of it to replay, says has not started did
\* not run: a call is journaled as started before run_calls starts it.
PlannedNeverRan ==
  \A record_ \in {stored, left} \ {NoRecord} :
    \A call \in CallsIn(record_.rounds) :
      call.state = "planned" /\ call.id \notin Safe => invoked[call.id] = 0

\* While a call with side effects runs nothing else does, everything before it
\* has settled and nothing after it has run in this attempt; at most
\* MaxParallel calls run at once (the batches of run_calls).
SideEffectsAlone ==
  /\ Cardinality(running) <= MaxParallel
  /\ \A i \in running :
       Current[i].id \notin Safe =>
         /\ running = {i} /\ queued = {}
         /\ \A j \in 1..(i - 1) : Settled(Current[j])
         /\ \A j \in (i + 1)..Len(Current) : Current[j].state # "done"

\* Every message a turn accepted has been shown to the model by the time it
\* answers: the last look into the inbox and its closing are one step.
AcceptedShown ==
  pc = "answered" \/ outcome = "answered" => accepted \subseteq shown

\* A stored record is where the attempt stands, so that a retry finds it
\* there: it is the checkpoint itself while calls run and throughout a first
\* attempt; a resumed attempt's record has the rounds and lacks at most the
\* messages its replay put back without a write.  Only the last round of a
\* record has calls that have not settled, and the checkpoint has none once
\* run_calls has returned.
RecordIsCurrent ==
  /\ stored # NoRecord =>
       /\ pc \in {"calls", "batch"} => stored = ck
       /\ pc \in {"loop", "model", "answered"} /\ ck.rounds # <<>> =>
            stored.rounds = ck.rounds
       /\ pc # "idle" /\ attempts = 1 => stored = ck
       /\ \A k \in 1..(Len(stored.rounds) - 1) :
            \A i \in DOMAIN stored.rounds[k].calls : Settled(stored.rounds[k].calls[i])
  /\ pc \in {"replay", "loop", "model", "answered"} =>
       \A call \in CallsIn(ck.rounds) : Settled(call)

\* `items` is the parts one after the other: it has as many items as the parts
\* together, and item i of part k comes after all items of the parts before it.
Slots(parts, n) == UNION {{k} \X DOMAIN parts[k] : k \in 1..n}
Offset(parts, n) == Cardinality(Slots(parts, n))
Concatenates(items, parts) ==
  /\ Len(items) = Offset(parts, Len(parts))
  /\ \A k \in DOMAIN parts : \A i \in DOMAIN parts[k] :
       items[Offset(parts, k - 1) + i] = parts[k][i]

\* The messages and calls a checkpoint stands for, in the order the model read
\* them: round by round, and those read since the last round.
RoundItems(round) ==
  ReadItems(round.steered_before)
    \o [i \in DOMAIN round.calls |-> CallItem(round.calls[i])]
Conversation(checkpoint) ==
  Append([k \in DOMAIN checkpoint.rounds |-> RoundItems(checkpoint.rounds[k])],
         ReadItems(checkpoint.steered))

\* The prompt of every model call is the checkpoint's conversation: messages
\* and results in the order they were first read, in a resumed attempt as in
\* the first (resume_turn: "puts them back where they were read").
HistoryIsCheckpoint ==
  pc \in {"loop", "model", "answered"} => Concatenates(history, Conversation(ck))

\* What a record held is still in it between two attempts unless something
\* gave the record up: a message survives a crash (checkpoint.rs,
\* TurnCheckpoint.steered), and a retry replays a call that ran rather than
\* asking the model afresh (resume.rs, module comment).
RecordRemembers ==
  pc = "idle" =>
    /\ journaled \cap Messages \subseteq Recorded(stored)
    /\ stored # NoRecord =>
         journaled \cap Calls \subseteq {call.id : call \in CallsIn(stored.rounds)}

\* An attempt ends, whatever the model asks for and however often it is
\* steered: every loop iteration counts against the cap.
AttemptEnds == pc # "idle" ~> pc = "idle"
=============================================================================
