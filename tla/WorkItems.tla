----------------------------- MODULE WorkItems -----------------------------
(***************************************************************************)
(* Work items: work that outlives a turn                                   *)
(* (crates/domains/workitems/src: manager.rs, wake.rs, driver.rs, im.rs,   *)
(* tool.rs) over the rows of one tenant                                    *)
(* (crates/persistence/store/src/work_items.rs).                           *)
(*                                                                         *)
(* An item runs in rounds, each a chat turn.  Nothing drives all items:    *)
(* whoever woke an item runs its rounds until nothing is due.  The drivers *)
(* are the thread of an item's first round and the connector loop, which   *)
(* takes one message at a time and drives inline the item it wakes.  A     *)
(* step is what happens under one hold of the store's writer lock, or one  *)
(* read on a reader connection; between them anyone else may write.        *)
(*                                                                         *)
(* The loop is one connector's: only messages on the connector of an       *)
(* item's mandate wake it, so no other loop matters to it.  All rounds     *)
(* start within one rolling hour.                                          *)
(***************************************************************************)
EXTENDS Integers, Sequences, FiniteSets

CONSTANTS
  Items,             \* item ids
  Loop, Nobody,      \* the connector loop; no item, source or author
  Sources, Authors,  \* the loop's conversations and who writes in them
  Stops,             \* requests to POST /v1/work-items/{id}/stop
  Reports,           \* the statuses the model reports
  MaxOpenItems,      \* maxOpenItems; 0 is no cap
  MaxRoundsPerHour,  \* maxRoundsPerItemPerHour; 0 is no cap
  MaxMessages,       \* bound: messages the loop takes
  MaxOthers,         \* bound: inputs of an item that are not a person's
  MaxFaults          \* bound: crashes, failed writes and failed spawns

ASSUME WorkItemsAssumption ==
  /\ Loop \notin Items /\ Nobody \notin Items \cup Sources \cup Authors
  /\ Reports \subseteq {"progress", "waiting", "ready", "blocked", "failed", "dropped"}
  /\ "blocked" \in Reports  \* what an unreadable report is recorded as
  /\ {MaxOpenItems, MaxRoundsPerHour, MaxMessages, MaxOthers, MaxFaults} \subseteq Nat

Drivers == Items \cup {Loop}

VARIABLES
  state, end_reason,       \* of each item's row ("absent": not opened)
  sender,                  \* the author its mandate names
  last_report, attention,  \* its last report's status; it asks a question
  rounds,                  \* the states of its rounds, by seq
  inputs,                  \* its inputs, by seq
  sub,                     \* its owner subscription
  pc, at, seq,             \* of each driver: where, at which item and round
  turn, outcome,           \* the round's turn, and how it ended
  message,                 \* the source and author the loop is handling
  stop,                    \* each stop request
  asked,                   \* rounds whose turn was asked to cancel
  left,                    \* history: why a drive left the item's inputs
  taken, faults

rows == <<state, end_reason, sender, last_report, attention, rounds, inputs, sub>>
drives == <<pc, at, seq, turn, outcome, left>>
vars == <<rows, drives, message, stop, asked, taken, faults>>

NoSub == [source |-> Nobody, drop |-> "none"]
NoMessage == [source |-> Nobody, author |-> Nobody]
NoOutcome == [report |-> "none", asks |-> FALSE]

Init ==
  /\ state = [i \in Items |-> "absent"]
  /\ end_reason = [i \in Items |-> "none"]
  /\ sender = [i \in Items |-> Nobody]
  /\ last_report = [i \in Items |-> "none"]
  /\ attention = [i \in Items |-> FALSE]
  /\ rounds = [i \in Items |-> << >>]
  /\ inputs = [i \in Items |-> << >>]
  /\ sub = [i \in Items |-> NoSub]
  /\ pc = [d \in Drivers |-> "idle"]
  /\ at = [d \in Drivers |-> Nobody]
  /\ seq = [d \in Drivers |-> 0]
  /\ turn = [d \in Drivers |-> "none"]
  /\ outcome = [d \in Drivers |-> NoOutcome]
  /\ left = [i \in Items |-> "no"]
  /\ message = NoMessage
  /\ stop = [s \in Stops |-> [pc |-> "idle", item |-> Nobody, running |-> FALSE, seq |-> 0]]
  /\ asked = {}
  /\ taken = 0 /\ faults = 0

-----------------------------------------------------------------------------
(* What the rows say *)

\* activity.last_round_state
Running(i) == rounds[i] # << >> /\ rounds[i][Len(rounds[i])] = "running"
LastFailed(i) == rounds[i] # << >> /\ rounds[i][Len(rounds[i])] = "failed"
Pending(i) == {k \in DOMAIN inputs[i] : inputs[i][k].state = "pending"}
PersonPending(i) == \E k \in Pending(i) : inputs[i][k].person
OpenItems == {i \in Items : state[i] = "open"}
AtOpenCap == MaxOpenItems > 0 /\ Cardinality(OpenItems) >= MaxOpenItems
Live(s) == {i \in Items : sub[i] = [source |-> s, drop |-> "live"]}

Held_IgnoresReport(i) == LastFailed(i) \/ attention[i]
\* plan_round, short of the hourly cap.
Held(i) == LastFailed(i) \/ attention[i] \/ last_report[i] \in {"blocked", "failed"}
Wanted(i) ==
  /\ state[i] = "open" /\ ~Running(i)
  /\ Pending(i) # {}
  /\ Held(i) => PersonPending(i)

HourlyCap_OffByOne(i) == MaxRoundsPerHour > 0 /\ Len(rounds[i]) > MaxRoundsPerHour
HourlyCap(i) == MaxRoundsPerHour > 0 /\ Len(rounds[i]) >= MaxRoundsPerHour
Due(i) == Wanted(i) /\ ~HourlyCap(i)

\* The turn of round k of an item can still be reached by its request id.
Reachable(i, k) ==
  \E d \in Drivers : at[d] = i /\ seq[d] = k /\ turn[d] = "open"

-----------------------------------------------------------------------------
(* Opening an item *)

Rest(d) == IF d = Loop THEN "idle" ELSE "done"
Finish(d) ==
  /\ pc' = [pc EXCEPT ![d] = Rest(d)]
  /\ at' = [at EXCEPT ![d] = Nobody]
  /\ seq' = [seq EXCEPT ![d] = 0]

\* The driver d takes up round k of item i: its turn is about to start.
Begin(d, i, k) ==
  /\ pc' = [pc EXCEPT ![d] = "turn"]
  /\ at' = [at EXCEPT ![d] = i]
  /\ seq' = [seq EXCEPT ![d] = k]
  /\ turn' = [turn EXCEPT ![d] = "starting"]

Superseded(i, s) == Live(s) \ {i}

\* The rows of a new item and its first round, running from the start.
CreateItem(i, author, subscription) ==
  /\ state[i] = "absent" /\ ~AtOpenCap
  /\ state' = [state EXCEPT ![i] = "open"]
  /\ sender' = [sender EXCEPT ![i] = author]
  /\ rounds' = [rounds EXCEPT ![i] = <<"running">>]
  /\ sub' = [j \in Items |->
       CASE j = i -> subscription
         [] j \in Superseded(i, subscription.source) -> [sub[j] EXCEPT !.drop = "superseded"]
         [] OTHER -> sub[j]]
  /\ UNCHANGED <<end_reason, last_report, attention, inputs>>

\* POST /v1/work-items: admitted first; no conversation to own.
OpenApi(i) ==
  /\ CreateItem(i, Nobody, NoSub)
  /\ \/ /\ Begin(i, i, 1) /\ UNCHANGED faults
     \/ /\ faults < MaxFaults /\ faults' = faults + 1
        /\ UNCHANGED <<pc, at, seq, turn>>
  /\ UNCHANGED <<outcome, left, message, stop, asked, taken>>

OwnerOpen_Unchecked(s) == FALSE
OwnerOpen(s) == Live(s) \cap OpenItems # {}

\* The tool work_item.open in an ordinary turn of the loop.  An open owner
\* keeps its conversation; an ended one is superseded.
OpenTool(i, subscribe) ==
  /\ pc[Loop] = "ordinary"
  /\ ~(subscribe /\ OwnerOpen(message.source))
  /\ CreateItem(i, message.author,
       IF subscribe THEN [source |-> message.source, drop |-> "live"] ELSE NoSub)
  /\ \/ /\ pc' = [pc EXCEPT ![i] = "admit_first"]
        /\ at' = [at EXCEPT ![i] = i] /\ seq' = [seq EXCEPT ![i] = 1]
        /\ UNCHANGED faults
     \/ faults < MaxFaults /\ faults' = faults + 1 /\ UNCHANGED <<pc, at, seq>>
  /\ UNCHANGED <<turn, outcome, left, message, stop, asked, taken>>

\* spawn_first_round: the thread's admission, granted or refused.
FirstAdmitted(i) ==
  /\ pc[i] = "admit_first"
  /\ Begin(i, i, 1)
  /\ UNCHANGED <<rows, outcome, left, message, stop, asked, taken, faults>>

FirstRefused(i) ==
  /\ pc[i] = "admit_first"
  /\ pc' = [pc EXCEPT ![i] = "settle_refused"]
  /\ outcome' = [outcome EXCEPT ![i].report = "error"]
  /\ UNCHANGED <<rows, at, seq, turn, left, message, stop, asked, taken, faults>>

-----------------------------------------------------------------------------
(* The connector loop: route_im for one message after another *)

At(d, from, to) == pc[d] = from /\ pc' = [pc EXCEPT ![d] = to]

\* The common case is answered on a reader: nothing follows the source.
Receive(s, a) ==
  /\ taken < MaxMessages /\ taken' = taken + 1
  /\ At(Loop, "idle", IF Live(s) = {} THEN "ordinary" ELSE "lookup")
  /\ message' = [source |-> s, author |-> a]
  /\ UNCHANGED <<rows, at, seq, turn, outcome, left, stop, asked, faults>>

\* On the writer: a subscription that saw no event for long is dropped.
Lookup ==
  /\ \E idle \in SUBSET Live(message.source) :
       /\ sub' = [i \in Items |-> IF i \in idle THEN [sub[i] EXCEPT !.drop = "idle"] ELSE sub[i]]
       /\ \/ \E owner \in Live(message.source) \ idle :
               At(Loop, "lookup", "summary") /\ at' = [at EXCEPT ![Loop] = owner]
          \/ /\ Live(message.source) \subseteq idle
             /\ At(Loop, "lookup", "ordinary") /\ UNCHANGED at
  /\ UNCHANGED <<state, end_reason, sender, last_report, attention, rounds, inputs,
                 seq, turn, outcome, left, message, stop, asked, taken, faults>>

\* What the message may do, decided on the summary read here: the sender's
\* authority (im_authority, revalidate) holds or not.
Summary ==
  LET i == at[Loop]
      mine == message.author = sender[i]
      ownEnd == state[i] = "ended" /\ end_reason[i] \in {"completed", "dropped"}
  IN /\ pc[Loop] = "summary"
     /\ \/ mine /\ state[i] = "open" /\ At(Loop, "summary", "add") /\ UNCHANGED at
        \/ mine /\ ownEnd /\ At(Loop, "summary", "reopen") /\ UNCHANGED at
        \/ mine /\ ownEnd /\ At(Loop, "summary", "revoke") /\ UNCHANGED at
        \/ /\ ~(mine /\ ownEnd)
           /\ At(Loop, "summary", "ordinary") /\ at' = [at EXCEPT ![Loop] = Nobody]
     /\ UNCHANGED <<rows, seq, turn, outcome, left, message, stop, asked, taken, faults>>

FallThrough(from) == At(Loop, from, "ordinary") /\ at' = [at EXCEPT ![Loop] = Nobody]

Reopens_Uncapped(i) == state[i] = "ended" /\ end_reason[i] \in {"completed", "dropped"}
Reopens(i) ==
  /\ ~AtOpenCap
  /\ state[i] = "ended" /\ end_reason[i] \in {"completed", "dropped"}

Reopen ==
  /\ pc[Loop] = "reopen"
  /\ LET i == at[Loop] IN
       \/ /\ Reopens(i) /\ At(Loop, "reopen", "add") /\ UNCHANGED at
          /\ state' = [state EXCEPT ![i] = "open"]
          /\ end_reason' = [end_reason EXCEPT ![i] = "none"]
       \/ /\ ~Reopens(i) /\ FallThrough("reopen")
          /\ UNCHANGED <<state, end_reason>>
  /\ UNCHANGED <<sender, last_report, attention, rounds, inputs, sub,
                 seq, turn, outcome, left, message, stop, asked, taken, faults>>

\* end_work_item_finally: the item ends for good and owns nothing.
EndFinally(i, reason) ==
  /\ state' = [state EXCEPT ![i] = "ended"]
  /\ end_reason' = [end_reason EXCEPT ![i] = reason]
  /\ sub' = [sub EXCEPT ![i].drop = IF @ = "live" THEN reason ELSE @]
  /\ UNCHANGED <<sender, last_report, attention, rounds, inputs>>

Revoke ==
  /\ FallThrough("revoke")
  /\ LET i == at[Loop] IN
       IF state[i] = "ended" /\ end_reason[i] \in {"completed", "dropped"}
         THEN EndFinally(i, "revoked")
         ELSE UNCHANGED rows
  /\ UNCHANGED <<seq, turn, outcome, left, message, stop, asked, taken, faults>>

\* add_input's row: steered into the running round's turn, or pending.
Recorded(i, person) ==
  LET k == Len(rounds[i]) IN
  IF Running(i) /\ Reachable(i, k)
    THEN [person |-> person, state |-> "steered", round |-> k]
    ELSE [person |-> person, state |-> "pending", round |-> 0]

\* A steered message is claimed at once; a queued one has the loop drive.
AddInput ==
  LET i == at[Loop]
      row == Recorded(i, TRUE)
  IN /\ pc[Loop] = "add"
     /\ \/ /\ state[i] = "open"
           /\ inputs' = [inputs EXCEPT ![i] = Append(@, row)]
           /\ IF row.state = "steered" THEN Finish(Loop)
                ELSE pc' = [pc EXCEPT ![Loop] = "due"] /\ UNCHANGED <<at, seq>>
           /\ left' = [left EXCEPT ![i] = "no"]
           /\ message' = NoMessage
        \/ state[i] # "open" /\ FallThrough("add") /\ UNCHANGED <<inputs, seq, left, message>>
     /\ UNCHANGED <<state, end_reason, sender, last_report, attention, rounds, sub,
                    turn, outcome, stop, asked, taken, faults>>

\* An input that is not a person's: add_input alone, as its tests call it.
AddOther(i) ==
  /\ state[i] = "open"
  /\ Cardinality({k \in DOMAIN inputs[i] : ~inputs[i][k].person}) < MaxOthers
  /\ inputs' = [inputs EXCEPT ![i] = Append(@, Recorded(i, FALSE))]
  /\ UNCHANGED <<state, end_reason, sender, last_report, attention, rounds, sub,
                 drives, message, stop, asked, taken, faults>>

\* The ordinary turn of a message no item took is over.
OrdinaryEnds ==
  /\ At(Loop, "ordinary", "idle")
  /\ message' = NoMessage
  /\ UNCHANGED <<rows, at, seq, turn, outcome, left, stop, asked, taken, faults>>

-----------------------------------------------------------------------------
(* Driving an item: one round after another while one is due *)

\* round_due, on a reader, before a turn slot is spent.
LookAgain(d) ==
  LET i == at[d] IN
  /\ pc[d] = "due"
  /\ IF Due(i) THEN pc' = [pc EXCEPT ![d] = "admit"] /\ UNCHANGED <<at, seq>>
               ELSE Finish(d)
  /\ left' = IF Wanted(i) /\ HourlyCap(i) THEN [left EXCEPT ![i] = "held_back"] ELSE left
  /\ UNCHANGED <<rows, turn, outcome, message, stop, asked, taken, faults>>

\* Turn admission; a refusal records nothing and the inputs stay pending.
Admit(d) ==
  /\ pc[d] = "admit"
  /\ \/ pc' = [pc EXCEPT ![d] = "start"] /\ UNCHANGED <<at, seq, left>>
     \/ Finish(d) /\ left' = [left EXCEPT ![at[d]] = "held_back"]
  /\ UNCHANGED <<rows, turn, outcome, message, stop, asked, taken, faults>>

\* start_work_item_round's own condition on the rows.
Startable(i) ==
  state[i] = "open" /\ \A k \in DOMAIN rounds[i] : rounds[i][k] # "running"

\* The rows of the next round, which reads every pending input.
NextRound(i) ==
  LET k == Len(rounds[i]) + 1 IN
  /\ rounds' = [rounds EXCEPT ![i] = Append(@, "running")]
  /\ inputs' = [inputs EXCEPT ![i] = [n \in DOMAIN @ |->
       IF n \in Pending(i) THEN [@[n] EXCEPT !.state = "consumed", !.round = k] ELSE @[n]]]
  /\ attention' = [attention EXCEPT ![i] = @ /\ ~PersonPending(i)]
  /\ UNCHANGED <<state, end_reason, sender, last_report, sub>>

StartRound_TrustsLook(d) ==
  LET i == at[d] IN
  /\ pc[d] = "start"
  /\ NextRound(i) /\ Begin(d, i, Len(rounds[i]) + 1)
  /\ left' = [left EXCEPT ![i] = "no"]
  /\ UNCHANGED <<outcome, message, stop, asked, taken, faults>>

\* start_round: planned again under the writer lock that starts it.
StartRound(d) ==
  LET i == at[d] IN
  /\ pc[d] = "start"
  /\ IF Due(i) /\ Startable(i)
       THEN NextRound(i) /\ Begin(d, i, Len(rounds[i]) + 1)
            /\ left' = [left EXCEPT ![i] = "no"]
       ELSE /\ Finish(d) /\ UNCHANGED <<rows, turn>>
            /\ left' = IF Wanted(i) THEN [left EXCEPT ![i] = "held_back"] ELSE left
  /\ UNCHANGED <<outcome, message, stop, asked, taken, faults>>

\* The round's turn: registered under its request id, then its inbox closed.
TurnRegisters(d) ==
  /\ turn[d] = "starting" /\ turn' = [turn EXCEPT ![d] = "open"]
  /\ UNCHANGED <<rows, pc, at, seq, outcome, left, message, stop, asked, taken, faults>>

TurnCloses(d) ==
  /\ turn[d] = "open" /\ turn' = [turn EXCEPT ![d] = "closed"]
  /\ UNCHANGED <<rows, pc, at, seq, outcome, left, message, stop, asked, taken, faults>>

\* run_turn returns: a report once the model answered, else an error.
TurnEnds(d) ==
  /\ turn[d] # "none" /\ turn' = [turn EXCEPT ![d] = "none"]
  /\ pc' = [pc EXCEPT ![d] = "settle"]
  /\ \/ \E report \in Reports, asks \in BOOLEAN :
          /\ turn[d] = "closed"
          /\ outcome' = [outcome EXCEPT ![d] = [report |-> report, asks |-> asks]]
     \/ outcome' = [outcome EXCEPT ![d].report = "error"]
  /\ UNCHANGED <<rows, at, seq, left, message, stop, asked, taken, faults>>

EndedBy(report) ==
  CASE report = "ready" -> "completed"
    [] report = "dropped" -> "dropped"
    [] OTHER -> "none"

Settled_AlwaysApplies(i, o) ==
  /\ state' = [state EXCEPT ![i] = IF EndedBy(o.report) = "none" THEN "open" ELSE "ended"]
  /\ end_reason' = [end_reason EXCEPT ![i] = EndedBy(o.report)]

\* What a settlement makes of the item: a stop or a revocation stays.
Settled(i, o) ==
  IF end_reason[i] \in {"stopped", "revoked"}
    THEN UNCHANGED <<state, end_reason>>
    ELSE /\ state' = [state EXCEPT ![i] = IF EndedBy(o.report) = "none" THEN "open" ELSE "ended"]
         /\ end_reason' = [end_reason EXCEPT ![i] = EndedBy(o.report)]

\* settle_work_item_round.
SettleRows(i, k, o) ==
  IF rounds[i][k] # "running" THEN UNCHANGED rows
  ELSE /\ rounds' = [rounds EXCEPT ![i][k] = IF o.report = "error" THEN "failed" ELSE "settled"]
       /\ Settled(i, o)
       /\ last_report' = IF o.report = "error" THEN last_report
                         ELSE [last_report EXCEPT ![i] = o.report]
       /\ attention' = [attention EXCEPT ![i] = @ \/ o.asks]
       /\ UNCHANGED <<sender, inputs, sub>>

AfterRound_Done(d) == Finish(d)
\* The drive goes on to look for the next round.
AfterRound(d) == pc' = [pc EXCEPT ![d] = "due"] /\ UNCHANGED <<at, seq>>

\* settle_round, and where its caller goes on; the store may fail the write.
Settle(d) ==
  LET i == at[d] IN
  /\ pc[d] \in {"settle", "settle_refused"}
  /\ \/ pc[d] = "settle" /\ AfterRound(d) /\ UNCHANGED left
     \/ pc[d] = "settle_refused" /\ Finish(d) /\ left' = [left EXCEPT ![i] = "refused"]
  /\ \/ SettleRows(i, seq[d], outcome[d]) /\ UNCHANGED faults
     \/ faults < MaxFaults /\ faults' = faults + 1 /\ UNCHANGED rows
  /\ outcome' = [outcome EXCEPT ![d] = NoOutcome]
  /\ UNCHANGED <<turn, message, stop, asked, taken>>

-----------------------------------------------------------------------------
(* Stopping an item, and what goes wrong *)

\* stop reads the item on a reader, ends it on the writer, and cancels the
\* round it read.
StopRead(s, i) ==
  /\ stop[s].pc = "idle" /\ state[i] # "absent"
  /\ stop' = [stop EXCEPT ![s] =
       [pc |-> IF end_reason[i] = "stopped" THEN "done" ELSE "end",
        item |-> i, running |-> Running(i), seq |-> Len(rounds[i])]]
  /\ UNCHANGED <<rows, drives, message, asked, taken, faults>>

StopEnd(s) ==
  LET i == stop[s].item IN
  /\ stop[s].pc = "end"
  /\ IF end_reason[i] = "stopped"
       THEN stop' = [stop EXCEPT ![s].pc = "done"] /\ UNCHANGED rows
       ELSE EndFinally(i, "stopped") /\ stop' = [stop EXCEPT ![s].pc = "cancel"]
  /\ UNCHANGED <<drives, message, asked, taken, faults>>

StopCancel(s) ==
  LET i == stop[s].item
      k == stop[s].seq
  IN /\ stop[s].pc = "cancel" /\ stop' = [stop EXCEPT ![s].pc = "done"]
     /\ asked' = asked \cup (IF stop[s].running /\ Reachable(i, k) THEN {<<i, k>>} ELSE {})
     /\ UNCHANGED <<rows, drives, message, taken, faults>>

\* The daemon restarts: the rows stay, every thread is gone.  Nothing
\* recovers a round that was running.
Crash ==
  /\ faults < MaxFaults /\ faults' = faults + 1
  /\ pc' = [d \in Drivers |-> IF pc[d] = "idle" THEN "idle" ELSE Rest(d)]
  /\ at' = [d \in Drivers |-> Nobody]
  /\ seq' = [d \in Drivers |-> 0]
  /\ turn' = [d \in Drivers |-> "none"]
  /\ outcome' = [d \in Drivers |-> NoOutcome]
  /\ message' = NoMessage
  /\ stop' = [s \in Stops |-> IF stop[s].pc = "idle" THEN stop[s] ELSE [stop[s] EXCEPT !.pc = "done"]]
  /\ UNCHANGED <<rows, left, asked, taken>>

\* The steps of a thread that drives an item.
Drive(d) ==
  \/ LookAgain(d) \/ Admit(d) \/ StartRound(d)
  \/ TurnRegisters(d) \/ TurnCloses(d) \/ TurnEnds(d) \/ Settle(d)

FirstRound(i) == FirstAdmitted(i) \/ FirstRefused(i)
Route == Lookup \/ Summary \/ Reopen \/ Revoke \/ AddInput \/ OrdinaryEnds

Next ==
  \/ \E i \in Items : OpenApi(i) \/ FirstRound(i) \/ AddOther(i)
  \/ \E i \in Items, subscribe \in BOOLEAN : OpenTool(i, subscribe)
  \/ \E s \in Sources, a \in Authors : Receive(s, a)
  \/ Route
  \/ \E d \in Drivers : Drive(d)
  \/ \E s \in Stops : (\E i \in Items : StopRead(s, i)) \/ StopEnd(s) \/ StopCancel(s)
  \/ Crash

Spec == Init /\ [][Next]_vars

\* Threads run on, admission answers, and a turn ends: its dispatch has a
\* deadline.
FairSpec ==
  Spec /\ WF_vars(Route) /\ (\A d \in Drivers : WF_vars(Drive(d)))
       /\ (\A i \in Items : WF_vars(FirstRound(i)))

-----------------------------------------------------------------------------
(* Properties *)

\* The rows, threads and requests keep their types.
TypeOK ==
  /\ state \in [Items -> {"absent", "open", "ended"}]
  /\ end_reason \in [Items -> {"none", "completed", "dropped", "stopped", "revoked"}]
  /\ sender \in [Items -> Authors \cup {Nobody}]
  /\ last_report \in [Items -> Reports \cup {"none"}]
  /\ attention \in [Items -> BOOLEAN]
  /\ rounds \in [Items -> Seq({"running", "settled", "failed"})]
  /\ MaxRoundsPerHour > 0 => \A i \in Items : Len(rounds[i]) <= MaxRoundsPerHour
  /\ inputs \in [Items -> Seq([person : BOOLEAN, state : {"pending", "steered", "consumed"},
                               round : Nat])]
  /\ sub \in [Items -> [source : Sources \cup {Nobody},
                        drop : {"none", "live", "idle", "superseded", "stopped", "revoked"}]]
  /\ pc \in [Drivers -> {"idle", "lookup", "summary", "reopen", "revoke", "add", "ordinary",
                         "admit_first", "settle_refused",
                         "due", "admit", "start", "turn", "settle", "done"}]
  /\ at \in [Drivers -> Items \cup {Nobody}]
  /\ seq \in [Drivers -> Nat]
  /\ turn \in [Drivers -> {"none", "starting", "open", "closed"}]
  /\ outcome \in [Drivers -> [report : Reports \cup {"none", "error"}, asks : BOOLEAN]]
  /\ left \in [Items -> {"no", "held_back", "refused"}]
  /\ message \in [source : Sources \cup {Nobody}, author : Authors \cup {Nobody}]
  /\ stop \in [Stops -> [pc : {"idle", "end", "cancel", "done"}, item : Items \cup {Nobody},
                         running : BOOLEAN, seq : Nat]]
  /\ asked \subseteq Items \X Nat
  /\ taken \in 0..MaxMessages /\ faults \in 0..MaxFaults

\* One round of an item at a time, and none for nothing: only its last round
\* can be running, the thread running it is the only one, an item that ended
\* on a round's own report has none, and two wakes never spend a round on the
\* same inputs: every round after the first was started for an input of its
\* own (start_work_item_round, settle_work_item_round; start_round plans again
\* under the lock that starts the round).
OneRoundAtATime ==
  \A i \in Items :
    /\ \A k \in DOMAIN rounds[i] : rounds[i][k] = "running" => k = Len(rounds[i])
    /\ end_reason[i] \in {"completed", "dropped", "revoked"} => ~Running(i)
    /\ Cardinality({d \in Drivers : at[d] = i /\ turn[d] # "none"}) <= 1
    /\ \A k \in 2..Len(rounds[i]) :
         \E n \in DOMAIN inputs[i] : inputs[i][n].state = "consumed" /\ inputs[i][n].round = k

\* A running round means a person spoke since the report that held the item:
\* no question is left standing and, past a blocked or failed report, the
\* round reads a person's input (to_view derives the stage from this).
HoldsReleased ==
  \A i \in Items : Running(i) =>
    /\ ~attention[i]
    /\ last_report[i] \in {"blocked", "failed"} =>
         \E n \in DOMAIN inputs[i] :
           inputs[i][n].person /\ inputs[i][n].state = "consumed"
             /\ inputs[i][n].round = Len(rounds[i])

\* No wake is lost: while a person's input waits at an open item that could
\* run a round, some thread is about to look, unless the last drive was held
\* back by the hourly cap or by admission (drive, add_input).
Unseen(i) ==
  /\ Wanted(i) /\ PersonPending(i) /\ faults = 0
  /\ \A d \in Drivers : at[d] = i => pc[d] \notin {"add", "due", "admit", "start"}
WakeNotLost == \A i \in Items : Unseen(i) => left[i] # "no"

\* A conversation has one live owner (the partial unique index), and an item
\* open in it keeps it: its subscription is live or has expired, never taken by
\* another item, although ended items lose theirs to a new one and reopen
\* later (create_work_item_with_owner, reopen).
OneOwner ==
  /\ \A s \in Sources : Cardinality(Live(s)) <= 1
  /\ \A i \in Items : state[i] = "open" => sub[i].drop \in {"none", "live", "idle"}

\* Opening and reopening keep to the cap, whatever rounds settle meanwhile.
CapRespected == MaxOpenItems > 0 => Cardinality(OpenItems) <= MaxOpenItems

\* A stop is final and a revocation can only become a stop, whatever the
\* round still running reports; neither is followed by another round.
FinalEnds ==
  [][\A i \in Items : end_reason[i] \in {"stopped", "revoked"} =>
       /\ state'[i] = "ended"
       /\ end_reason'[i] \in {end_reason[i], "stopped"}
       /\ Len(rounds'[i]) = Len(rounds[i])
       /\ Len(inputs'[i]) = Len(inputs[i])]_vars

\* A person's input is read in the end: a pending one becomes some round's,
\* unless its item ends or its drive is held back.
InputRead ==
  \A i \in Items :
    (state[i] = "open" /\ PersonPending(i)) ~>
      (~PersonPending(i) \/ state[i] = "ended" \/ left[i] # "no")

=============================================================================
