# Kura in TLA+

Kura is a personal agent daemon: people talk to an agent over HTTP and chat
connectors, every message becomes a *turn* (a loop of model calls and tool
calls), and around turns there are schedules, reminders, deliveries, work items
and devices. This directory specifies the parts whose correctness depends on
the order of events: who may run, what a crash leaves behind, who can reach a
running turn, work that outlives a turn, how a result reaches its user, and how
the agent is let near the user's own computer.

The modules are translated from the Rust source under `src/crates`. `PROJECT.json`
has the line-by-line correspondence (`map`), the runs of the model checker, a
mutation for every property, the disagreements found between code and
documentation (`findings`), what is hard to test in this code (`hazards`), and
every part of the system including those that are not modelled (`components`).

To check a run: `tlc -config <cfg> <module>`. To check proofs: `tlapm <module>.tla`
for `AdmissionProofs`, `ActiveTurnsProofs`, `TurnLoopProofs`, `WorkItemsProofs`,
`DevicesProofs`, `DevicesTruth`, `DeliveryInvariant` and `DeliveryProofs`, a few
minutes each and some ten for `WorkItemsProofs`.

## The system

| part | state | operations | interacts with |
|---|---|---|---|
| admission gate, `domains/chat/src/admission.rs` | running counts, per-tenant queues, rotation, two buckets per tenant, all under one mutex | admit, schedule, withdraw at the deadline, release, charge, sweep | every chat turn and every work item round |
| agent turn loop, `engine/core/src/session.rs` | history, checkpoint, round counter, batches of running calls | model round, tool batch, interim answer, repair, finish, replay | journal, steer inbox, tools, model |
| turn records, `domains/chat/src/resume.rs` | one stored checkpoint per turn, the set of turns running in this process | claim, journal, expire, delete, drop | turn loop, store |
| active turns, `domains/chat/src/{steer,cancel}.rs` | map from request to turn, inbox of each turn, tree of cancellation tokens | register, send, cancel, take or close, drop | HTTP handlers, work items, turn loop |
| work items, `domains/workitems` and `persistence/store/src/work_items.rs` | items, rounds, inputs, subscriptions | open, route a message, add an input, drive, start, settle, reopen, revoke, stop | connector loop, admission, active turns |
| scheduler, `domains/scheduler` | schedules, attempts, retries as documents | tick, dispatch, retry, catch up, pause, resume, cancel | runs, store |
| delivery, `domains/delivery` | outcomes, attempts, retry map, summary windows | dispatch, retry, collect, emit | channels, store |
| reminders, `domains/reminders` | reminders and occurrences | tick, snooze, complete, cancel | delivery |
| device hub, `domains/devices` | the current connection, its session, one open question, one pending action | connect, replace, disconnect, ask, act, time out, end, revoke | tool calls, device agent |
| device agent, `surface/device` | the session in force, the kill switch's block, a task per request and action | dial, ask the person, act, kill, end | device hub, the person |
| billing, `domains/billing` | counters and reservations | reserve, commit, refund, release | every metered operation |
| run ledger, `engine/runtime`, and orchestration | runs, steps, tool calls, checkpoints | update, cancel, resume, restore | scheduler, swarm |
| supervisors, event bus, model dispatcher, webhooks, message loop, swarm | see `components` | | |

What makes these hard:

* **Interleavings at small locks.** Registry, inbox, tokens and gate have locks
  of their own; a caller finds a turn under one and acts on it under another.
* **Crashes.** The daemon may die between running a tool and recording it, and
  the client's retry resumes from whatever the store holds.
* **Failing writes.** Journal writes fail and the turn goes on.
* **One writer, many readers.** Work items are read on reader connections and
  written later; what was read may be stale.
* **No supervisor.** Nothing polls work items: whoever wakes an item must leave
  no input behind. Nothing polls deliveries: who ends a retry must arm the next.
* **Answers that outlive their question.** A caller waits without the hub's lock;
  when the answer or the timeout comes, the connection may be another one, and a
  task on the device may still run for a link that is gone.
* **Limits.** Caps, queue depths, budgets, round caps and inbox sizes are all
  tested at one moment and used up at another.

## Modules

| module | what it is |
|---|---|
| `Admission` | the admission gate |
| `AdmissionProofs` | theorems about the gate for all tenants, turns and limits |
| `TurnLoop` | one turn over all its attempts: loop, checkpoint, stored record, inbox |
| `TurnLoopProofs` | theorems about it for any calls, messages, limits, crashes and attempts |
| `ActiveTurns` | several attempts at once: claims, registry, senders, cancellation |
| `ActiveTurnsProofs` | theorems about claims, registry, messages and kills for any number of each, and that `Turn` is implemented |
| `Turn` | what is promised of a turn to those outside it: the abstract specification `ActiveTurns` implements |
| `WorkItems` | items, rounds, inputs, the connector loop and the other drivers |
| `WorkItemsProofs` | theorems about them for any items, conversations, messages, stops, caps and faults |
| `DeviceWire` | frames and connections between a cell and a computer |
| `DeviceHub`, `DeviceAgent` | the two ends |
| `Devices` | the ends composed over the wire, and the properties of the whole |
| `DevicesProofs`, `DevicesTruth` | theorems about it for any number of connections, sessions, actions and callers |
| `Delivery` | outcomes, attempts, retries, summary windows, restart |
| `DeliveryInvariant`, `DeliveryProofs` | theorems about it for any number of results, callers, attempts, windows and faults |
| `MCAdmission`, `MCTurnLoop`, `MCActiveTurns`, `MCWorkItems`, `MCDevices`, `MCDelivery` | instances for TLC |

`TurnLoop` and `ActiveTurns` divide a turn between them. `ActiveTurns` shows that
at most one attempt at a turn holds its claim (`ClaimsExclusive`); `TurnLoop` uses
this, so that its attempts follow each other. `TurnLoop` has the checkpoint and
the order of calls; `ActiveTurns` reduces the loop to rounds that read the inbox,
because what it asks is who reaches which turn. `Turn` states what a caller may
rely on and `ActiveTurns` is shown to implement it (see Refinement). `WorkItems`
reduces a turn to "starting", "open" (reachable, takes messages) and "closed": in
`ActiveTurns`, before its registration, from there until its inbox is closed, and
after. An input that `WorkItems` hands to an open turn is read by that turn: this
is the promise of `Turn`, used there and not checked again.

### Admission

Variables are the fields of `State` and `Tenant` under their own names. The
critical sections of `admit` and `release` contain the loop of `schedule`; it is
modelled one iteration per step while `holder` has the mutex, so that the loop
needs no recursion and others see the section as atomic. Time is `Elapse`, which
refills every bucket by one tick. A deadline may pass at any moment a waiter
sleeps; the thread then queues for the mutex and may be granted a slot meanwhile.
A spurious wake-up changes nothing (the waiter looks and sleeps again) and is left
out. Tokens are charged while a turn runs (`ChargeTurn`) or outside any turn
(`ChargeOutside`). The sweep of idle tenants is left to chance, as it depends on
how many tenants the daemon has seen. `bypass` is a history variable: how many
grants went to one tenant while another waited below its cap.

### TurnLoop

One step is what happens between two points at which another party can
interfere: the start of a batch (journaled before anything runs), the first poll
of a call, the settling of a call (journaled again), a look into the inbox, a
model call, an answer. A batch is a run of parallel-safe calls or a single call
with side effects, as `run_calls` builds it. Faults are a crash at any point, a
journal write that fails (then the record is deleted and journaling stops), a
record that cannot be read, an expired record. A retry replays the record round
by round through the same code and rewrites it while doing so, as the code does.

Whether a tool is parallel-safe (`Safe`) does not change between attempts.
Texts that are not journaled (interim answers, repair requests) are not in the
history. `DeleteMayFail` is the choice between two readings of the store: with
`FALSE` the delete that follows a failed write succeeds; with `TRUE` it may fail
as well, its result is ignored (`resume.rs:166`), and `RecordIsCurrent` and
`UnsafeAtMostOnce` no longer hold (TLC refutes both). The runs use `FALSE`: the
double failure is a known limit of every property below.

### ActiveTurns

Each attempt, sender and canceller is a thread. `phase` follows an attempt from
its claim to the drops at its end, in the order `Service::turn_traced` declares
its guards and Rust drops them. Sending and cancelling are two steps each, with
the registry's lock released between them. A kill is as many steps as
`CancellationToken::kill` takes locks: mark the token, read its children, mark
the child, run its watchers. `heard` is a history variable: the turns whose kill
began with the link to the dispatcher in place.

### WorkItems

A step is one hold of the store's writer lock or one read on a reader. The
drivers of an item are the thread of its first round and the connector loop.
Each connector handles its messages one at a time, and only the connector of an
item's mandate wakes it, so there is one loop. All rounds of a behaviour start
within one rolling hour, which makes the hourly cap a bound on the number of
rounds. Inputs that are not a person's come in through the public `add_input`
(`AddOther`), as the tests of `wake.rs` call it: no other producer exists yet.
A full inbox refuses a message on the same path as a closed one. After a crash
rounds that were running stay `running`: their recovery is documented as not
built yet (`docs/harness/work-items.md`). `left` is a history variable that says
why a drive left inputs behind.

### Devices

`DeviceWire` has what the ends share: a connection carries frames in order both
ways, and an end may give it up at any time; what was not read is lost. One
device of one tenant, as the hub keeps devices apart.

`DeviceHub` has the fields of the hub's entry (`live`, `session`, `asking`,
`pending`), the task that serves each connection, and the callers. A caller takes
the hub's lock to ask or act, waits without it on a channel of its own
(`answer`), and takes it again; a timeout is two steps, the channel given up and
then the lock taken. What is free: when a peer leaves, when time passes, what
order frames of different connections are read in. `Revoke` marks the row and
drops the connection in one step, as only `Dial` reads the row. Reusing a session
that is there, and an action by a caller whose session is another, change nothing
and are left out, as are pings, screens and hellos repeated on a connection. A
caller that is itself dropped while it waits is not modelled.

`DeviceAgent` has the session in force, the kill switch and a task per request
and per action, all of which run in parallel with the link's loop. When the link
ends its tasks are aborted where they await: a task past its last await, and work
on a blocking thread, go on as `"orphan"`. "Trust for a while" is the person's yes
given at once. The `Outbox` of the code is a channel of 16 in front of the socket;
here it bounds all frames on their way. The history variables are `performed`
(how often an action touched the machine), `allowed` (what the person said yes to)
and `outcome` (what the caller of an action was told).

### Delivery

A thread is a caller of `emit_outcome`, the sleeper of a retry or the sleeper of
a window; `thread` has where it is and the copies it works on. A step is one read
or write of the store, one hold of the schedules' lock, or a send. Preferences,
targets, connectors and adapters may change at any time and are a free choice
where they are read. `attempts` has each outcome's rows in the order they were made;
a row has a number and a status, and a thread has the number `n` of its attempt and
its id `a`. A store error gives the operation up where it is, without the writes that
would have followed, with one exception: attempts that `next_attempt_number` cannot
read are taken for none, and the dispatch goes on with number 1 (`NextAttempt`), so
that numbers repeat. `WakeEarly` is a clock set back while an emitter slept. `Restart`
drops every thread and both schedules; `Restore` re-arms what the store says is
unfinished, while no thread is under way. `sends` and `faults` are history variables;
a failing write or read, a clock set back and a restart are each a fault. Left out: the
cancelling of a window that counts no results, since every window is made with a
count of 1 and no count is lowered; and the setting of preferences and targets.

## Runs

| run | instance | distinct states | shows |
|---|---|---|---|
| `admission_fair` | two capped tenants and an exempt one, two turns each, two slots, queue depths 1 and 3 | 111,108 | slot accounting, caps, rotation, no idle slot, no lost wake-up |
| `admission_budget` | a limited tenant with two turns and an exempt one with a third, one slot, rate 2, budget 1, up to 2 tokens a turn and 1 outside | 12,108 | the rate is never overdrawn, the debt is bounded, every waiter is served |
| `turn_resume` | two side-effecting calls, two reads, two messages, three rounds, three attempts, two faults | 2,209,708 | calls with side effects run at most once; record, history and what ran agree |
| `turn_live` | serial calls, two messages, two attempts, one fault | 57,393 | every attempt ends |
| `turn_forgets` | two calls, a message, three attempts | violation | finding 1 |
| `reach` | two attempts at one turn, a message, a cancel | 246,052 | claims, registry, accepted messages, kills, the end of a killed turn, and that the abstract `Turn` is implemented |
| `reach_early_cancel` | one attempt, one cancel | violation | finding 2 |
| `items_wake` | one item, two drivers, three messages, another party's input, one stop, two rounds an hour | 510,064 | rounds do not overlap, holds, wake-ups, the hourly cap, finality, inputs are read |
| `items_own` | three items, one conversation, two authors, two places, one fault | 3,148,599 | one owner of a conversation, kept while open; the cap |
| `devices_control` | two connections, two sessions, one action, two callers, an outbox of two | 3,927,034 | what callers are told is true, control needs a yes, nobody waits on a connection that is gone, the kill switch holds |
| `delivery_digest` | one result reported by two callers, three outcomes, two windows, two attempts, one fault | 1,035,247 | a final status is what happened; an outcome is sent again only with a fault to blame |
| `delivery_retry` | one result, three attempts, no fault | violation | finding 3 |

Bounds on counters (rounds, inbox, hourly rounds) that the code tests in one place
and uses up in another are part of the type invariants.

Why the bounds are enough. The gate needs a tenant with more work than its cap,
one that is passed over and one that is exempt, and a queue that fills: three
tenants with two turns do all of it. A turn needs a round that mixes calls with
and without side effects, a round after it, a replay that is itself interrupted,
and a fault in each of the first two attempts: hence four calls, two per round,
three rounds, three attempts and two faults. Two attempts at a turn are enough to
compete for its claim and for its registration; the run has one message and one
cancel because its temporal properties make larger instances too slow, so a full
inbox is met only in `turn_resume` and two cancels at once in no run; the theorems
of `ActiveTurnsProofs` cover both. One item needs a message before, during and
after a round, and a cap that bites in the second round; three items let one be
reopened while two others hold both places. A device needs a connection that
replaces another while a caller waits on the first, a second question while the
first one's answer is late, and an action that is under way meanwhile; an outbox
of two fills up. The theorems have any number of each. A delivery needs two
callers that race for one result and for a window, a digest of what they queued, a
retry, a second window after the first is over, and a fault at any step: two
results, one digest, two attempts. One fault is enough for a number to be used
twice (a retry that cannot read the attempts); several faults in one behaviour are
left to the theorems. Turns of one tenant, calls of one kind,
messages, items, stops and callers are interchangeable and are declared symmetric
in the runs without temporal properties.

Deadlock is checked for the gate, which never stops. The other models have
bounded inputs (attempts, messages, stops, connections, outcomes) and stop when
these are used up.

### Fairness

* `Admission`: weak fairness for the thread inside a critical section. Strong
  fairness for picking up a granted slot, for the end of a deadline and for
  releasing a slot: each needs the mutex, which others take and release in
  between, and a mutex that is released again and again is obtained in the end.
  A turn ends because each of its dispatches and tools has a timeout. No deadline
  is obliged to pass, so `WaiterServed` does not rest on refusals.
* `TurnLoop`: weak fairness of the attempt's own steps. The runtime polls a
  running turn, tools report back or time out, a dispatch answers or fails.
* `ActiveTurns`: weak fairness of setting up, tearing down and killing, and of
  the failure of a cancelled dispatch. The model is not obliged to answer.
* `WorkItems`: weak fairness of the drivers, of the loop once it has a message
  and of the first-round threads. Nobody is obliged to send or to stop.
* `Delivery`: weak fairness of callers, of dispatches, of retries and emitters that
  sleep, and of time. A send goes one way or the other. Restore is never obliged to
  happen: nothing in the daemon calls it.

Arrivals, crashes, failures, store errors and cancels are never fair. `Devices` has
no temporal property: the person, the peer and the network owe nothing, and that
nobody waits in vain is the invariant `WaitersReachable`.

## Refinement

`Turn` has five variables and no thread: who holds which turn, and of each message
whether it is undecided, refused, or waiting at a turn, and whether that turn has
read it or answered. Its steps say what is promised: one attempt at a time holds a
turn; a message is decided once; an accepted one is read before the model answers.
`ActiveTurns` implements it under the mapping `Promise`: `holders` are the attempts that
hold a claim, a message's `fate` is what its sender was told,
`waiting` is the inbox and `seen` what the turn has read. The registry, the gap
between finding a turn and pushing to its inbox, the closing of an inbox and the
whole of cancellation are invisible there, so that most steps map to no step. `KeepsPromise`
is checked by the run `reach` and proved by `ActiveTurnsProofs`.

## Findings

1. `turn_forgets`, code. A resumed attempt journals the record anew while it
   replays it, from an empty one, and puts back the messages read last without a
   write. Interrupted again, it leaves a shorter record: a message that was read,
   or a call that ran, is forgotten.
2. `reach_early_cancel`, code. A turn can be cancelled from the moment it is
   registered, but its token has no child and no watcher until later, and neither
   looks back: a cancel accepted in between is lost.
3. `delivery_retry`, code. A retry that fails arms the next one while its own
   entry is still in the schedule, so nothing is armed, and then removes the entry.
   The outcome stays `queued` and its remaining attempts are never made.

### Met without a run

Where the model has these, the properties except them by name or say less.

* The round cap is tested before the inbox is read, so a message accepted in the
  last round is shown to no model call (`session.rs:235`); `core/src/steer.rs:11` has
  it "Never accepted and then dropped". `AcceptedShown` is about turns whose model
  answers.
* A message queued after the running turn closed its inbox stays unread when that
  round reports the item ready or dropped (store `work_items.rs:345`); `wake.rs:72`
  has "it waits for the next round. Nothing is dropped." `InputRead` excepts an item
  that ends.
* A stop that meets a round before its turn is registered, or a round started just
  after it looked, cancels no turn (`wake.rs:314`); `wake.rs:287` has "a running
  round's turn is asked to cancel". `FinalEnds` shows that the report of such a
  round changes nothing.
* A first round refused by admission is settled without a further look at the
  inputs, unlike `driver.rs:14` says; `WakeNotLost` and `InputRead` except that path.
* The token budget is tested when a turn arrives, so its debt is bounded by the
  usage of all turns in flight (`BudgetsBounded`) and not by one turn's, as
  `docs/harness/turn-admission.md:61` has it.
* The kill switch tells the cell which session ended. Read before the asking
  task has set that session on the hub, the news is dropped and the hub keeps a
  session the device no longer has (`hub.rs:272`, `hub.rs:330`) until it is ended or
  its time is over; its actions are refused. `agent.rs:231` has "Returns the frame that tells the
  cell, when a session was live." `ToldTheTruth` covers the refusal.
* A grant is set on whichever connection is live when the asking task runs again
  (`hub.rs:319`): replaced in between, the new connection has a session it never asked
  for, although a device that reconnects "starts clean" (`connection.rs:6`).
  `ControlConsented` says only that the person allowed it. A device that dropped the
  session with its link refuses the session's actions.
* A yes given as the link is lost may set the session after `disconnected` has cleared
  it, on a task that is past its last await, and the next connection finds it in force,
  although "its answer must not grant a session the next connection never asked for"
  (`link.rs:282`). The person did say yes to it, so `ControlConsented` holds.
* A caller whose session ends while its action runs is told `session_ended`
  (`hub.rs:68`), which does not say that the outcome is unknown, as `hub.rs:46` has it
  for a timeout and a lost connection; the action may have run. `ToldTheTruth` says
  nothing of such a call.
* A summary window "may emit at most one digest delivery outcome"
  (`specs/013-delivery-notifications/data-model.md:134`). A caller that joins with a
  copy it read before the window was closed opens it again, and a restart during
  the digest emits it anew. `SentOnce` is about one outcome, and each digest is an
  outcome of its own.
* A caller may join a window whose emitter has just read it; its result is then
  counted in a copy that is overwritten, or in a window nobody emits again.
* A window goes "`dispatching` -> `failed` when digest emission exhausts retries"
  (`specs/013-delivery-notifications/data-model.md:163`). The code closes it as failed
  when the digest's first attempt is not delivered (`digest.rs:192`), while that digest
  is queued for its retry and may be delivered later. `FinishedTruthfully` therefore says
  nothing of failed windows.
* "attempts remain ordered and immutable once completed"
  (`specs/013-delivery-notifications/data-model.md:108`). Once the attempts could not be read (`dispatcher.rs:226`) two of them have one number, and the
  store lists them by number and then by an id that is random: the last one listed need not
  be the last one made. `FinishedTruthfully` is about the one made last. An outcome may also
  get more attempts than `max_attempts`, one series for each such read.
* "A still-open window reschedules itself" (`digest.rs:125`) does not happen: its
  own entry is still in the schedule (`WakeEarly`), so that the window waits for the
  next caller that joins it, or for `restore`.
* Two callers that report one result at the same moment may each make an outcome.
* `restore` is called by tests only, so that a restart leaves retries and windows
  unarmed.
* A connection that was accepted before its device was revoked, and says hello
  after, is served: the row is read when it is accepted and not again.
* `serve` and `start_background_loops` (`surface/app/src/lib.rs:531`, `:579`) speak of the
  scheduler's tick; `Scheduler::start` sets a flag, and nothing calls `tick`.

## Proofs

`AdmissionProofs` proves, for every finite set of turns, every set of tenants and
every setting of the limits (`AdmissionAssumption`, nothing else):

| theorem | states |
|---|---|
| `TypeCorrect` | `TypeOK`: no unsigned counter goes below zero |
| `SlotsAlwaysAccounted` | `SlotsAccounted`: the counters are the numbers of turns that hold a slot |
| `CapsAlwaysRespected` | `CapsRespected`: never more holders than the caps allow |
| `WaitersAlwaysTracked` | `WaitersTracked`: a waiting thread is queued or granted, never both |
| `WakeupNeverLost` | `NoLostWakeup`: a sleeping thread that has its grant has been woken |
| `NeverIdleSlot` | `NoIdleSlot`: no slot stays free while a tenant below its cap waits |
| `AlwaysServedInTurn` | `ServedInTurn`: no tenant is served twice while another waits below its cap |
| `BudgetsAlwaysBounded` | `BudgetsBounded`: the rate bucket is never overdrawn, the debt of the token budget is bounded |

None of these is inductive. `SlotsAccounted` alone does not survive a grant: that
the turn popped from a queue holds no slot yet must be known, so the queues have
to be related to the phases of the threads. The inductive invariant
`AccountingInv` is the conjunction of

* `TypeOK`, and `QueuesOK`: a turn is in the queue of its own tenant only, once;
* `Tracked`: who is queued, who is granted and who waits, by phase;
* `Section`: what is known while a thread is inside the critical section;
* `SlotsAccounted` and `WaitingCounted`: counters equal cardinalities;
* `Capped`: the caps on the counters, from which `CapsRespected` follows.

One lemma per action shows that it is preserved (`AccountingAdmit`,
`AccountingGrant`, `AccountingWithdraw`, `AccountingRelease`, ...); they rest on
lemmas about removing a turn from a sequence (`RetainProperties`, for which
`Positions` numbers the elements of a set of naturals) and about counting the
holders of slots when one is added or removed.

The other four rest on `AccountingInv` and on invariants of their own:

* `WakeInv`: a grant that has woken nobody yet is known to the thread inside the
  critical section (`granted_any`), which wakes all before it leaves.
* `RoundRobinInv`, of four conjuncts. `OrderOK`: the order lists the tenants with
  waiters, each once. `Fair`: a tenant served while `t` waited below its cap was
  served once and is not in front of `t` any more; that is what a rotation must
  not undo. `Scanned`: the tenants `schedule` has passed over since its last grant
  are the last of the order, and none of them can be given a slot. `NoIdleSlot`
  follows when the loop ends after as many passes as the order is long.
* `BudgetInv`. `RateInv`: the buckets admitted an admitting turn, and no one else
  can have drained them since, as the section is held. `DepthInv`: a queue is at
  most one turn over its depth, and then that turn is the one being admitted.
  `DebtInv`: even if every turn in flight reports all it still may, the debt stays
  within the bound. What they may still report is a sum over turns; it is stated
  as the number of pairs of a turn and a token not yet reported (`Pending`), so
  that reporting `n` tokens removes `n` elements and no sum has to be unfolded.
  When a flight starts the bucket was not empty, and the caps bound how many
  flights there are (`FlightCapped`).

TLC checked these invariants on the instances of `admission_fair` and
`admission_budget` before they were proved.

`ActiveTurnsProofs` proves, for any attempts, messages, cancellers and inbox limit
under `ActiveTurnsAssumption` (attempts at one turn share its request id):

| theorem | states |
|---|---|
| `TypeCorrect` | `TypeOK`: no inbox exceeds its limit, however many senders race |
| `ClaimsAlwaysExclusive` | `ClaimsExclusive`: one attempt at a turn holds its claim |
| `AlwaysReachesItsTurn` | `ReachesItsTurn`: a request reaches the turn that holds its guard |
| `AcceptedAlwaysRead` | `AcceptedRead`: an accepted message is read before the answer |
| `KillAlwaysReaches` | `KillReaches`: a kill of a linked turn cancels its dispatches |

`Types` refines `TypeOK` by what a thread past its search has found, and every proof
rests on it. With it `ClaimsExclusive` is inductive; the others are strengthened:

* `RegistryInv` adds that a request reaches a turn of its own, so that the guard of
  an ended turn removes no other turn's entry;
* `MailInv` says where an accepted message is, in the inbox or among those read, and
  that an answer leaves the inbox closed and empty, so that a push that found the
  turn before it ended is refused;
* `KillInv` says that at most one canceller is inside the kill of a turn and that it
  finds the child token not yet cancelled (`KillersInv`), that a linked turn has its
  child, and its watcher unless that one has run (`LinkInv`), and that a kill that
  began there is under way or has arrived (`HeardInv`).

The last section of `ActiveTurnsProofs` proves `TurnImplemented`, `Spec => KeepsPromise`,
under the same assumption. A step of `ActiveTurns` reads or decides messages only where `MailInv` says
they are; the one new fact needed is `AnswerInv`, that an attempt that has answered is past
its loop, so that nothing is read or accepted after an answer.

`TurnLoopProofs` proves, for any calls, messages, limits and any number
of attempts, crashes, failed writes and unreadable or expired records (`TurnLoopAssumption`:
naturals, and that calls are not messages):

| theorem | states |
|---|---|
| `TypeCorrect` | `TypeOK` |
| `AlwaysUnsafeAtMostOnce` | `UnsafeAtMostOnce`, if deletes succeed |
| `AlwaysPlannedNeverRan` | `PlannedNeverRan`, if deletes succeed |
| `AlwaysRecordIsCurrent` | `RecordIsCurrent`, if deletes succeed |
| `AlwaysSideEffectsAlone` | `SideEffectsAlone`: a call with side effects runs alone and in order, and no more than `MaxParallel` at once |
| `AlwaysAcceptedShown` | `AcceptedShown`: the model that answers was shown every accepted message |
| `AlwaysHistoryIsCheckpoint` | `HistoryIsCheckpoint`: the model's prompt is the checkpoint's conversation, in order, after any replay |

"If deletes succeed" is the hypothesis `~DeleteMayFail` of the theorem: without it the three
are false (see TurnLoop above). The others hold either way. The argument, with the
conjuncts of the inductive invariant `Inv`:

* `Places`: no call is in two places of checkpoint and replay (`Unique`, `Apart`), a round is over
  before the next one starts (`OverBut`), and in a round nothing has started after a call
  with side effects that has not settled; one that is still planned has not run (`CallsOK`).
  The same is said of the stored record, as the next attempt starts from it;
* `Written`: the record is the checkpoint, or there is none, whenever a call may run. So
  marking a call started reaches the record before the call runs, or no record is left to
  repeat it from;
* `Batch`: the calls of the batch are those marked started, one with side effects is alone
  among them and was not run before it is polled;
* `Once`: a call no model asked for has not run, one with side effects at most once;
* `Types`, `Flags`, `Control`: types, what is in memory at each point of the attempt, and that
  the rounds made and those left to replay together stay within the cap.

`UnsafeAtMostOnce` is `Once`; its step is the first poll, where `Batch` says the call has not
run; `Batch` gets that from `Places` when the batch starts, and `Places` keeps it through a
crash because of `Written`. `Mail` is a second invariant: an accepted message waits in the
inbox or is in the history, and the inbox is empty when it is closed. `Story` is the third: the
history is the conversation of the checkpoint, except that the results of the round whose calls
run are not in it yet (`Begun`). `Concatenates` says without recursion that a sequence is the
parts one after the other: item i of part k has as many items before it as the earlier parts
have and i - 1. So each step, which adds to the last part (`Extended`) or begins an empty one
(`Followed`), moves nothing told before. That it is the library's concatenation is an assumption
of `MCTurnLoop` that TLC evaluates on all short sequences. TLC checked `Inv` and `Mail` on the
instance of `turn_resume`, with and without `DeleteMayFail`, before they were proved, and `Story`
on the same instance without it.

`WorkItemsProofs` proves, for any items, conversations, authors, messages, stops, crashes and
failed writes and every setting of the two caps (`WorkItemsAssumption`: naturals, the statuses a
report may have, and that the loop and `Nobody` are none of the other ids):

| theorem | states |
|---|---|
| `TypeCorrect` | `TypeOK`, with the cap on rounds per hour |
| `AlwaysOneRoundAtATime` | `OneRoundAtATime`: one running round, one thread at its turn, and an input of its own for every round after the first |
| `AlwaysHoldsReleased` | `HoldsReleased`: a round runs past a question or a blocked report only on a person's word |
| `AlwaysWakeNotLost` | `WakeNotLost`: a person's waiting input has a thread about to look, or was held back |
| `AlwaysOneOwner` | `OneOwner`: one live owner of a conversation, and open items keep theirs |
| `AlwaysCapRespected` | `CapRespected`: never more open items than `maxOpenItems` |
| `AlwaysFinalEnds` | `FinalEnds`: stopped stays stopped, revoked stays revoked or is stopped |

`Invariant` is `Spec => [](Inv /\ Fresh)`. The conjuncts of `Inv` are

* `ItemOK`, what the rows of one item say of each other (`RowOK`). `OneRoundAtATime` and
  `HoldsReleased` are read off it. It is stated over the row's columns, so that each write of
  the store (a new row, an appended input, a started round, a settled one, an end, a reopening)
  has one lemma without any thread in it;
* `DriverOK`, what a thread may rely on at each of its steps: from the admission of a round
  to its settlement the round is the last one of its item and still running. A stop does not
  change this, as it ends the item and leaves the round to be settled;
* `Apart`, no two threads have one item's running round. `start_round` plans again under the
  writer lock, so the second of two wakes finds the round running;
* `StopOK`, that a stop that ends an item has read it.

`Fresh` says that an item not yet opened subscribes to nothing.

The other three properties have an invariant each, inductive together with these. `Owners` adds to
`OneOwner` what the loop has learnt while it routes a message: the item it is about to reopen
still has the conversation, or has ended finally and will not reopen. That holds because only an
ordinary turn of the same loop replaces an owner. `Wake` is `WakeNotLost` without the
conditions that its other conjuncts imply; each way a drive leaves an item either finds that
nothing waits, or that the item does not run, or says why it was left. `Capped` adds that finitely
many items are open. It and `FinalEnds` go through `NextRow`: a step writes one item's rows at
most, and then opens it, reopens it, ends it finally, goes on with it while it is open, or settles
the round of one that has ended finally. TLC finds all five invariants kept on three instances:
one item with a stop, two items with a stop and a cap of one, three with a cap of two.

`DevicesProofs` and `DevicesTruth` prove, for any number of connections, sessions,
actions and callers and any outbox (`DeviceWireAssumption`, naturals and nothing else):

| theorem | states |
|---|---|
| `TypeCorrect` | `TypeOK` |
| `KillAlwaysHolds` | `KillHolds`: no session on the device while the kill switch blocks |
| `ServedAlwaysLive` | `ServedIsLive`: a replaced connection that leaves does not take its successor along |
| `WaitersAlwaysReachable` | `WaitersReachable`: nobody waits on a connection that is gone |
| `ControlAlwaysConsented` | `ControlConsented`: the hub's session, and that of every action that touched the machine, was allowed |
| `AlwaysToldTheTruth` | `ToldTheTruth`: reported done was done once, reported refused was not done |

`KillHolds` is inductive and `ServedIsLive` is with the types. The others are strengthened:

* `Types` refines `TypeOK` by what a caller in each state waits for, and by the session
  and the question being those of a connection that is there;
* `CallsApart`: no two callers wait for one session or one action, so that answering one
  leaves the others reachable;
* `DownOnce`: frames wait only on the connection the device is on, and no action's frame
  waits twice; with it `LifeInv` follows an action's life: sent, on the wire, checked, run,
  over, each stage once, so that it is performed at most once;
* `FramesGood`, `AgentGood` and `HubGood`: every frame and answer under way is in the set
  `Good` of those that are true now, which only grows; a grant is of an allowed session, a
  result says what was performed.

`DeliveryProofs` proves, for any number of results, callers, attempts, outcomes, windows
and faults (`DeliveryAssumption`: naturals, at least one attempt, and callers that are not
sleepers of a retry or a window):

| theorem | states |
|---|---|
| `AlwaysFinishedTruthfully` | `FinishedTruthfully`: a final status is what happened, however often the attempts were numbered anew |
| `AlwaysSentOnce` | `SentOnce`: an outcome is sent once, and once more at most for each fault |

Both follow from `Invariant`, `Spec => [](Inv /\ Armed /\ Numbering)`. What makes them true is that an
outcome is one thread's at a time, which no lock of the code says: `Inv` has it as `Apart`,
with what each thread may rely on at each of its steps (`ThreadOK`: the status and mode of
its outcome, its attempts, whose outcome it is), with where a send that is
not blamed on a fault is known (`KnownSent`: in the status, or by the thread about to
record it), and with where a delivered window's digest is (`WindowOK`). `Armed` is needed
for emitters: one is under way only while its window has an entry in `window_scheduled`, so
that a second caller arming the window cannot replace an emitter that has sent and not yet
recorded it. `Numbering` is needed for outcomes that fail: the highest number among an
outcome's attempts is at most how many there are, so that one whose number has reached
`max_attempts` comes after no fewer attempts, however often a failed read made the numbers
start again. `DeliveryInvariant` has the definitions and the steps of a dispatch and of callers
up to their window, `DeliveryProofs` those at windows and of retries, emitters and faults.

Leaves name the prover that finds them where the first one tried does not.

Every invariant that a passing run checks is proved. Only model-checked are the liveness
properties (`AttemptEnds`, `KilledTurnEnds`, `InputRead`, `WaiterServed`): liveness under
fairness, and the enabledness it rests on, is out of reach of the proof system used here.

## Not modelled

The repository has some 250,000 lines. What is modelled is the part in which the
order of several actors' steps decides what is right; most of the rest is not of
that kind, and a model of it would say nothing its tests do not. `components` has
every part and the reason for each:

* Provider protocols, wire formats, prompts, reports, authentication, user
  interfaces, migrations and the web console are data or input and output.
* Records behind single statements of the store (sessions, audit, catalogues,
  evaluation, routines) have no step at which another actor could come between.
* The scheduler's `tick` and `catch_up` have a protocol, and no caller in the daemon.
* Reminders, billing reservations, the run ledger with its orchestration, swarm
  runs, webhooks, the connector and capability supervisors and the event bus have
  protocols of their own and are left for later. The first to add is the reminders'
  tick, which works on documents it listed before a snooze or a cancel.

Of the modelled parts, a failed delete after a failed journal write (`DeleteMayFail`),
the pairing of devices and a caller of the hub dropped while it waits, the duplicate
check and reply streaming of the message loop, and the recovery of work items after
a crash, which is not built, are left out.
