------------------------------ MODULE Delivery ------------------------------
(***************************************************************************)
(* Delivery of results to the user (crates/domains/delivery/src): an       *)
(* outcome per reported result (manager.rs), its attempts and their        *)
(* retries (dispatcher.rs), the windows that gather routine results into   *)
(* one digest, and restore after a restart (digest.rs).                    *)
(*                                                                         *)
(* Every record is read and written by itself, under the store's lock;     *)
(* nothing else orders the threads: a caller that reports a result, the    *)
(* thread that sleeps until a retry, the one that sleeps until a window is *)
(* over.  Each works on the copies it read.  What the operator configured  *)
(* (preferences, targets, connectors, adapters) may change at any time and *)
(* is a free choice where it is read.  One preference, one target.         *)
(***************************************************************************)
EXTENDS Integers, Sequences, FiniteSetsExt

CONSTANTS
  Sources,      \* the results that are reported
  Callers,      \* threads that report them
  MaxAttempts,  \* DeliveryConfig::max_attempts
  MaxOutcomes, MaxWindows,  \* bounds on the records
  MaxFaults     \* bound on restarts, store errors and a clock set back

Ids == 1..MaxOutcomes
WindowIds == 1..MaxWindows
None == 0

\* The threads: callers, and one sleeper per retry and per window.
Retry(d) == <<"retry", d>>
Emitter(w) == <<"window", w>>
Retries == {Retry(d) : d \in Ids}
Emitters == {Emitter(w) : w \in WindowIds}
Threads == Callers \cup Retries \cup Emitters

ASSUME DeliveryAssumption ==
  /\ MaxAttempts \in Nat \ {0} /\ MaxOutcomes \in Nat /\ MaxWindows \in Nat
  /\ MaxFaults \in Nat
  /\ Callers \cap (Retries \cup Emitters) = {}

VARIABLES
  outcomes,         \* the store's outcomes, by id, in the order they were made
  attempts,         \* each outcome's attempts, in the order they were made
  windows,          \* the store's summary windows
  retry_scheduled,  \* Schedules::retry_scheduled
  window_scheduled, \* Schedules::window_scheduled
  thread,           \* where each thread is, with what it read
  sends,            \* history: how often the adapter took each outcome
  faults            \* history: how many faults so far

store == <<outcomes, attempts, windows>>
schedules == <<retry_scheduled, window_scheduled>>
vars == <<store, schedules, thread, sends, faults>>

\* source is what the thread reports, d the outcome it works on, n and a the
\* number and the id of its attempt, w and count the window it read.
At(pc, source, d, n, w, count) ==
  [pc |-> pc, source |-> source, d |-> d, n |-> n, a |-> None, w |-> w, count |-> count]
Idle == At("idle", "none", None, 0, None, 0)

Init ==
  /\ outcomes = <<>> /\ attempts = <<>> /\ windows = <<>>
  /\ retry_scheduled = {} /\ window_scheduled = {}
  /\ thread = [t \in Threads |-> Idle]
  /\ sends = [d \in Ids |-> 0]
  /\ faults = 0

Goes(t, pc) == thread' = [thread EXCEPT ![t].pc = pc]

Fault == faults < MaxFaults /\ faults' = faults + 1

\* What a thread does once its dispatch is over: a caller returns, a retry
\* clears its schedule, an emitter closes its window with what became of it.
AfterDispatch(t, result) ==
  CASE t \in Callers -> Idle
    [] t \in Retries -> [thread[t] EXCEPT !.pc = "clear"]
    [] OTHER -> [thread[t] EXCEPT !.pc = IF result = "delivered" THEN "close delivered"
                                                                ELSE "close failed"]

SetStatus(d, status) == outcomes' = [outcomes EXCEPT ![d].status = status]

\* store_outcome of a new outcome.
NewOutcome(source, mode) ==
  /\ Len(outcomes) < MaxOutcomes
  /\ outcomes' = Append(outcomes, [source |-> source, mode |-> mode, status |-> "pending",
                                   window |-> None])
  /\ attempts' = Append(attempts, <<>>)

-----------------------------------------------------------------------------
(* emit_outcome *)

Reported(source) == \E d \in DOMAIN outcomes : outcomes[d].source = source

\* A result that has an outcome is not reported again.
Report(k, source) ==
  /\ thread[k] = Idle
  /\ ~Reported(source)
  /\ thread' = [thread EXCEPT ![k].pc = "resolve", ![k].source = source]
  /\ UNCHANGED <<store, schedules, sends, faults>>

\* resolve_preference, and the outcome is stored.
Resolve(k) ==
  /\ thread[k].pc = "resolve"
  /\ \E mode \in {"suppressed", "digest", "immediate"} :
       /\ NewOutcome(thread[k].source, mode)
       /\ thread' = [thread EXCEPT ![k].d = Len(outcomes'),
                                   ![k].pc = CASE mode = "suppressed" -> "suppress"
                                               [] mode = "digest" -> "find"
                                               [] mode = "immediate" -> "start"]
  /\ UNCHANGED <<windows, schedules, sends, faults>>

Suppress(k) ==
  /\ thread[k].pc = "suppress"
  /\ SetStatus(thread[k].d, "suppressed")
  /\ thread' = [thread EXCEPT ![k] = Idle]
  /\ UNCHANGED <<attempts, windows, schedules, sends, faults>>

-----------------------------------------------------------------------------
(* queue_digest_outcome *)

Joinable(w) == windows[w].status = "open" /\ ~windows[w].over

\* find_or_create_open_window reads a window to join, if there is one,
FindWindow(k) ==
  /\ thread[k].pc = "find"
  /\ \/ \E w \in DOMAIN windows :
          /\ Joinable(w)
          /\ thread' = [thread EXCEPT ![k].pc = "join", ![k].w = w,
                                      ![k].count = windows[w].count + 1]
     \/ /\ \A w \in DOMAIN windows : ~Joinable(w)
        /\ thread' = [thread EXCEPT ![k].pc = "join", ![k].w = None, ![k].count = 1]
  /\ UNCHANGED <<store, schedules, sends, faults>>

\* and stores its copy, or a new one.
JoinWindow(k) ==
  /\ thread[k].pc = "join"
  /\ LET w == thread[k].w
     IN \/ /\ w # None
           /\ windows' = [windows EXCEPT ![w].status = "open", ![w].count = thread[k].count]
           /\ Goes(k, "queue")
        \/ /\ w = None /\ Len(windows) < MaxWindows
           /\ windows' = Append(windows, [status |-> "open", count |-> 1, over |-> FALSE])
           /\ thread' = [thread EXCEPT ![k].pc = "queue", ![k].w = Len(windows')]
  /\ UNCHANGED <<outcomes, attempts, schedules, sends, faults>>

QueueDigest(k) ==
  /\ thread[k].pc = "queue"
  /\ outcomes' = [outcomes EXCEPT ![thread[k].d].status = "queued",
                                  ![thread[k].d].window = thread[k].w]
  /\ Goes(k, "arm window")
  /\ UNCHANGED <<attempts, windows, schedules, sends, faults>>

\* schedule_window: one thread per window, which sleeps until it is over.
ScheduleWindow(k) ==
  /\ thread[k].pc = "arm window"
  /\ LET w == thread[k].w
         armed == [thread EXCEPT ![k] = Idle]
     IN IF w \in window_scheduled
        THEN thread' = armed /\ UNCHANGED window_scheduled
        ELSE /\ window_scheduled' = window_scheduled \cup {w}
             /\ thread' = [armed EXCEPT ![Emitter(w)] = At("sleep", "none", None, 0, w, 0)]
  /\ UNCHANGED <<store, retry_scheduled, sends, faults>>

-----------------------------------------------------------------------------
(* dispatch_attempt *)

\* One more than the highest number among the outcome's attempts.
NextNumber(d) ==
  Max({0} \cup {attempts[d][a].number : a \in DOMAIN attempts[d]}) + 1

\* next_attempt_number: attempts that cannot be read are taken for none, and the
\* dispatch goes on.  An emitter does not read them: its digest has none.
NextAttempt(t, pc) ==
  \/ /\ thread' = [thread EXCEPT ![t].pc = pc, ![t].n = NextNumber(thread[t].d)]
     /\ UNCHANGED faults
  \/ /\ t \notin Emitters /\ Fault
     /\ thread' = [thread EXCEPT ![t].pc = pc, ![t].n = 1]

\* The outcome is dispatching; its target, the connector or the adapter may
\* refuse it.
Start(t) ==
  /\ thread[t].pc = "start"
  /\ SetStatus(thread[t].d, "dispatching")
  /\ \E pc \in {"attempt", "refuse"} : NextAttempt(t, pc)
  /\ UNCHANGED <<attempts, windows, schedules, sends>>

\* An attempt is stored under an id of its own, whatever its number,
AddAttempt(t, status) ==
  attempts' = [attempts EXCEPT ![thread[t].d] =
                                 Append(@, [number |-> thread[t].n, status |-> status])]

\* and stored again with what became of it.
StoreAttempt(t, status) ==
  attempts' = [attempts EXCEPT ![thread[t].d][thread[t].a].status = status]

Attempt(t) ==
  /\ thread[t].pc = "attempt"
  /\ AddAttempt(t, "running")
  /\ thread' = [thread EXCEPT ![t].pc = "send", ![t].a = Len(attempts[thread[t].d]) + 1]
  /\ UNCHANGED <<outcomes, windows, schedules, sends, faults>>

Send(t) ==
  /\ thread[t].pc = "send"
  /\ \/ Goes(t, "sent") /\ sends' = [sends EXCEPT ![thread[t].d] = @ + 1]
     \/ Goes(t, "unsent") /\ UNCHANGED sends
  /\ UNCHANGED <<store, schedules, faults>>

RecordSent(t) ==
  /\ thread[t].pc = "sent"
  /\ StoreAttempt(t, "delivered")
  /\ Goes(t, "deliver")
  /\ UNCHANGED <<outcomes, windows, schedules, sends, faults>>

Deliver(t) ==
  /\ thread[t].pc = "deliver"
  /\ SetStatus(thread[t].d, "delivered")
  /\ Goes(t, "delivered")
  /\ UNCHANGED <<attempts, windows, schedules, sends, faults>>

RecordUnsent_Early(t) ==
  /\ thread[t].pc = "unsent"
  /\ IF thread[t].n + 1 < MaxAttempts
     THEN StoreAttempt(t, "retryable") /\ Goes(t, "requeue")
     ELSE StoreAttempt(t, "terminal") /\ Goes(t, "fail")
  /\ UNCHANGED <<outcomes, windows, schedules, sends, faults>>

\* handle_attempt_failure: retryable below max_attempts.
RecordUnsent(t) ==
  /\ thread[t].pc = "unsent"
  /\ IF thread[t].n < MaxAttempts
     THEN StoreAttempt(t, "retryable") /\ Goes(t, "requeue")
     ELSE StoreAttempt(t, "terminal") /\ Goes(t, "fail")
  /\ UNCHANGED <<outcomes, windows, schedules, sends, faults>>

Requeue(t) ==
  /\ thread[t].pc = "requeue"
  /\ SetStatus(thread[t].d, "queued")
  /\ Goes(t, "arm")
  /\ UNCHANGED <<attempts, windows, schedules, sends, faults>>

\* schedule_retry: not while the outcome's entry is there, which it is until
\* the thread that retries it is done.
ScheduleRetry(t) ==
  /\ thread[t].pc = "arm"
  /\ LET d == thread[t].d
         done == [thread EXCEPT ![t] = AfterDispatch(t, "queued")]
     IN IF d \in retry_scheduled
        THEN thread' = done /\ UNCHANGED retry_scheduled
        ELSE /\ retry_scheduled' = retry_scheduled \cup {d}
             /\ thread' = [done EXCEPT ![Retry(d)] = At("sleep", "none", d, 0, None, 0)]
  /\ UNCHANGED <<store, window_scheduled, sends, faults>>

\* fail_outcome_without_retry records an attempt that was not made.
Refuse(t) ==
  /\ thread[t].pc = "refuse"
  /\ AddAttempt(t, "refused")
  /\ Goes(t, "fail")
  /\ UNCHANGED <<outcomes, windows, schedules, sends, faults>>

Fail(t) ==
  /\ thread[t].pc = "fail"
  /\ SetStatus(thread[t].d, "failed")
  /\ Goes(t, "failed")
  /\ UNCHANGED <<attempts, windows, schedules, sends, faults>>

\* clear_retry_schedule, once the outcome's final status is stored.
Finish(t) ==
  /\ thread[t].pc \in {"delivered", "failed"}
  /\ retry_scheduled' = retry_scheduled \ {thread[t].d}
  /\ thread' = [thread EXCEPT ![t] = AfterDispatch(t, thread[t].pc)]
  /\ UNCHANGED <<store, window_scheduled, sends, faults>>

-----------------------------------------------------------------------------
(* resume_outcome *)

Unfinished(d) == outcomes[d].status \in {"queued", "dispatching"}

\* The retry wakes; an outcome whose target is gone is refused at once.
Resume(d) ==
  /\ thread[Retry(d)].pc = "sleep"
  /\ \/ ~Unfinished(d) /\ Goes(Retry(d), "clear") /\ UNCHANGED faults
     \/ Unfinished(d) /\ Goes(Retry(d), "start") /\ UNCHANGED faults
     \/ Unfinished(d) /\ NextAttempt(Retry(d), "refuse")
  /\ UNCHANGED <<store, schedules, sends>>

ClearRetry(d) ==
  /\ thread[Retry(d)].pc = "clear"
  /\ retry_scheduled' = retry_scheduled \ {d}
  /\ thread' = [thread EXCEPT ![Retry(d)] = Idle]
  /\ UNCHANGED <<store, window_scheduled, sends, faults>>

-----------------------------------------------------------------------------
(* emit_window *)

WindowOver(w) ==
  /\ w \in DOMAIN windows /\ ~windows[w].over
  /\ windows' = [windows EXCEPT ![w].over = TRUE]
  /\ UNCHANGED <<outcomes, attempts, schedules, thread, sends, faults>>

\* The emitter wakes, once the window is over, and reads it.
Wake(w) ==
  /\ thread[Emitter(w)].pc = "sleep"
  /\ windows[w].over
  /\ thread' = [thread EXCEPT ![Emitter(w)].pc =
                                IF windows[w].status \in {"open", "dispatching"} THEN "mark"
                                                                                 ELSE "clear",
                              ![Emitter(w)].count = windows[w].count]
  /\ UNCHANGED <<store, schedules, sends, faults>>

\* The clock was set back while the emitter slept: it finds its own entry in the
\* schedule, sleeps no more and clears it.
WakeEarly(w) ==
  /\ Fault
  /\ thread[Emitter(w)].pc = "sleep"
  /\ windows[w].status = "open" /\ ~windows[w].over
  /\ Goes(Emitter(w), "clear")
  /\ UNCHANGED <<store, schedules, sends>>

StoreCopy(w, status) ==
  windows' = [windows EXCEPT ![w].status = status, ![w].count = thread[Emitter(w)].count]

Mark(w) ==
  /\ thread[Emitter(w)].pc = "mark"
  /\ StoreCopy(w, "dispatching")
  /\ Goes(Emitter(w), "digest")
  /\ UNCHANGED <<outcomes, attempts, schedules, sends, faults>>

\* The digest is an outcome of its own, delivered at once.
EmitDigest(w) ==
  /\ thread[Emitter(w)].pc = "digest"
  /\ NewOutcome(Emitter(w), "immediate")
  /\ thread' = [thread EXCEPT ![Emitter(w)].pc = "start", ![Emitter(w)].d = Len(outcomes')]
  /\ UNCHANGED <<windows, schedules, sends, faults>>

\* Closed when its target is gone, or with the outcome of its digest.
CloseWindow(w) ==
  /\ \/ thread[Emitter(w)].pc \in {"digest", "close failed"} /\ StoreCopy(w, "failed")
     \/ thread[Emitter(w)].pc = "close delivered" /\ StoreCopy(w, "delivered")
  /\ Goes(Emitter(w), "clear")
  /\ UNCHANGED <<outcomes, attempts, schedules, sends, faults>>

ClearWindow(w) ==
  /\ thread[Emitter(w)].pc = "clear"
  /\ window_scheduled' = window_scheduled \ {w}
  /\ thread' = [thread EXCEPT ![Emitter(w)] = Idle]
  /\ UNCHANGED <<store, retry_scheduled, sends, faults>>

-----------------------------------------------------------------------------
(* Faults *)

\* A write fails, or a read other than next_attempt_number's: the operation is
\* given up where it is.
StoreError(t) ==
  /\ Fault
  /\ thread[t].pc \notin {"idle", "send", "arm window", "clear"}
  /\ thread[t].pc = "sleep" /\ thread[t].w # None => windows[thread[t].w].over
  /\ thread' = [thread EXCEPT ![t] = IF t \in Callers THEN Idle ELSE [@ EXCEPT !.pc = "clear"]]
  /\ UNCHANGED <<store, schedules, sends>>

RestoredRetries_Digests == {d \in DOMAIN outcomes : Unfinished(d)}

\* What restore re-arms: a digest's results wait for their window.
RestoredRetries ==
  {d \in DOMAIN outcomes :
     Unfinished(d) /\ ~(outcomes[d].mode = "digest" /\ outcomes[d].window # None)}

RestoredWindows == {w \in DOMAIN windows : windows[w].status \in {"open", "dispatching"}}

\* The process dies and takes its threads and schedules along.
Restart ==
  /\ Fault
  /\ retry_scheduled' = {} /\ window_scheduled' = {}
  /\ thread' = [t \in Threads |-> Idle]
  /\ UNCHANGED <<store, sends>>

\* restore re-arms what the store says is unfinished.  It is called while no
\* thread is under way.
Restore ==
  /\ \A t \in Threads : thread[t] = Idle
  /\ retry_scheduled' = RestoredRetries
  /\ window_scheduled' = RestoredWindows
  /\ thread' = [t \in Threads |->
                  CASE t \in {Retry(d) : d \in RestoredRetries} ->
                         At("sleep", "none", t[2], 0, None, 0)
                    [] t \in {Emitter(w) : w \in RestoredWindows} ->
                         At("sleep", "none", None, 0, t[2], 0)
                    [] OTHER -> Idle]
  /\ UNCHANGED <<store, sends, faults>>

-----------------------------------------------------------------------------

Reports(k) ==
  \/ \E source \in Sources : Report(k, source)
  \/ Resolve(k) \/ Suppress(k)
  \/ FindWindow(k) \/ JoinWindow(k) \/ QueueDigest(k) \/ ScheduleWindow(k)

Dispatch(t) ==
  \/ Start(t) \/ Attempt(t) \/ Send(t) \/ RecordSent(t) \/ Deliver(t)
  \/ RecordUnsent(t) \/ Requeue(t) \/ ScheduleRetry(t) \/ Refuse(t) \/ Fail(t)
  \/ Finish(t)

Emits(w) == Wake(w) \/ WakeEarly(w) \/ Mark(w) \/ EmitDigest(w) \/ CloseWindow(w) \/ ClearWindow(w)

Next ==
  \/ \E k \in Callers : Reports(k)
  \/ \E t \in Threads : Dispatch(t) \/ StoreError(t)
  \/ \E d \in Ids : Resume(d) \/ ClearRetry(d)
  \/ \E w \in WindowIds : Emits(w) \/ WindowOver(w)
  \/ Restart \/ Restore

Spec == Init /\ [][Next]_vars

\* Threads run; time passes; and a send that is tried goes one way or the other.
Fairness ==
  /\ \A k \in Callers : WF_vars(Reports(k))
  /\ \A t \in Threads : WF_vars(Dispatch(t))
  /\ \A d \in Ids : WF_vars(Resume(d) \/ ClearRetry(d))
  /\ \A w \in WindowIds : WF_vars(Emits(w)) /\ WF_vars(WindowOver(w))

FairSpec == Spec /\ Fairness

-----------------------------------------------------------------------------

Last(d) == attempts[d][Len(attempts[d])]

\* A final status is what happened, however the attempts came to be numbered: of
\* a delivered outcome the adapter took the message, and the attempt made last
\* says so; one that failed was refused in the end, or ended after no fewer
\* attempts than max_attempts; a window is delivered only when a digest of it
\* was.  (That a window failed says no more than that its digest was not
\* delivered at once: a retry may deliver it yet.)
FinishedTruthfully ==
  /\ \A d \in DOMAIN outcomes :
       /\ outcomes[d].status = "delivered" => sends[d] > 0 /\ Last(d).status = "delivered"
       /\ outcomes[d].status = "failed" =>
            \/ Last(d).status = "refused"
            \/ Last(d).status = "terminal" /\ Len(attempts[d]) >= MaxAttempts
  /\ \A w \in DOMAIN windows : windows[w].status = "delivered" =>
       \E d \in DOMAIN outcomes :
         outcomes[d].source = Emitter(w) /\ outcomes[d].status = "delivered"

\* Nothing is sent again without cause: an outcome is sent once, and once more
\* at most for each restart or store error that hid from the dispatcher that it
\* was; a result that waits for its window is never sent by itself, whenever
\* the process restarts.
SentOnce ==
  \A d \in DOMAIN outcomes :
    sends[d] <= IF outcomes[d].mode = "digest" THEN 0 ELSE 1 + faults

\* An outcome that is to be delivered at once is delivered, or has failed
\* after its attempts.
DeliveredOrFailed ==
  \A d \in Ids :
    (d \in DOMAIN outcomes /\ outcomes[d].mode = "immediate")
      ~> (d \in DOMAIN outcomes /\ outcomes[d].status \in {"delivered", "failed"})
=============================================================================
