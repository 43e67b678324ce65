----------------------------- MODULE Admission -----------------------------
(***************************************************************************)
(* The turn admission gate (crates/domains/chat/src/admission.rs): every   *)
(* chat turn asks it for a slot before it runs and gives the slot back     *)
(* when it ends.  All of the gate's state sits under one mutex.            *)
(*                                                                         *)
(* A caller of admit() is identified by the turn it asks for; that stands  *)
(* for the u64 ticket the code draws, which only tells waiters apart.  A   *)
(* turn that ended or was refused may ask again.                           *)
(*                                                                         *)
(* The critical sections of admit() and release() contain the loop of      *)
(* schedule().  The loop is modelled one iteration per step while `holder` *)
(* holds the mutex; every other action that needs the mutex is disabled    *)
(* until the section ends, so other threads see the section as atomic.     *)
(*                                                                         *)
(* Buckets are integer levels; a tenant without an entry, or without a     *)
(* bucket, has the level a fresh bucket has.  The passing of time is       *)
(* Elapse, which refills every bucket by one tick's worth.                 *)
(***************************************************************************)
EXTENDS Integers, Sequences, FiniteSets

CONSTANTS
  Tenants,            \* tenant ids
  Exempt,             \* tenants the per-tenant limits do not apply to
  Turns, NoTurn,      \* the turns that may ask for a slot; none of them
  TenantOf,           \* the tenant a turn runs for
  GlobalConcurrency, TenantConcurrency,      \* TurnLimits: 0 is unbounded
  TurnsPerMinute, TokensPerMinute,
  TenantQueueDepth, GlobalQueueDepth,
  TurnRefill, TokenRefill,  \* what one tick puts back into each bucket
  TurnUsage,          \* the most tokens one turn's dispatches report
  OutsideUsage        \* bound: tokens a tenant's dispatches outside turns report

ASSUME AdmissionAssumption ==
  /\ IsFiniteSet(Turns) /\ NoTurn \notin Turns
  /\ Exempt \subseteq Tenants
  /\ TenantOf \in [Turns -> Tenants]
  /\ GlobalConcurrency \in Nat /\ TenantConcurrency \in Nat
  /\ TurnsPerMinute \in Nat /\ TokensPerMinute \in Nat
  /\ TenantQueueDepth \in Nat /\ GlobalQueueDepth \in Nat
  /\ TurnRefill \in Nat /\ TokenRefill \in Nat
  /\ TurnUsage \in Nat /\ OutsideUsage \in Nat

VARIABLES
  running,      \* State.running
  waiting,      \* State.waiting
  granted,      \* State.granted: slots handed out and not picked up yet
  turn_order,   \* State.turn_order
  t_running,    \* Tenant.running
  t_queue,      \* Tenant.queue
  turns,        \* level of Tenant.turns
  tokens,       \* level of Tenant.tokens
  holder,       \* the turn inside a critical section with a schedule() loop
  passes,       \* passes_without_grant of that loop
  granted_any,  \* granted_any of that loop
  phase,        \* where each turn's thread is
  woken,        \* waiters the condvar woke that have not looked again yet
  spent,        \* tokens charged to each running turn
  outside,      \* tokens charged to each tenant outside its turns
  bypass        \* history: grants to u while t waited below its cap

gate == <<running, waiting, granted, turn_order, t_running, t_queue>>
loop == <<holder, passes, granted_any>>
vars == <<gate, turns, tokens, loop, phase, woken, spent, outside, bypass>>

-----------------------------------------------------------------------------
(* Limits *)

IsExempt(t) == t \in Exempt

HasGlobalRoom == GlobalConcurrency = 0 \/ running < GlobalConcurrency

AtOwnCap_OffByOne(t) ==
  ~IsExempt(t) /\ TenantConcurrency > 0 /\ t_running[t] > TenantConcurrency

AtOwnCap(t) ==
  ~IsExempt(t) /\ TenantConcurrency > 0 /\ t_running[t] >= TenantConcurrency

CheckBuckets_NoBudget(turn_level, token_level) ==
  TurnsPerMinute > 0 => turn_level >= 1

\* check_buckets: the token budget first, then the turn rate.
CheckBuckets(turn_level, token_level) ==
  /\ TokensPerMinute > 0 => token_level > 0
  /\ TurnsPerMinute > 0 => turn_level >= 1

TakeTurnToken(t) ==
  turns' = IF IsExempt(t) \/ TurnsPerMinute = 0
           THEN turns
           ELSE [turns EXCEPT ![t] = @ - 1]

Lower(a, b) == IF a < b THEN a ELSE b

\* sweep: an idle entry whose buckets are both full is dropped, that is, its
\* levels become those of a fresh entry.
Swept(level, full) ==
  [t \in Tenants |->
     IF /\ t_running[t] = 0 /\ t_queue[t] = <<>>
        /\ turns[t] >= TurnsPerMinute /\ tokens[t] >= TokensPerMinute
     THEN full
     ELSE level[t]]

\* The sweep at the top of admit(), run when more than SWEEP_ABOVE tenants
\* are known (that there are is left open).
MaySweep ==
  \E sweeps \in BOOLEAN :
    /\ turns' = IF sweeps THEN Swept(turns, TurnsPerMinute) ELSE turns
    /\ tokens' = IF sweeps THEN Swept(tokens, TokensPerMinute) ELSE tokens

-----------------------------------------------------------------------------
(* Sequences *)

\* The elements of s other than e, in their order (VecDeque::retain): the
\* k-th is the one at the k-th kept index.
Retain(s, e) ==
  LET kept == {i \in DOMAIN s : s[i] # e}
      nth(k) == CHOOSE i \in kept : Cardinality({j \in kept : j <= i}) = k
  IN  [k \in 1..Cardinality(kept) |-> s[nth(k)]]

Occurs(s, e) == \E i \in DOMAIN s : s[i] = e

-----------------------------------------------------------------------------
(* History: how often each tenant was served while t waited below its cap *)

\* t has a waiter and could be given a slot in the state after the step.
EligibleNext(t) ==
  /\ t_queue'[t] # <<>>
  /\ IsExempt(t) \/ TenantConcurrency = 0 \/ t_running'[t] < TenantConcurrency

Eligible(t) == t_queue[t] # <<>> /\ ~AtOwnCap(t)

\* The counters after a step that gives a slot to each tenant of `served`
\* (at most one).  A tenant that is served, or is not eligible, starts over.
CountBypass(served) ==
  bypass' = [t \in Tenants |-> [u \in Tenants |->
               IF t \in served \/ ~Eligible(t) \/ ~EligibleNext(t) THEN 0
               ELSE IF u \in served THEN bypass[t][u] + 1
               ELSE bypass[t][u]]]

-----------------------------------------------------------------------------
(* schedule(): one iteration of its loop *)

Scheduling == holder # NoTurn /\ HasGlobalRoom /\ passes < Len(turn_order)

\* A tenant whose queue is empty is dropped from the order; one at its own
\* cap goes to the back.
SchedulePass ==
  /\ Scheduling
  /\ LET t == Head(turn_order) IN
     /\ ~Eligible(t)
     /\ IF t_queue[t] = <<>>
        THEN turn_order' = Tail(turn_order) /\ passes' = passes
        ELSE turn_order' = Append(Tail(turn_order), t) /\ passes' = passes + 1
  /\ UNCHANGED <<running, waiting, granted, t_running, t_queue, turns, tokens,
                 holder, granted_any, phase, woken, spent, outside, bypass>>

ScheduleGrant_KeepsFront ==
  /\ Scheduling
  /\ LET t == Head(turn_order) IN
     /\ Eligible(t)
     /\ t_queue' = [t_queue EXCEPT ![t] = Tail(@)]
     /\ t_running' = [t_running EXCEPT ![t] = @ + 1]
     /\ running' = running + 1
     /\ waiting' = waiting - 1
     /\ granted' = granted \cup {Head(t_queue[t])}
     /\ turn_order' = IF Tail(t_queue[t]) # <<>> THEN turn_order
                                                 ELSE Tail(turn_order)
     /\ CountBypass({t})
  /\ granted_any' = TRUE
  /\ passes' = 0
  /\ UNCHANGED <<turns, tokens, holder, phase, woken, spent, outside>>

\* The next tenant's oldest waiter gets a slot; the tenant goes to the back
\* of the order if it has more waiters.
ScheduleGrant ==
  /\ Scheduling
  /\ LET t == Head(turn_order) IN
     /\ Eligible(t)
     /\ t_queue' = [t_queue EXCEPT ![t] = Tail(@)]
     /\ t_running' = [t_running EXCEPT ![t] = @ + 1]
     /\ running' = running + 1
     /\ waiting' = waiting - 1
     /\ granted' = granted \cup {Head(t_queue[t])}
     /\ turn_order' = IF Tail(t_queue[t]) # <<>>
                      THEN Append(Tail(turn_order), t)
                      ELSE Tail(turn_order)
     /\ CountBypass({t})
  /\ granted_any' = TRUE
  /\ passes' = 0
  /\ UNCHANGED <<turns, tokens, holder, phase, woken, spent, outside>>

LeaveSection_NotifyOne ==
  /\ holder' = NoTurn /\ passes' = 0 /\ granted_any' = FALSE
  /\ IF granted_any /\ \E x \in Turns : phase[x] = "waiting"
     THEN \E x \in Turns : phase[x] = "waiting" /\ woken' = woken \cup {x}
     ELSE woken' = woken

\* The mutex is released.  schedule() ends with notify_all() when it granted
\* anything: every thread asleep in the condvar wakes; one whose deadline
\* already passed is no longer there.
LeaveSection ==
  /\ holder' = NoTurn /\ passes' = 0 /\ granted_any' = FALSE
  /\ woken' = IF granted_any
              THEN woken \cup {x \in Turns : phase[x] = "waiting"}
              ELSE woken

-----------------------------------------------------------------------------
(* admit() *)

\* Up to the call of schedule(): the buckets allow the turn and it joins its
\* tenant's queue.
Admit(x) ==
  LET t == TenantOf[x] IN
  /\ holder = NoTurn
  /\ phase[x] \in {"idle", "denied"}
  /\ MaySweep
  /\ IsExempt(t) \/ CheckBuckets(turns'[t], tokens'[t])
  /\ waiting' = waiting + 1
  /\ t_queue' = [t_queue EXCEPT ![t] = Append(@, x)]
  /\ turn_order' = IF t_queue[t] = <<>> THEN Append(turn_order, t)
                                        ELSE turn_order
  /\ holder' = x /\ passes' = 0 /\ granted_any' = FALSE
  /\ phase' = [phase EXCEPT ![x] = "admitting"]
  /\ UNCHANGED t_running
  /\ CountBypass({})
  /\ UNCHANGED <<running, granted, woken, spent, outside>>

\* The buckets refuse the turn: nothing else changes.
DenyRate(x) ==
  LET t == TenantOf[x] IN
  /\ holder = NoTurn
  /\ phase[x] \in {"idle", "denied"}
  /\ MaySweep
  /\ ~IsExempt(t) /\ ~CheckBuckets(turns'[t], tokens'[t])
  /\ phase' = [phase EXCEPT ![x] = "denied"]
  /\ UNCHANGED <<gate, loop, woken, spent, outside, bypass>>

\* withdraw(): the ticket leaves its queue, and the tenant leaves the order
\* when that was its last waiter.
Withdraw(x) ==
  LET t == TenantOf[x]
      q == Retain(t_queue[t], x)
  IN  IF Occurs(t_queue[t], x)
      THEN /\ t_queue' = [t_queue EXCEPT ![t] = q]
           /\ waiting' = waiting - 1
           /\ turn_order' = IF q = <<>> THEN Retain(turn_order, t)
                                        ELSE turn_order
      ELSE UNCHANGED <<t_queue, waiting, turn_order>>

QueueFull(x) ==
  LET t == TenantOf[x] IN
  \/ ~IsExempt(t) /\ TenantQueueDepth > 0 /\ Len(t_queue[t]) > TenantQueueDepth
  \/ GlobalQueueDepth > 0 /\ waiting > GlobalQueueDepth

AdmitNow_DoubleDecrement(x) ==
  /\ holder = x /\ phase[x] = "admitting" /\ ~Scheduling
  /\ x \in granted
  /\ granted' = granted \ {x}
  /\ waiting' = waiting - 1
  /\ TakeTurnToken(TenantOf[x])
  /\ phase' = [phase EXCEPT ![x] = "running"]
  /\ LeaveSection
  /\ UNCHANGED <<running, turn_order, t_running, t_queue, tokens, spent,
                 outside, bypass>>

\* After schedule(), still in the same critical section: the turn got a
\* slot at once ...
AdmitNow(x) ==
  /\ holder = x /\ phase[x] = "admitting" /\ ~Scheduling
  /\ x \in granted
  /\ granted' = granted \ {x}
  /\ TakeTurnToken(TenantOf[x])
  /\ phase' = [phase EXCEPT ![x] = "running"]
  /\ LeaveSection
  /\ UNCHANGED <<running, waiting, turn_order, t_running, t_queue, tokens,
                 spent, outside, bypass>>

DenyQueueFull_KeepsTicket(x) ==
  /\ holder = x /\ phase[x] = "admitting" /\ ~Scheduling
  /\ x \notin granted
  /\ QueueFull(x)
  /\ phase' = [phase EXCEPT ![x] = "denied"]
  /\ LeaveSection
  /\ UNCHANGED <<gate, turns, tokens, spent, outside, bypass>>

\* ... or a queue bound is exceeded and it is refused ...
DenyQueueFull(x) ==
  /\ holder = x /\ phase[x] = "admitting" /\ ~Scheduling
  /\ x \notin granted
  /\ QueueFull(x)
  /\ Withdraw(x)
  /\ phase' = [phase EXCEPT ![x] = "denied"]
  /\ LeaveSection
  /\ UNCHANGED t_running
  /\ CountBypass({})
  /\ UNCHANGED <<running, granted, turns, tokens, spent, outside>>

\* ... or it waits on the condvar.
AdmitQueued(x) ==
  /\ holder = x /\ phase[x] = "admitting" /\ ~Scheduling
  /\ x \notin granted
  /\ ~QueueFull(x)
  /\ TakeTurnToken(TenantOf[x])
  /\ phase' = [phase EXCEPT ![x] = "waiting"]
  /\ LeaveSection
  /\ UNCHANGED <<gate, tokens, spent, outside, bypass>>

\* A waiter that finds its slot granted takes it.
PickUp(x) ==
  /\ holder = NoTurn
  /\ x \in granted
  /\ granted' = granted \ {x}
  /\ phase' = [phase EXCEPT ![x] = "running"]
  /\ woken' = woken \ {x}
  /\ UNCHANGED <<running, waiting, turn_order, t_running, t_queue, turns,
                 tokens, loop, spent, outside, bypass>>

WakeAndTake(x) == phase[x] = "waiting" /\ x \in woken /\ PickUp(x)

\* A woken waiter that was not granted a slot goes back to sleep.
WakeAndSleep(x) ==
  /\ holder = NoTurn
  /\ x \in woken /\ x \notin granted
  /\ woken' = woken \ {x}
  /\ UNCHANGED <<gate, turns, tokens, loop, phase, spent, outside, bypass>>

\* The deadline of a sleeping waiter passes.  Its thread leaves the condvar
\* and queues for the mutex, which another thread may hold.
DeadlinePasses(x) ==
  /\ phase[x] = "waiting" /\ x \notin woken
  /\ phase' = [phase EXCEPT ![x] = "expired"]
  /\ UNCHANGED <<gate, turns, tokens, loop, woken, spent, outside, bypass>>

DeadlineTake_LeaksSlot(x) ==
  /\ phase[x] = "expired"
  /\ holder = NoTurn
  /\ x \in granted
  /\ granted' = granted \ {x}
  /\ phase' = [phase EXCEPT ![x] = "denied"]
  /\ UNCHANGED <<running, waiting, turn_order, t_running, t_queue, turns,
                 tokens, loop, woken, spent, outside, bypass>>

\* A grant that raced the deadline wins ...
DeadlineTake(x) == phase[x] = "expired" /\ PickUp(x)

\* ... and without one the turn is refused.
DeadlineWithdraw(x) ==
  /\ holder = NoTurn
  /\ phase[x] = "expired"
  /\ x \notin granted
  /\ Withdraw(x)
  /\ phase' = [phase EXCEPT ![x] = "denied"]
  /\ UNCHANGED t_running
  /\ CountBypass({})
  /\ UNCHANGED <<running, granted, turns, tokens, loop, woken, spent, outside>>

-----------------------------------------------------------------------------
(* release(), charge_tokens() and time *)

SaturatingDec(n) == IF n > 0 THEN n - 1 ELSE 0

Release_NoSchedule(x) ==
  LET t == TenantOf[x] IN
  /\ holder = NoTurn
  /\ phase[x] = "running"
  /\ running' = SaturatingDec(running)
  /\ t_running' = [t_running EXCEPT ![t] = SaturatingDec(@)]
  /\ phase' = [phase EXCEPT ![x] = "idle"]
  /\ spent' = [spent EXCEPT ![x] = 0]
  /\ UNCHANGED t_queue
  /\ CountBypass({})
  /\ UNCHANGED <<waiting, granted, turn_order, turns, tokens, loop, woken,
                 outside>>

\* A turn's permit is dropped: the slot is freed and schedule() runs.
Release(x) ==
  LET t == TenantOf[x] IN
  /\ holder = NoTurn
  /\ phase[x] = "running"
  /\ running' = SaturatingDec(running)
  /\ t_running' = [t_running EXCEPT ![t] = SaturatingDec(@)]
  /\ holder' = x /\ passes' = 0 /\ granted_any' = FALSE
  /\ phase' = [phase EXCEPT ![x] = "releasing"]
  /\ spent' = [spent EXCEPT ![x] = 0]
  /\ UNCHANGED t_queue
  /\ CountBypass({})
  /\ UNCHANGED <<waiting, granted, turn_order, turns, tokens, woken, outside>>

ReleaseDone(x) ==
  /\ holder = x /\ phase[x] = "releasing" /\ ~Scheduling
  /\ phase' = [phase EXCEPT ![x] = "idle"]
  /\ LeaveSection
  /\ UNCHANGED <<gate, turns, tokens, spent, outside, bypass>>

ChargeTokens(t, n) ==
  /\ holder = NoTurn
  /\ TokensPerMinute > 0 /\ n > 0 /\ ~IsExempt(t)
  /\ tokens' = [tokens EXCEPT ![t] = @ - n]

\* A settled dispatch of a running turn; a turn reports TurnUsage in all.
ChargeTurn(x, n) ==
  /\ phase[x] = "running"
  /\ spent[x] + n <= TurnUsage
  /\ ChargeTokens(TenantOf[x], n)
  /\ spent' = [spent EXCEPT ![x] = @ + n]
  /\ UNCHANGED <<gate, turns, loop, phase, woken, outside, bypass>>

\* A settled dispatch of the summarizer or the memory consolidator, outside
\* any turn, up to the bound OutsideUsage.
ChargeOutside(t, n) ==
  /\ outside[t] + n <= OutsideUsage
  /\ ChargeTokens(t, n)
  /\ outside' = [outside EXCEPT ![t] = @ + n]
  /\ UNCHANGED <<gate, turns, loop, phase, woken, spent, bypass>>

\* Bucket::refill for the time that passed.
Elapse ==
  /\ holder = NoTurn
  /\ turns' = [t \in Tenants |-> Lower(turns[t] + TurnRefill, TurnsPerMinute)]
  /\ tokens' = [t \in Tenants |-> Lower(tokens[t] + TokenRefill, TokensPerMinute)]
  /\ UNCHANGED <<gate, loop, phase, woken, spent, outside, bypass>>

-----------------------------------------------------------------------------

Init ==
  /\ running = 0 /\ waiting = 0 /\ granted = {} /\ turn_order = <<>>
  /\ t_running = [t \in Tenants |-> 0]
  /\ t_queue = [t \in Tenants |-> <<>>]
  /\ turns = [t \in Tenants |-> TurnsPerMinute]
  /\ tokens = [t \in Tenants |-> TokensPerMinute]
  /\ holder = NoTurn /\ passes = 0 /\ granted_any = FALSE
  /\ phase = [x \in Turns |-> "idle"]
  /\ woken = {}
  /\ spent = [x \in Turns |-> 0]
  /\ outside = [t \in Tenants |-> 0]
  /\ bypass = [t \in Tenants |-> [u \in Tenants |-> 0]]

\* The rest of the critical section x is in.
FinishSection(x) ==
  AdmitNow(x) \/ DenyQueueFull(x) \/ AdmitQueued(x) \/ ReleaseDone(x)

Next ==
  \/ SchedulePass \/ ScheduleGrant \/ Elapse
  \/ \E x \in Turns :
       \/ Admit(x) \/ DenyRate(x) \/ FinishSection(x)
       \/ WakeAndTake(x) \/ WakeAndSleep(x)
       \/ DeadlinePasses(x) \/ DeadlineTake(x) \/ DeadlineWithdraw(x)
       \/ Release(x)
       \/ \E n \in 1..TurnUsage : ChargeTurn(x, n)
  \/ \E t \in Tenants, n \in 1..OutsideUsage : ChargeOutside(t, n)

Spec == Init /\ [][Next]_vars

\* A thread that holds the mutex goes on, a waiter that woke or timed out
\* gets to look, and every turn that runs ends.  Nobody is obliged to ask for
\* a turn, and no deadline is obliged to pass.
Fairness ==
  /\ WF_vars(SchedulePass) /\ WF_vars(ScheduleGrant)
  /\ \A x \in Turns :
       /\ WF_vars(FinishSection(x))
       /\ SF_vars(WakeAndTake(x)) /\ WF_vars(WakeAndSleep(x))
       /\ SF_vars(DeadlineTake(x) \/ DeadlineWithdraw(x))
       /\ SF_vars(Release(x))

FairSpec == Spec /\ Fairness

-----------------------------------------------------------------------------
(* Properties *)

Phases == {"idle", "denied", "admitting", "waiting", "expired", "running",
           "releasing"}

TypeOK ==
  /\ running \in Nat /\ waiting \in Nat
  /\ granted \in SUBSET Turns
  /\ turn_order \in Seq(Tenants)
  /\ t_running \in [Tenants -> Nat]
  /\ t_queue \in [Tenants -> Seq(Turns)]
  /\ turns \in [Tenants -> Int] /\ tokens \in [Tenants -> Int]
  /\ holder \in Turns \cup {NoTurn}
  /\ passes \in Nat /\ granted_any \in BOOLEAN
  /\ phase \in [Turns -> Phases]
  /\ woken \in SUBSET Turns
  /\ spent \in [Turns -> Nat] /\ outside \in [Tenants -> Nat]
  /\ bypass \in [Tenants -> [Tenants -> Nat]]

\* A turn holds a slot from the grant until its permit is dropped.
Holds(x) == x \in granted \/ phase[x] = "running"

HoldersOf(t) == {x \in Turns : TenantOf[x] = t /\ Holds(x)}

\* Slot accounting: the daemon-wide and the per-tenant counters equal the
\* number of turns that hold a slot, through grants nobody picked up yet,
\* deadlines that race a grant, refusals and releases.  A lost or doubled
\* decrement would leak a slot or admit one turn too many.
SlotsAccounted ==
  /\ running = Cardinality({x \in Turns : Holds(x)})
  /\ \A t \in Tenants : t_running[t] = Cardinality(HoldersOf(t))

\* The caps hold for the turns that really hold a slot, not only for the
\* counters.
CapsRespected ==
  /\ GlobalConcurrency > 0 =>
       Cardinality({x \in Turns : Holds(x)}) <= GlobalConcurrency
  /\ \A t \in Tenants \ Exempt :
       TenantConcurrency > 0 => Cardinality(HoldersOf(t)) <= TenantConcurrency

\* No slot is left idle: outside the critical section, while there is global
\* room every tenant with a waiter is at its own cap.
NoIdleSlot ==
  holder = NoTurn /\ HasGlobalRoom =>
    \A t \in Tenants : t_queue[t] # <<>> => AtOwnCap(t)

\* Round robin: turn_order lists exactly the tenants with waiters, each once,
\* and while a tenant waits below its own cap no other tenant is served twice
\* ("A tenant with 100 queued turns gets one slot in turn, the same as a tenant
\* with 1").
ServedInTurn ==
  /\ \A i, j \in 1..Len(turn_order) : turn_order[i] = turn_order[j] => i = j
  /\ \A t \in Tenants : t_queue[t] # <<>> <=> Occurs(turn_order, t)
  /\ \A t, u \in Tenants : bypass[t][u] <= 1

\* Every waiting thread is queued or granted, never both and never neither:
\* a thread in neither would sleep until its deadline for nothing.
WaitersTracked ==
  \A x \in Turns :
    /\ phase[x] \in {"waiting", "expired"} =>
         (x \in granted <=> ~Occurs(t_queue[TenantOf[x]], x))
    /\ x \in granted \/ Occurs(t_queue[TenantOf[x]], x) =>
         phase[x] \in {"admitting", "waiting", "expired"}

\* No wake-up is lost: outside the critical section a sleeping thread whose
\* slot was granted has been woken.
NoLostWakeup ==
  holder = NoTurn =>
    \A x \in granted : phase[x] = "waiting" => x \in woken

\* The turn-rate bucket is never overdrawn, although it is checked before the
\* turn queues and charged after schedule() ran; and the debt of a token
\* budget, which is checked on arrival only, is bounded by the usage of the
\* turns in flight when it ran out, as many as the caps let run and the queue
\* depth lets wait, and by what was charged outside turns.
BudgetsBounded ==
  /\ TurnsPerMinute > 0 => \A t \in Tenants : turns[t] >= 0
  /\ TokensPerMinute > 0 /\ TenantConcurrency > 0 /\ TenantQueueDepth > 0 =>
       \A t \in Tenants \ Exempt :
         -tokens[t] <
           (TenantConcurrency + TenantQueueDepth) * TurnUsage + outside[t]

\* A turn that waits eventually runs or is refused, though no deadline is
\* obliged to pass: the round robin and the condvar starve nobody.
WaiterServed ==
  \A x \in Turns : phase[x] = "waiting" ~> phase[x] \in {"running", "denied"}

=============================================================================
