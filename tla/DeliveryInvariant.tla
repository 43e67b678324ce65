------------------------- MODULE DeliveryInvariant --------------------------
(***************************************************************************)
(* What the store's statuses, the threads and the sends of Delivery have   *)
(* to do with each other, and that the steps of a dispatch and of a caller *)
(* keep it so, for any number of results, callers, attempts, outcomes,     *)
(* windows and faults.                                                     *)
(***************************************************************************)
EXTENDS Delivery, TLAPS

-----------------------------------------------------------------------------
(* The invariant *)

\* A caller with an outcome it has not queued, and a dispatch under way.
Queueing == {"suppress", "find", "join", "queue"}
Unsettled == {"start", "attempt", "send", "sent", "unsent", "deliver", "requeue", "arm",
              "refuse", "fail"}
Dispatching == Unsettled \cup {"delivered", "failed"}
Pcs == {"idle", "resolve", "arm window", "sleep", "mark", "digest", "close delivered",
        "close failed", "clear"} \cup Queueing \cup Dispatching

Names == Sources \cup Emitters \cup {"none"}
OutcomeType ==
  [source : Names, mode : {"suppressed", "digest", "immediate"},
   status : {"pending", "suppressed", "queued", "dispatching", "delivered", "failed"},
   window : WindowIds \cup {None}]
Marks == {"running", "delivered", "retryable", "terminal", "refused"}
AttemptType == [number : Nat, status : Marks]
WindowType ==
  [status : {"open", "dispatching", "delivered", "failed"}, count : Nat, over : BOOLEAN]
ThreadType ==
  [pc : Pcs, source : Names, d : Ids \cup {None}, n : Nat, a : Nat,
   w : WindowIds \cup {None}, count : Nat]

StoreType ==
  /\ outcomes \in Seq(OutcomeType) /\ Len(outcomes) <= MaxOutcomes
  /\ attempts \in Seq(Seq(AttemptType)) /\ Len(attempts) = Len(outcomes)
  /\ windows \in Seq(WindowType) /\ Len(windows) <= MaxWindows

Types ==
  /\ StoreType
  /\ thread \in [Threads -> ThreadType]
  /\ sends \in [Ids -> Nat] /\ faults \in Nat

\* A thread that may change its outcome: a retry does until it is over.
Works(t) ==
  thread[t].pc \in Queueing \cup Dispatching \/ (t \in Retries /\ thread[t].pc # "idle")

\* No two threads work on one outcome.
Apart ==
  \A t, u \in Threads : Works(t) /\ Works(u) /\ thread[t].d = thread[u].d => t = u

GaveUp(d) ==
  \/ Last(d).status = "refused"
  \/ Last(d).status = "terminal" /\ Len(attempts[d]) >= MaxAttempts

\* What a thread may rely on: of its outcome,
RowOK(t) ==
  LET pc == thread[t].pc
      d == thread[t].d
  IN /\ Works(t) => d \in DOMAIN outcomes
     /\ pc \in Queueing => outcomes[d].status = "pending"
     /\ pc \in {"queue", "arm window"} => thread[t].w # None
     /\ pc \in Dispatching => outcomes[d].mode # "digest"
     /\ pc \in Unsettled => outcomes[d].status \in {"pending", "queued", "dispatching"}
     /\ pc = "delivered" => outcomes[d].status = "delivered"
     /\ pc = "close delivered" => d \in DOMAIN outcomes /\ outcomes[d].status = "delivered"

\* of its attempts,
TriesOK(t) ==
  LET pc == thread[t].pc
      d == thread[t].d
  IN /\ pc \in {"attempt", "refuse"} => thread[t].n \in 1..(Len(attempts[d]) + 1)
     /\ pc \in {"send", "sent", "unsent"} =>
          /\ thread[t].a = Len(attempts[d]) /\ thread[t].a > 0
          /\ thread[t].n <= Len(attempts[d])
     /\ pc \in {"sent", "deliver"} => sends[d] > 0
     /\ pc = "deliver" => Last(d).status = "delivered"
     /\ pc = "fail" => GaveUp(d)

\* and that the outcome is its own.
OwnOK(t) ==
  LET pc == thread[t].pc
      d == thread[t].d
  IN /\ \A e \in Ids : t = Retry(e) /\ pc # "idle" => d = e /\ outcomes[d].mode # "digest"
     /\ \A w \in WindowIds : t = Emitter(w) /\ pc \in Dispatching \cup {"close delivered"} =>
          outcomes[d].source = Emitter(w)

ThreadOK(t) == RowOK(t) /\ TriesOK(t) /\ OwnOK(t)

\* Sent, and the store or the thread knows.
KnownSent(d) ==
  \/ outcomes[d].status = "delivered"
  \/ \E t \in Threads : thread[t].pc \in {"sent", "deliver"} /\ thread[t].d = d

OutcomeOK(d) ==
  /\ outcomes[d].status = "delivered" => sends[d] > 0 /\ Last(d).status = "delivered"
  /\ outcomes[d].status = "failed" => GaveUp(d)
  /\ outcomes[d].mode = "digest" =>
       sends[d] = 0 /\ (Unfinished(d) => outcomes[d].window # None)
  /\ sends[d] <= faults + 1
  /\ sends[d] <= faults \/ KnownSent(d)

WindowOK(w) ==
  windows[w].status = "delivered" =>
    \E d \in DOMAIN outcomes :
      outcomes[d].source = Emitter(w) /\ outcomes[d].status = "delivered"

Inv ==
  /\ Types
  /\ Apart
  /\ \A t \in Threads : ThreadOK(t)
  /\ \A d \in DOMAIN outcomes : OutcomeOK(d)
  /\ \A d \in Ids : d \notin DOMAIN outcomes => sends[d] = 0
  /\ \A w \in DOMAIN windows : WindowOK(w)

\* The highest number among an outcome's attempts is no more than there are,
\* however often the numbers started again.
Numbered(d) ==
  \E m \in 0..Len(attempts[d]) :
    /\ \A a \in DOMAIN attempts[d] : attempts[d][a].number <= m
    /\ m = 0 \/ \E a \in DOMAIN attempts[d] : attempts[d][a].number = m

Numbering == \A d \in DOMAIN outcomes : Numbered(d)

\* An emitter is under way only while its window, which is in the store, has an
\* entry; and the window a caller read is there.
Armed ==
  /\ \A w \in WindowIds : thread[Emitter(w)].pc # "idle" =>
       w \in window_scheduled /\ w \in DOMAIN windows
  /\ \A k \in Callers :
       thread[k].pc \in {"join", "queue", "arm window"} /\ thread[k].w # None =>
         thread[k].w \in DOMAIN windows

-----------------------------------------------------------------------------
(* Names of threads *)

LEMMA ThreadNames ==
  /\ \A d \in Ids, e \in Ids : Retry(d) \in Threads /\ (Retry(d) = Retry(e) => d = e)
  /\ \A v \in WindowIds, w \in WindowIds :
       Emitter(w) \in Threads /\ (Emitter(v) = Emitter(w) => v = w)
  /\ \A d \in Ids, w \in WindowIds : Retry(d) # Emitter(w)
  /\ \A k \in Callers :
       /\ k \in Threads /\ k \notin Retries /\ k \notin Emitters
       /\ \A d \in Ids : k # Retry(d)
       /\ \A w \in WindowIds : k # Emitter(w)
<1>1. \A d \in Ids : Retry(d) \in Retries /\ Retry(d)[1] = "retry" /\ Retry(d)[2] = d
  BY DEF Retry, Retries
<1>2. \A w \in WindowIds : Emitter(w) \in Emitters /\ Emitter(w)[1] = "window" /\ Emitter(w)[2] = w
  BY DEF Emitter, Emitters
<1>3. \A k \in Callers : k \notin Retries /\ k \notin Emitters
  BY DeliveryAssumption
<1>4. "retry" # "window" OBVIOUS
<1> HIDE DEF Retry, Emitter
<1> QED BY <1>1, <1>2, <1>3, <1>4 DEF Threads

LEMMA IdleTyped == Idle \in ThreadType /\ Idle.pc = "idle" /\ Idle.d = None
BY DEF Idle, At, ThreadType, Pcs, Names, None

LEMMA Domains ==
  ASSUME StoreType
  PROVE  /\ DOMAIN outcomes = 1..Len(outcomes) /\ DOMAIN attempts = DOMAIN outcomes
         /\ DOMAIN outcomes \subseteq Ids /\ Len(outcomes) \in Nat
         /\ DOMAIN windows = 1..Len(windows) /\ DOMAIN windows \subseteq WindowIds
         /\ Len(windows) \in Nat
         /\ \A d \in DOMAIN outcomes : outcomes[d] \in OutcomeType /\ attempts[d] \in Seq(AttemptType)
         /\ \A w \in DOMAIN windows : windows[w] \in WindowType
<1>1. /\ Len(outcomes) \in Nat /\ DOMAIN outcomes = 1..Len(outcomes)
      /\ Len(attempts) \in Nat /\ DOMAIN attempts = 1..Len(attempts)
      /\ Len(windows) \in Nat /\ DOMAIN windows = 1..Len(windows)
  BY DEF StoreType
<1>2. DOMAIN outcomes \subseteq Ids /\ DOMAIN windows \subseteq WindowIds
  BY <1>1, DeliveryAssumption DEF StoreType, Ids, WindowIds
<1>3. DOMAIN attempts = DOMAIN outcomes
  BY <1>1 DEF StoreType
<1> QED BY <1>1, <1>2, <1>3 DEF StoreType

-----------------------------------------------------------------------------
(* Three kinds of steps *)

\* A thread writes to the outcome it works on, and goes on or hands it over:
\* T are the threads that change.
LEMMA WorkStep ==
  ASSUME Inv, NEW T \in SUBSET Threads, NEW t \in T, NEW d \in Ids,
         Works(t), thread[t].d = d,
         Types', faults' = faults \/ faults' = faults + 1, windows' = windows,
         \A u \in Threads : u \notin T => thread'[u] = thread[u],
         \A u \in T : Works(u)' => thread'[u].d = d,
         \A u, v \in T : Works(u)' /\ Works(v)' => u = v,
         \A u \in T : u # t => thread[u].pc \notin {"sent", "deliver"},
         DOMAIN outcomes' = DOMAIN outcomes,
         \A e \in DOMAIN outcomes : e # d =>
           outcomes'[e] = outcomes[e] /\ attempts'[e] = attempts[e],
         \A e \in Ids : e # d => sends'[e] = sends[e],
         outcomes'[d].source = outcomes[d].source,
         outcomes[d].status = "delivered" => outcomes'[d].status = "delivered",
         \A u \in T : ThreadOK(u)',
         OutcomeOK(d)'
  PROVE  Inv'
<1>1. d \in DOMAIN outcomes
  BY Zenon DEF Inv, ThreadOK, RowOK
<1>2. Apart'
  BY DEF Inv, Apart, Works
<1>3. ASSUME NEW u \in Threads PROVE ThreadOK(u)'
  <2>1. CASE u \in T
    BY <2>1
  <2>2. CASE u \notin T
    <3>1. ThreadOK(u) /\ thread'[u] = thread[u] /\ (Works(u)' <=> Works(u))
      BY <2>2 DEF Inv, Works
    <3>2. CASE Works(u)
      <4>1. PICK e \in Ids : thread[u].d = e /\ e # d /\ e \in DOMAIN outcomes
        BY <2>2, <3>1, <3>2, Domains, Zenon DEF Inv, Apart, ThreadOK, RowOK, Types
      <4>2. outcomes'[e] = outcomes[e] /\ attempts'[e] = attempts[e] /\ sends'[e] = sends[e]
        BY <4>1
      <4>3. RowOK(u)'
        <5>1. /\ RowOK(u) /\ thread'[u] = thread[u] /\ (Works(u)' <=> Works(u))
              /\ outcomes'[thread[u].d] = outcomes[thread[u].d]
              /\ DOMAIN outcomes' = DOMAIN outcomes
          BY <3>1, <4>1, <4>2 DEF ThreadOK
        <5> QED BY <5>1, Zenon DEF RowOK
      <4>4. TriesOK(u)'
        BY <3>1, <4>1, <4>2 DEF ThreadOK, TriesOK, GaveUp, Last
      <4>5. OwnOK(u)'
        <5>1. OwnOK(u) /\ thread'[u] = thread[u] /\ outcomes'[thread[u].d] = outcomes[thread[u].d]
          BY <3>1, <4>1, <4>2 DEF ThreadOK
        <5> QED BY <5>1, ZenonT(30) DEF OwnOK
      <4> QED BY <4>3, <4>4, <4>5 DEF ThreadOK
    <3>3. CASE ~Works(u)
      <4>1. thread[u].pc \notin Queueing \cup Dispatching
        BY <3>3 DEF Works
      <4>2. \A e \in Ids : u = Retry(e) => thread[u].pc = "idle"
        BY <3>3 DEF Works, Retries
      <4>3. ASSUME thread[u].pc = "close delivered"
            PROVE  /\ thread[u].d \in DOMAIN outcomes
                   /\ outcomes'[thread[u].d].status = "delivered"
                   /\ outcomes'[thread[u].d].source = outcomes[thread[u].d].source
        <5>1. thread[u].d \in DOMAIN outcomes /\ outcomes[thread[u].d].status = "delivered"
          BY <3>1, <4>3, Zenon DEF ThreadOK, RowOK
        <5>2. PICK e \in DOMAIN outcomes : thread[u].d = e /\ outcomes[e].status = "delivered"
          BY <5>1
        <5>3. outcomes'[e].status = "delivered" /\ outcomes'[e].source = outcomes[e].source
          BY <5>2
        <5> QED BY <5>2, <5>3
      <4>4. RowOK(u)'
        <5>1. ~Works(u)' /\ thread'[u] = thread[u] /\ RowOK(u) /\ DOMAIN outcomes' = DOMAIN outcomes
          BY <3>1, <3>3 DEF ThreadOK
        <5> QED BY <4>1, <4>3, <5>1, Zenon DEF RowOK, Dispatching
      <4>5. TriesOK(u)'
        BY <3>1, <4>1 DEF TriesOK, Dispatching, Unsettled
      <4>6. OwnOK(u)'
        BY <3>1, <4>1, <4>2, <4>3, Zenon DEF ThreadOK, OwnOK
      <4> QED BY <4>4, <4>5, <4>6 DEF ThreadOK
    <3> QED BY <3>2, <3>3
  <2> QED BY <2>1, <2>2
<1>4. ASSUME NEW e \in DOMAIN outcomes' PROVE OutcomeOK(e)'
  <2>1. CASE e = d
    BY <2>1
  <2>2. CASE e # d
    <3>1. OutcomeOK(e) /\ e \in Ids
      BY Domains DEF Inv, Types
    <3>2. outcomes'[e] = outcomes[e] /\ attempts'[e] = attempts[e] /\ sends'[e] = sends[e]
      BY <2>2, <3>1
    <3>3. KnownSent(e) => KnownSent(e)'
      BY <2>2, <3>2 DEF KnownSent
    <3>4. /\ GaveUp(e)' <=> GaveUp(e)
          /\ Unfinished(e)' <=> Unfinished(e)
          /\ Last(e)' = Last(e)
      BY <3>2 DEF GaveUp, Last, Unfinished
    <3>5. OutcomeOK(e)' \/ ~(sends[e] <= faults' + 1 /\ (sends[e] <= faults' \/ ~(sends[e] <= faults)))
      BY <3>1, <3>2, <3>3, <3>4 DEF OutcomeOK
    <3>6. sends[e] \in Nat /\ faults \in Nat /\ sends[e] <= faults + 1
      BY <3>1 DEF OutcomeOK, Inv, Types
    <3> QED BY <3>5, <3>6
  <2> QED BY <2>1, <2>2
<1>5. \A e \in Ids : e \notin DOMAIN outcomes' => sends'[e] = 0
  BY <1>1 DEF Inv
<1>6. \A w \in DOMAIN windows' : WindowOK(w)'
  BY DEF Inv, WindowOK
<1> QED BY <1>2, <1>3, <1>4, <1>5, <1>6 DEF Inv

\* Threads write to no outcome, and start no work.
LEMMA QuietStep ==
  ASSUME Inv, NEW T \in SUBSET Threads,
         Types', faults' = faults \/ faults' = faults + 1,
         UNCHANGED <<outcomes, attempts, sends>>,
         \A u \in Threads : u \notin T => thread'[u] = thread[u],
         \A u \in T : thread[u].pc \notin {"sent", "deliver"},
         \A u \in T : Works(u)' => Works(u) /\ thread'[u].d = thread[u].d,
         \A u \in T : ThreadOK(u)',
         \A w \in DOMAIN windows' : WindowOK(w)'
  PROVE  Inv'
<1>2. Apart'
  BY DEF Inv, Apart, Works
<1>3. ASSUME NEW u \in Threads PROVE ThreadOK(u)'
  <2>1. CASE u \in T
    BY <2>1
  <2>2. CASE u \notin T
    <3>1. ThreadOK(u) /\ thread'[u] = thread[u]
      BY <2>2 DEF Inv
    <3> QED BY <3>1, ZenonT(30) DEF ThreadOK, RowOK, TriesOK, OwnOK, GaveUp, Last, Works
  <2> QED BY <2>1, <2>2
<1>4. ASSUME NEW e \in DOMAIN outcomes PROVE OutcomeOK(e)'
  <2>1. OutcomeOK(e)
    BY DEF Inv
  <2>2. KnownSent(e) => KnownSent(e)'
    BY DEF KnownSent
  <2>3. e \in Ids /\ sends[e] \in Nat /\ faults \in Nat /\ sends[e] <= faults + 1
    BY <2>1, Domains DEF OutcomeOK, Inv, Types
  <2>4. sends[e] <= faults' + 1 /\ (sends[e] <= faults => sends[e] <= faults')
    BY <2>3
  <2> QED BY <2>1, <2>2, <2>4 DEF OutcomeOK, Unfinished, GaveUp, Last
<1> QED BY <1>2, <1>3, <1>4 DEF Inv

\* A thread makes an outcome and works on it from here on.
LEMMA NewStep ==
  ASSUME Inv, NEW t \in Threads, t \notin Retries, thread[t].pc \notin {"sent", "deliver"},
         NEW d \in Ids, d = Len(outcomes) + 1,
         Types', faults' = faults, UNCHANGED <<windows, sends>>,
         \A u \in Threads : u # t => thread'[u] = thread[u],
         DOMAIN outcomes' = DOMAIN outcomes \cup {d},
         \A e \in DOMAIN outcomes : outcomes'[e] = outcomes[e] /\ attempts'[e] = attempts[e],
         outcomes'[d].status = "pending",
         thread'[t].d = d, ThreadOK(t)'
  PROVE  Inv'
<1> USE Domains
<1>1. /\ d \notin DOMAIN outcomes /\ sends[d] = 0
      /\ \A e \in DOMAIN outcomes : e \in Ids /\ e # d
  BY DEF Inv, Types
<1>2. Apart'
  <2>1. \A u \in Threads : u # t /\ Works(u) => thread[u].d # d
    BY <1>1, Zenon DEF Inv, ThreadOK, RowOK
  <2> QED BY <2>1 DEF Inv, Apart, Works
<1>3. ASSUME NEW u \in Threads PROVE ThreadOK(u)'
  <2>1. CASE u = t
    BY <2>1
  <2>2. CASE u # t
    <3>1. ThreadOK(u) /\ thread'[u] = thread[u] /\ (Works(u)' <=> Works(u))
      BY <2>2 DEF Inv, Works
    <3>2. CASE Works(u) \/ thread[u].pc = "close delivered"
      <4>1. thread[u].d \in DOMAIN outcomes
        BY <3>1, <3>2, Zenon DEF ThreadOK, RowOK
      <4>2. /\ outcomes'[thread[u].d] = outcomes[thread[u].d]
            /\ attempts'[thread[u].d] = attempts[thread[u].d]
            /\ thread[u].d \in DOMAIN outcomes'
        BY <4>1
      <4>3. RowOK(u)'
        BY <3>1, <4>2, ZenonT(30) DEF ThreadOK, RowOK
      <4>4. TriesOK(u)'
        BY <3>1, <4>2 DEF ThreadOK, TriesOK, GaveUp, Last
      <4>5. OwnOK(u)'
        BY <3>1, <4>2, ZenonT(30) DEF ThreadOK, OwnOK
      <4> QED BY <4>3, <4>4, <4>5 DEF ThreadOK
    <3>3. CASE ~Works(u) /\ thread[u].pc # "close delivered"
      <4>1. thread[u].pc \notin Queueing \cup Dispatching
        BY <3>3, Zenon DEF Works
      <4>2. \A e \in Ids : u = Retry(e) => thread[u].pc = "idle"
        BY <3>3, Zenon DEF Works, Retries
      <4> QED BY <3>1, <3>3, <4>1, <4>2, Zenon
             DEF ThreadOK, RowOK, TriesOK, OwnOK, Queueing, Dispatching, Unsettled
    <3> QED BY <3>2, <3>3, Zenon
  <2> QED BY <2>1, <2>2
<1>4. ASSUME NEW e \in DOMAIN outcomes' PROVE OutcomeOK(e)'
  <2>1. CASE e = d
    BY <2>1, <1>1 DEF OutcomeOK, Unfinished, Inv, Types
  <2>2. CASE e # d
    <3>1. OutcomeOK(e) /\ outcomes'[e] = outcomes[e] /\ attempts'[e] = attempts[e]
      BY <2>2, ZenonT(30) DEF Inv
    <3>2. KnownSent(e) => KnownSent(e)'
      BY <3>1 DEF KnownSent
    <3>3. /\ GaveUp(e)' <=> GaveUp(e)
          /\ Unfinished(e)' <=> Unfinished(e)
          /\ Last(e)' = Last(e)
      BY <3>1 DEF GaveUp, Last, Unfinished
    <3> QED BY <3>1, <3>2, <3>3, ZenonT(30) DEF OutcomeOK
  <2> QED BY <2>1, <2>2, SMTT(30)
<1>5. \A w \in DOMAIN windows' : WindowOK(w)'
  BY DEF Inv, WindowOK
<1> QED BY <1>2, <1>3, <1>4, <1>5 DEF Inv

-----------------------------------------------------------------------------
(* Writes *)

LEMMA RowSet ==
  ASSUME StoreType, NEW d \in DOMAIN outcomes, UNCHANGED <<attempts, windows>>,
         NEW s \in {"pending", "suppressed", "queued", "dispatching", "delivered", "failed"},
         SetStatus(d, s)
  PROVE  /\ StoreType' /\ DOMAIN outcomes' = DOMAIN outcomes
         /\ \A e \in DOMAIN outcomes : e # d => outcomes'[e] = outcomes[e]
         /\ outcomes'[d].status = s /\ outcomes'[d].source = outcomes[d].source
         /\ outcomes'[d].mode = outcomes[d].mode /\ outcomes'[d].window = outcomes[d].window
<1> DEFINE row == [outcomes[d] EXCEPT !.status = s]
<1>1. outcomes[d] \in OutcomeType /\ outcomes' = [outcomes EXCEPT ![d] = row]
  BY DEF StoreType, SetStatus
<1>2. /\ row \in OutcomeType /\ row.status = s /\ row.source = outcomes[d].source
      /\ row.mode = outcomes[d].mode /\ row.window = outcomes[d].window
  BY <1>1 DEF OutcomeType
<1> HIDE DEF row
<1>3. outcomes' \in Seq(OutcomeType) /\ Len(outcomes') = Len(outcomes)
  BY <1>1, <1>2 DEF StoreType
<1> QED BY <1>1, <1>2, <1>3 DEF StoreType

LEMMA AttemptAdded ==
  ASSUME StoreType, NEW t \in Threads, NEW d \in DOMAIN outcomes, NEW n \in Nat,
         thread[t].d = d, thread[t].n = n,
         NEW s \in Marks, AddAttempt(t, s), UNCHANGED <<outcomes, windows>>
  PROVE  /\ StoreType' /\ Len(attempts'[d]) = Len(attempts[d]) + 1 /\ (Last(d).status)' = s
         /\ \A e \in DOMAIN outcomes : e # d => attempts'[e] = attempts[e]
         /\ \A a \in 1..Len(attempts[d]) : attempts'[d][a] = attempts[d][a]
         /\ attempts'[d][Len(attempts[d]) + 1].number = n
         /\ attempts'[d] \in Seq(AttemptType)
<1> DEFINE row == [number |-> n, status |-> s]
           new == Append(attempts[d], row)
<1>1. /\ attempts' = [attempts EXCEPT ![d] = new] /\ attempts[d] \in Seq(AttemptType)
      /\ d \in DOMAIN attempts /\ DOMAIN attempts = DOMAIN outcomes
  BY Domains DEF AddAttempt
<1>2. row \in AttemptType /\ row.number = n /\ row.status = s
  BY DEF AttemptType
<1> HIDE DEF row
<1>3. /\ new \in Seq(AttemptType) /\ Len(new) = Len(attempts[d]) + 1
      /\ new[Len(attempts[d]) + 1] = row
      /\ \A a \in 1..Len(attempts[d]) : new[a] = attempts[d][a]
  BY <1>1, <1>2
<1> HIDE DEF new
<1>4. attempts'[d] = new /\ \A e \in DOMAIN outcomes : e # d => attempts'[e] = attempts[e]
  BY <1>1
<1>5. attempts' \in Seq(Seq(AttemptType)) /\ Len(attempts') = Len(attempts)
  BY <1>1, <1>3 DEF StoreType
<1>6. StoreType'
  BY <1>5 DEF StoreType
<1>7. (Last(d).status)' = s
  BY <1>2, <1>3, <1>4, Zenon DEF Last
<1> QED BY <1>2, <1>3, <1>4, <1>6, <1>7, Zenon

LEMMA AttemptStored ==
  ASSUME StoreType, NEW t \in Threads, NEW d \in DOMAIN outcomes, NEW k \in Nat \ {0},
         thread[t].d = d, thread[t].a = k, k = Len(attempts[d]),
         NEW s \in Marks, StoreAttempt(t, s), UNCHANGED <<outcomes, windows>>
  PROVE  /\ StoreType' /\ Len(attempts'[d]) = Len(attempts[d]) /\ (Last(d).status)' = s
         /\ \A e \in DOMAIN outcomes : e # d => attempts'[e] = attempts[e]
         /\ \A a \in DOMAIN attempts[d] : attempts'[d][a].number = attempts[d][a].number
         /\ attempts'[d] \in Seq(AttemptType)
<1>1. /\ attempts[d] \in Seq(AttemptType) /\ d \in DOMAIN attempts
      /\ DOMAIN attempts = DOMAIN outcomes
  BY Domains
<1>2. PICK q \in AttemptType : attempts[d][k] = q /\ k \in DOMAIN attempts[d]
  BY <1>1
<1> DEFINE row == [q EXCEPT !.status = s]
           new == [attempts[d] EXCEPT ![k] = row]
<1>3. attempts' = [attempts EXCEPT ![d] = new]
  BY <1>1, <1>2, Zenon DEF StoreAttempt
<1>4. row \in AttemptType /\ row.number = q.number /\ row.status = s
  BY <1>2 DEF AttemptType
<1> HIDE DEF row
<1>5. /\ new \in Seq(AttemptType) /\ Len(new) = Len(attempts[d]) /\ new[k] = row
      /\ \A a \in DOMAIN attempts[d] : a # k => new[a] = attempts[d][a]
  BY <1>1, <1>2, <1>4
<1> HIDE DEF new
<1>6. attempts'[d] = new /\ \A e \in DOMAIN outcomes : e # d => attempts'[e] = attempts[e]
  BY <1>1, <1>3
<1>7. attempts' \in Seq(Seq(AttemptType)) /\ Len(attempts') = Len(attempts)
  BY <1>1, <1>3, <1>5 DEF StoreType
<1>8. \A a \in DOMAIN attempts[d] : attempts'[d][a].number = attempts[d][a].number
  BY <1>2, <1>4, <1>5, <1>6
<1> QED BY <1>4, <1>5, <1>6, <1>7, <1>8 DEF StoreType, Last

LEMMA NumbersTyped ==
  ASSUME NEW q \in Seq(AttemptType)
  PROVE  \A a \in DOMAIN q : q[a].number \in Nat
<1>1. \A row \in AttemptType : row.number \in Nat
  BY DEF AttemptType
<1>2. \A a \in DOMAIN q : q[a] \in AttemptType
  OBVIOUS
<1> QED BY <1>1, <1>2, Zenon

\* next_attempt_number returns a number from 1 to one more than there are attempts.
LEMMA NextInRange ==
  ASSUME StoreType, NEW d \in DOMAIN outcomes, Numbered(d)
  PROVE  NextNumber(d) \in 1..(Len(attempts[d]) + 1) /\ Len(attempts[d]) \in Nat
<1> DEFINE S == {0} \cup {attempts[d][a].number : a \in DOMAIN attempts[d]}
<1>1. attempts[d] \in Seq(AttemptType) /\ Len(attempts[d]) \in Nat
  BY Domains
<1>2. PICK m \in 0..Len(attempts[d]) :
        /\ \A a \in DOMAIN attempts[d] : attempts[d][a].number <= m
        /\ m = 0 \/ \E a \in DOMAIN attempts[d] : attempts[d][a].number = m
  BY DEF Numbered
<1>3. \A x \in S : x \in Nat /\ x <= m
  <2>1. \A a \in DOMAIN attempts[d] : attempts[d][a].number \in Nat
    BY <1>1, NumbersTyped
  <2>2. 0 \in Nat /\ 0 <= m
    BY <1>1, <1>2
  <2> QED BY <1>2, <2>1, <2>2, Zenon
<1>4. m \in S
  BY <1>2
<1>5. NextNumber(d) = Max(S) + 1
  BY DEF NextNumber
<1> HIDE DEF S
<1>6. \A y \in S : m >= y
  BY <1>1, <1>3
<1>7. Max(S) \in S
  BY <1>4, <1>6, Zenon DEF Max
<1> QED BY <1>1, <1>3, <1>5, <1>7

LEMMA GoesTyped ==
  ASSUME thread \in [Threads -> ThreadType], NEW t \in Threads, NEW pc \in Pcs, Goes(t, pc)
  PROVE  /\ thread' \in [Threads -> ThreadType]
         /\ \A u \in Threads : u # t => thread'[u] = thread[u]
         /\ thread'[t].pc = pc /\ thread'[t].d = thread[t].d /\ thread'[t].n = thread[t].n
         /\ thread'[t].a = thread[t].a /\ thread'[t].w = thread[t].w
BY DEF Goes, ThreadType

\* What a thread knows of the outcome it works on; with nothing sent that it
\* does not know of.
LEMMA WorkFacts ==
  ASSUME Inv, NEW t \in Threads, thread[t].pc \in Queueing \cup Dispatching
  PROVE  /\ Works(t) /\ ThreadOK(t)
         /\ thread[t].d \in DOMAIN outcomes /\ thread[t].d \in Ids
         /\ OutcomeOK(thread[t].d)
         /\ (thread[t].pc \in Queueing \cup (Unsettled \ {"sent", "deliver"}) =>
               sends[thread[t].d] <= faults)
<1>1. Works(t) /\ ThreadOK(t)
  BY DEF Works, Inv
<1>2. PICK d \in DOMAIN outcomes : thread[t].d = d /\ d \in Ids /\ OutcomeOK(d)
  BY <1>1, Domains, Zenon DEF ThreadOK, RowOK, Inv, Types
<1>3. ASSUME thread[t].pc \in Queueing \cup (Unsettled \ {"sent", "deliver"}) PROVE ~KnownSent(d)
  <2>1. outcomes[d].status # "delivered"
    BY <1>1, <1>2, <1>3, Zenon DEF ThreadOK, RowOK, Queueing, Unsettled
  <2>2. ASSUME NEW u \in Threads, thread[u].pc \in {"sent", "deliver"}, thread[u].d = d
        PROVE  FALSE
    <3>1. Works(u)
      BY <2>2 DEF Works, Dispatching, Unsettled
    <3>2. u = t
      BY <1>1, <1>2, <2>2, <3>1, ZenonT(30) DEF Inv, Apart
    <3> QED BY <1>3, <2>2, <3>2 DEF Queueing, Unsettled
  <2> QED BY <2>1, <2>2 DEF KnownSent
<1> QED BY <1>1, <1>2, <1>3 DEF OutcomeOK

-----------------------------------------------------------------------------
(* dispatch_attempt *)

\* A dispatch goes on.
LEMMA DispatchGoesOn ==
  ASSUME Inv, NEW t \in Threads, NEW d \in DOMAIN outcomes,
         thread[t].pc \in Dispatching, thread[t].d = d,
         Types', faults' = faults \/ faults' = faults + 1, windows' = windows,
         \A u \in Threads : u # t => thread'[u] = thread[u],
         thread'[t].d = d,
         DOMAIN outcomes' = DOMAIN outcomes,
         \A e \in DOMAIN outcomes : e # d =>
           outcomes'[e] = outcomes[e] /\ attempts'[e] = attempts[e],
         \A e \in Ids : e # d => sends'[e] = sends[e],
         outcomes'[d].source = outcomes[d].source, outcomes'[d].mode = outcomes[d].mode,
         outcomes[d].status = "delivered" => outcomes'[d].status = "delivered",
         RowOK(t)', TriesOK(t)', OutcomeOK(d)'
  PROVE  Inv'
<1>1. Works(t) /\ OwnOK(t) /\ d \in Ids
  BY WorkFacts DEF ThreadOK
<1>2. OwnOK(t)'
  BY <1>1, ZenonT(30) DEF OwnOK, Dispatching, Unsettled
<1>3. ThreadOK(t)'
  BY <1>2 DEF ThreadOK
<1> DEFINE T == {t}
<1>4. /\ T \in SUBSET Threads /\ t \in T
      /\ \A u \in Threads : u \notin T => thread'[u] = thread[u]
      /\ \A u \in T : u = t
  OBVIOUS
<1>5. \A u \in T : ThreadOK(u)'
  BY <1>3, <1>4
<1> HIDE DEF T
<1> QED BY <1>1, <1>4, <1>5, WorkStep, ZenonT(30)

\* What a dispatch under way knows.
LEMMA UnsettledFacts ==
  ASSUME Inv, NEW t \in Threads, thread[t].pc \in Unsettled
  PROVE  \E d \in DOMAIN outcomes :
           /\ thread[t].d = d /\ d \in Ids /\ OutcomeOK(d)
           /\ TriesOK(t) /\ outcomes[d].mode # "digest"
           /\ outcomes[d].status \in {"pending", "queued", "dispatching"}
           /\ (thread[t].pc \notin {"sent", "deliver"} => sends[d] <= faults)
           /\ sends[d] <= faults + 1 /\ sends[d] \in Nat /\ faults \in Nat
           /\ attempts[d] \in Seq(AttemptType) /\ Len(attempts[d]) \in Nat
           /\ thread[t].n \in Nat
<1>1. ThreadOK(t) /\ thread[t].d \in DOMAIN outcomes /\ thread[t].d \in Ids
  BY WorkFacts DEF Dispatching
<1>2. PICK d \in DOMAIN outcomes : thread[t].d = d /\ d \in Ids
  BY <1>1
<1>3. OutcomeOK(d) /\ (thread[t].pc \notin {"sent", "deliver"} => sends[d] <= faults)
  BY <1>2, WorkFacts DEF Dispatching
<1>4. /\ TriesOK(t) /\ outcomes[d].mode # "digest"
      /\ outcomes[d].status \in {"pending", "queued", "dispatching"}
  BY <1>1, <1>2, Zenon DEF ThreadOK, RowOK, Dispatching
<1>5. sends[d] <= faults + 1 /\ sends[d] \in Nat /\ faults \in Nat
  BY <1>2, <1>3 DEF OutcomeOK, Inv, Types
<1>6. attempts[d] \in Seq(AttemptType) /\ Len(attempts[d]) \in Nat /\ thread[t].n \in Nat
  BY Domains, SMTT(30) DEF Inv, Types, ThreadType
<1> QED BY <1>2, <1>3, <1>4, <1>5, <1>6

\* What next_attempt_number makes of a thread.
LEMMA NumberTaken ==
  ASSUME Inv, Numbering, NEW t \in Threads, NEW d \in DOMAIN outcomes, thread[t].d = d,
         NEW pc \in Pcs, NextAttempt(t, pc)
  PROVE  /\ thread' \in [Threads -> ThreadType]
         /\ \A u \in Threads : u # t => thread'[u] = thread[u]
         /\ thread'[t].pc = pc /\ thread'[t].d = d
         /\ thread'[t].n \in 1..(Len(attempts[d]) + 1)
         /\ faults' = faults \/ faults' = faults + 1
<1>1. StoreType /\ thread \in [Threads -> ThreadType]
  BY DEF Inv, Types
<1>2. NextNumber(d) \in 1..(Len(attempts[d]) + 1) /\ Len(attempts[d]) \in Nat
  BY <1>1, NextInRange DEF Numbering
<1>3. PICK n \in 1..(Len(attempts[d]) + 1) :
        thread' = [thread EXCEPT ![t].pc = pc, ![t].n = n]
  <2>1. 1 \in 1..(Len(attempts[d]) + 1)
    BY <1>2
  <2> QED BY <1>2, <2>1, Zenon DEF NextAttempt
<1>4. PICK q \in ThreadType : thread[t] = q /\ q.d = d
  BY <1>1
<1> DEFINE p == [q EXCEPT !.pc = pc]
           r == [p EXCEPT !.n = n]
<1>5. thread' = [thread EXCEPT ![t] = r]
  BY <1>1, <1>3, <1>4, Zenon
<1>6. p \in ThreadType /\ p.pc = pc /\ p.d = d
  BY <1>4 DEF ThreadType
<1>7. r \in ThreadType /\ r.pc = pc /\ r.d = d /\ r.n = n
  <2> HIDE DEF p
  <2>1. n \in Nat
    BY <1>2, <1>3
  <2> QED BY <1>6, <2>1 DEF ThreadType
<1> HIDE DEF p, r
<1>8. faults' = faults \/ faults' = faults + 1
  BY Zenon DEF NextAttempt, Fault
<1>9. /\ thread' \in [Threads -> ThreadType] /\ thread'[t] = r
      /\ \A u \in Threads : u # t => thread'[u] = thread[u]
  BY <1>1, <1>5, <1>7, Zenon
<1> QED BY <1>3, <1>7, <1>8, <1>9, Zenon

LEMMA StartStep == ASSUME Inv, Numbering, NEW t \in Threads, Start(t) PROVE Inv'
<1>1. thread[t].pc = "start" /\ thread[t].pc \in Unsettled /\ thread[t].pc \in Dispatching
  BY ZenonT(30) DEF Start, Unsettled, Dispatching
<1>2. PICK d \in DOMAIN outcomes :
        /\ thread[t].d = d /\ d \in Ids /\ outcomes[d].mode # "digest"
        /\ outcomes[d].status \in {"pending", "queued", "dispatching"}
        /\ sends[d] <= faults /\ sends[d] \in Nat /\ faults \in Nat
  BY <1>1, UnsettledFacts
<1>3. PICK pc \in {"attempt", "refuse"} : NextAttempt(t, pc)
  BY Zenon DEF Start
<1>4. /\ thread' \in [Threads -> ThreadType]
      /\ \A u \in Threads : u # t => thread'[u] = thread[u]
      /\ thread'[t].pc = pc /\ thread'[t].d = d
      /\ thread'[t].n \in 1..(Len(attempts[d]) + 1)
      /\ faults' = faults \/ faults' = faults + 1
  <2>1. pc \in Pcs
    BY Zenon DEF Pcs, Dispatching, Unsettled
  <2> QED BY <1>2, <1>3, <2>1, NumberTaken
<1>5. SetStatus(d, "dispatching") /\ UNCHANGED <<attempts, windows, sends>>
  BY <1>2, ZenonT(30) DEF Start
<1>6. /\ StoreType' /\ DOMAIN outcomes' = DOMAIN outcomes
      /\ \A e \in DOMAIN outcomes : e # d => outcomes'[e] = outcomes[e]
      /\ outcomes'[d].status = "dispatching" /\ outcomes'[d].source = outcomes[d].source
      /\ outcomes'[d].mode = outcomes[d].mode
  BY <1>5, RowSet DEF Inv, Types
<1>7. RowOK(t)'
  BY <1>2, <1>4, <1>6, Zenon DEF RowOK, Queueing, Dispatching, Unsettled
<1>8. TriesOK(t)'
  <2>1. attempts' = attempts
    BY <1>5
  <2> QED BY <1>4, <2>1, ZenonT(30) DEF TriesOK
<1>9. OutcomeOK(d)'
  <2>1. sends'[d] <= faults' /\ sends'[d] <= faults' + 1
    BY <1>2, <1>4, <1>5
  <2> QED BY <1>2, <1>6, <2>1, Zenon DEF OutcomeOK
<1>10. Types'
  <2>1. faults' \in Nat
    BY <1>2, <1>4
  <2> QED BY <1>4, <1>5, <1>6, <2>1, ZenonT(30) DEF Types, Inv
<1> QED BY <1>1, <1>2, <1>4, <1>5, <1>6, <1>7, <1>8, <1>9, <1>10, DispatchGoesOn

\* A record of the attempt is stored.
LEMMA TriedStep ==
  ASSUME Inv, NEW t \in Threads, NEW from \in Unsettled, thread[t].pc = from,
         NEW d \in DOMAIN outcomes, thread[t].d = d, NEW s \in Marks, NEW pc \in Unsettled,
         StoreType', (Last(d).status)' = s,
         \A e \in DOMAIN outcomes : e # d => attempts'[e] = attempts[e],
         UNCHANGED <<outcomes, windows, sends, faults>>,
         thread' \in [Threads -> ThreadType],
         \A u \in Threads : u # t => thread'[u] = thread[u],
         thread'[t].pc = pc, thread'[t].d = d,
         from \in {"attempt", "refuse", "send", "sent", "unsent"},
         from = "sent" <=> pc = "deliver", from = "sent" => s = "delivered",
         pc \in {"send", "deliver", "requeue", "fail"},
         pc = "send" => /\ thread'[t].a = Len(attempts'[d]) /\ thread'[t].a > 0
                        /\ thread'[t].n <= Len(attempts'[d]),
         pc = "fail" => s = "refused" \/ (s = "terminal" /\ Len(attempts'[d]) >= MaxAttempts)
  PROVE  Inv'
<1>1. thread[t].pc \in Dispatching
  BY ZenonT(30) DEF Dispatching
<1>2. /\ d \in Ids /\ outcomes[d].mode # "digest"
      /\ outcomes[d].status \in {"pending", "queued", "dispatching"}
      /\ TriesOK(t)
      /\ (from \notin {"sent", "deliver"} => sends[d] <= faults)
      /\ sends[d] <= faults + 1
  BY UnsettledFacts, ZenonT(30)
<1>3. RowOK(t)'
  BY <1>2, Zenon DEF RowOK, Queueing, Dispatching, Unsettled
<1>4. TriesOK(t)'
  <2>1. from = "sent" => sends[d] > 0
    BY <1>2, ZenonT(30) DEF TriesOK
  <2>2. pc = "fail" => GaveUp(d)'
    BY DEF GaveUp
  <2> QED BY <2>1, <2>2, SMTT(30) DEF TriesOK
<1>5. OutcomeOK(d)'
  <2>1. from = "sent" => KnownSent(d)'
    BY ZenonT(30) DEF KnownSent
  <2>2. sends[d] <= faults \/ KnownSent(d)'
    BY <1>2, <2>1, ZenonT(30)
  <2> QED BY <1>2, <2>2 DEF OutcomeOK
<1>6. Types'
  BY DEF Types, Inv
<1> QED BY <1>1, <1>2, <1>3, <1>4, <1>5, <1>6, DispatchGoesOn

\* A first record of it,
LEMMA AddedSteps ==
  ASSUME Inv, NEW t \in Threads, Attempt(t) \/ Refuse(t)
  PROVE  Inv'
<1>1. thread[t].pc \in {"attempt", "refuse"} /\ thread[t].pc \in Unsettled
  BY DEF Attempt, Refuse, Unsettled
<1>2. PICK d \in DOMAIN outcomes :
        /\ thread[t].d = d /\ TriesOK(t)
        /\ attempts[d] \in Seq(AttemptType) /\ Len(attempts[d]) \in Nat /\ thread[t].n \in Nat
  BY <1>1, UnsettledFacts, ZenonT(30)
<1>3. thread[t].n <= Len(attempts[d]) + 1
  BY <1>1, <1>2 DEF TriesOK
<1>4. UNCHANGED <<outcomes, windows, sends, faults>>
  BY DEF Attempt, Refuse
<1>5. StoreType /\ thread \in [Threads -> ThreadType]
  BY DEF Inv, Types
<1>6. CASE Attempt(t)
  <2>1. /\ AddAttempt(t, "running") /\ thread[t].pc = "attempt"
        /\ thread' = [thread EXCEPT ![t].pc = "send", ![t].a = Len(attempts[d]) + 1]
    BY <1>2, <1>6 DEF Attempt
  <2>2. /\ StoreType' /\ Len(attempts'[d]) = Len(attempts[d]) + 1
        /\ (Last(d).status)' = "running"
        /\ \A e \in DOMAIN outcomes : e # d => attempts'[e] = attempts[e]
    BY <1>2, <1>4, <1>5, <2>1, AttemptAdded DEF Marks
  <2>3. PICK q \in ThreadType : thread[t] = q /\ q.d = d /\ q.n = thread[t].n
    BY <1>2, <1>5
  <2>4. PICK k \in Nat : k = Len(attempts[d]) + 1
    BY <1>2
  <2> DEFINE p == [q EXCEPT !.pc = "send"]
             r == [p EXCEPT !.a = k]
  <2>5. thread' = [thread EXCEPT ![t] = r]
    BY <1>5, <2>1, <2>3, <2>4, Zenon
  <2>6. p \in ThreadType /\ p.pc = "send" /\ p.d = d /\ p.n = q.n
    BY <2>3, Zenon DEF ThreadType, Pcs, Dispatching, Unsettled
  <2>7. r \in ThreadType /\ r.pc = "send" /\ r.d = d /\ r.n = q.n /\ r.a = k
    <3> HIDE DEF p
    <3> QED BY <2>6 DEF ThreadType
  <2> HIDE DEF p, r
  <2>8. /\ thread' \in [Threads -> ThreadType] /\ thread'[t] = r
        /\ \A u \in Threads : u # t => thread'[u] = thread[u]
    BY <1>5, <2>5, <2>7, Zenon
  <2>9. /\ thread'[t].a = Len(attempts'[d]) /\ thread'[t].a > 0
        /\ thread'[t].n <= Len(attempts'[d])
    BY <1>2, <1>3, <2>2, <2>3, <2>4, <2>7, <2>8
  <2>10. "running" \in Marks /\ "send" \in Unsettled
    BY DEF Marks, Unsettled
  <2> QED BY <1>1, <1>2, <1>4, <2>1, <2>2, <2>7, <2>8, <2>9, <2>10, TriedStep
<1>7. CASE Refuse(t)
  <2>1. AddAttempt(t, "refused") /\ thread[t].pc = "refuse" /\ Goes(t, "fail")
    BY <1>7 DEF Refuse
  <2>2. /\ StoreType' /\ (Last(d).status)' = "refused"
        /\ \A e \in DOMAIN outcomes : e # d => attempts'[e] = attempts[e]
    BY <1>2, <1>4, <1>5, <2>1, AttemptAdded DEF Marks
  <2>3. /\ thread' \in [Threads -> ThreadType]
        /\ \A u \in Threads : u # t => thread'[u] = thread[u]
        /\ thread'[t].pc = "fail" /\ thread'[t].d = d
    BY <1>2, <1>5, <2>1, GoesTyped, Zenon DEF Pcs, Dispatching, Unsettled
  <2>4. "refused" \in Marks /\ "fail" \in Unsettled
    BY DEF Marks, Unsettled
  <2> QED BY <1>1, <1>2, <1>4, <2>1, <2>2, <2>3, <2>4, TriedStep
<1> QED BY <1>6, <1>7

\* and what became of it.
LEMMA RecordSteps ==
  ASSUME Inv, NEW t \in Threads, RecordSent(t) \/ RecordUnsent(t)
  PROVE  Inv'
<1>1. thread[t].pc \in {"sent", "unsent"} /\ thread[t].pc \in Unsettled
  BY DEF RecordSent, RecordUnsent, Unsettled
<1>2. PICK d \in DOMAIN outcomes :
        /\ thread[t].d = d /\ TriesOK(t)
        /\ attempts[d] \in Seq(AttemptType) /\ Len(attempts[d]) \in Nat /\ thread[t].n \in Nat
  BY <1>1, UnsettledFacts, ZenonT(30)
<1>3. PICK k \in Nat \ {0} :
        thread[t].a = k /\ k = Len(attempts[d]) /\ thread[t].n <= Len(attempts[d])
  BY <1>1, <1>2 DEF TriesOK
<1>4. UNCHANGED <<outcomes, windows, sends, faults>>
  BY DEF RecordSent, RecordUnsent
<1>5. StoreType /\ thread \in [Threads -> ThreadType]
  BY DEF Inv, Types
<1>6. ASSUME NEW s \in {"delivered", "retryable", "terminal"},
             NEW pc \in {"deliver", "requeue", "fail"},
             StoreAttempt(t, s), Goes(t, pc),
             thread[t].pc = "sent" <=> pc = "deliver", thread[t].pc = "sent" => s = "delivered",
             pc = "fail" => s = "terminal" /\ thread[t].n >= MaxAttempts
      PROVE  Inv'
  <2>1. s \in Marks /\ pc \in Unsettled /\ pc \in Pcs
    BY ZenonT(30) DEF Marks, Unsettled, Pcs, Dispatching
  <2>2. /\ StoreType' /\ Len(attempts'[d]) = Len(attempts[d]) /\ (Last(d).status)' = s
        /\ \A e \in DOMAIN outcomes : e # d => attempts'[e] = attempts[e]
    <3>1. /\ thread[t].d = d /\ thread[t].a = k /\ k = Len(attempts[d]) /\ StoreAttempt(t, s)
          /\ StoreType /\ UNCHANGED <<outcomes, windows>> /\ s \in Marks
      BY <1>2, <1>3, <1>4, <1>5, <1>6, <2>1
    <3> QED BY <3>1, AttemptStored
  <2>3. /\ thread' \in [Threads -> ThreadType]
        /\ \A u \in Threads : u # t => thread'[u] = thread[u]
        /\ thread'[t].pc = pc /\ thread'[t].d = d
    BY <1>2, <1>5, <1>6, <2>1, GoesTyped, Zenon
  <2>4. pc = "fail" => s = "terminal" /\ Len(attempts'[d]) >= MaxAttempts
    BY <1>2, <1>3, <1>6, <2>2, DeliveryAssumption
  <2> QED BY <1>1, <1>2, <1>4, <1>6, <2>1, <2>2, <2>3, <2>4, TriedStep
<1>7. CASE RecordSent(t)
  BY <1>6, <1>7 DEF RecordSent
<1>8. CASE RecordUnsent(t)
  <2>1. CASE thread[t].n < MaxAttempts
    BY <1>6, <1>8, <2>1 DEF RecordUnsent
  <2>2. CASE ~(thread[t].n < MaxAttempts)
    <3>1. thread[t].n >= MaxAttempts
      BY <1>2, <2>2, DeliveryAssumption
    <3> QED BY <1>6, <1>8, <2>2, <3>1 DEF RecordUnsent
  <2> QED BY <2>1, <2>2
<1> QED BY <1>7, <1>8

LEMMA SendStep == ASSUME Inv, NEW t \in Threads, Send(t) PROVE Inv'
<1>1. thread[t].pc = "send" /\ thread[t].pc \in Unsettled /\ thread[t].pc \in Dispatching
  BY DEF Send, Unsettled, Dispatching
<1>2. PICK d \in DOMAIN outcomes :
        /\ thread[t].d = d /\ d \in Ids /\ outcomes[d].mode # "digest"
        /\ outcomes[d].status \in {"pending", "queued", "dispatching"}
        /\ TriesOK(t) /\ sends[d] <= faults /\ sends[d] \in Nat /\ faults \in Nat
  BY <1>1, UnsettledFacts
<1>3. UNCHANGED <<outcomes, attempts, windows, faults>>
  BY DEF Send, store
<1>4. PICK pc \in {"sent", "unsent"} :
        /\ Goes(t, pc)
        /\ pc = "sent" => sends' = [sends EXCEPT ![d] = @ + 1]
        /\ pc = "unsent" => sends' = sends
  BY <1>2 DEF Send
<1>5. /\ thread' \in [Threads -> ThreadType]
      /\ \A u \in Threads : u # t => thread'[u] = thread[u]
      /\ thread'[t].pc = pc /\ thread'[t].d = d
      /\ thread'[t].n = thread[t].n /\ thread'[t].a = thread[t].a
  BY <1>2, <1>4, GoesTyped, Zenon DEF Inv, Types, Pcs, Dispatching, Unsettled
<1>6. /\ sends' \in [Ids -> Nat] /\ \A e \in Ids : e # d => sends'[e] = sends[e]
      /\ pc = "sent" => sends'[d] = sends[d] + 1
      /\ pc = "unsent" => sends'[d] = sends[d]
  BY <1>2, <1>4 DEF Inv, Types
<1>7. RowOK(t)'
  BY <1>2, <1>3, <1>5, ZenonT(30) DEF RowOK, Queueing, Dispatching, Unsettled
<1>8. TriesOK(t)'
  <2>1. thread[t].a = Len(attempts[d]) /\ thread[t].a > 0 /\ thread[t].n <= Len(attempts[d])
    BY <1>1, <1>2 DEF TriesOK
  <2>2. pc = "sent" => sends'[d] > 0
    BY <1>2, <1>6
  <2>3. attempts' = attempts /\ pc \in {"sent", "unsent"}
    BY <1>3, <1>4
  <2> QED BY <1>5, <2>1, <2>2, <2>3, Zenon DEF TriesOK
<1>9. OutcomeOK(d)'
  <2>1. pc = "sent" => KnownSent(d)'
    BY <1>5 DEF KnownSent
  <2>2. sends'[d] <= faults \/ KnownSent(d)'
    BY <1>2, <1>6, <2>1, ZenonT(30)
  <2> QED BY <1>2, <1>3, <1>6, <2>2, SMTT(30) DEF OutcomeOK
<1>10. Types'
  BY <1>3, <1>5, <1>6, ZenonT(30) DEF Types, StoreType, Inv
<1> QED BY <1>1, <1>2, <1>3, <1>5, <1>6, <1>7, <1>8, <1>9, <1>10, DispatchGoesOn, ZenonT(30)

LEMMA SettleSteps ==
  ASSUME Inv, NEW t \in Threads, Deliver(t) \/ Requeue(t) \/ Fail(t)
  PROVE  Inv'
<1>1. /\ thread[t].pc \in {"deliver", "requeue", "fail"}
      /\ thread[t].pc \in Unsettled /\ thread[t].pc \in Dispatching
  BY DEF Deliver, Requeue, Fail, Unsettled, Dispatching
<1>2. PICK d \in DOMAIN outcomes :
        /\ thread[t].d = d /\ d \in Ids /\ outcomes[d].mode # "digest"
        /\ outcomes[d].status \in {"pending", "queued", "dispatching"}
        /\ TriesOK(t) /\ sends[d] <= faults + 1
        /\ (thread[t].pc # "deliver" => sends[d] <= faults)
  BY <1>1, UnsettledFacts, ZenonT(30)
<1>3. UNCHANGED <<attempts, windows, sends, faults>>
  BY ZenonT(30) DEF Deliver, Requeue, Fail
<1>4. PICK s \in {"delivered", "queued", "failed"}, pc \in {"delivered", "arm", "failed"} :
        /\ SetStatus(d, s) /\ Goes(t, pc)
        /\ s = "delivered" <=> thread[t].pc = "deliver"
        /\ s = "delivered" <=> pc = "delivered"
        /\ s = "queued" <=> pc = "arm"
        /\ s = "failed" => thread[t].pc = "fail"
  BY <1>1, <1>2 DEF Deliver, Requeue, Fail
<1>5. /\ thread' \in [Threads -> ThreadType]
      /\ \A u \in Threads : u # t => thread'[u] = thread[u]
      /\ thread'[t].pc = pc /\ thread'[t].d = d /\ thread'[t].n = thread[t].n
  BY <1>2, <1>4, GoesTyped, Zenon DEF Inv, Types, Pcs, Dispatching, Unsettled
<1>6. /\ StoreType' /\ DOMAIN outcomes' = DOMAIN outcomes
      /\ \A e \in DOMAIN outcomes : e # d => outcomes'[e] = outcomes[e]
      /\ outcomes'[d].status = s /\ outcomes'[d].source = outcomes[d].source
      /\ outcomes'[d].mode = outcomes[d].mode
  BY <1>3, <1>4, RowSet DEF Inv, Types
<1>7. RowOK(t)'
  BY <1>2, <1>4, <1>5, <1>6, ZenonT(30) DEF RowOK, Queueing, Dispatching, Unsettled
<1>8. TriesOK(t)'
  BY <1>4, <1>5 DEF TriesOK
<1>9. OutcomeOK(d)'
  <2>1. s = "delivered" => sends[d] > 0 /\ Last(d).status = "delivered" /\ KnownSent(d)'
    BY <1>2, <1>4, <1>6, ZenonT(30) DEF TriesOK, KnownSent
  <2>2. s = "failed" => GaveUp(d)
    BY <1>2, <1>4 DEF TriesOK
  <2>3. Last(d)' = Last(d) /\ (GaveUp(d)' <=> GaveUp(d))
    BY <1>3 DEF Last, GaveUp
  <2>4. sends[d] <= faults \/ KnownSent(d)'
    BY <1>2, <1>4, <2>1, ZenonT(30)
  <2> QED BY <1>2, <1>3, <1>6, <2>1, <2>2, <2>3, <2>4, Zenon DEF OutcomeOK
<1>10. Types'
  BY <1>3, <1>5, <1>6 DEF Types, Inv
<1> QED BY <1>1, <1>2, <1>3, <1>5, <1>6, <1>7, <1>8, <1>9, <1>10, DispatchGoesOn, ZenonT(30)

\* Where a thread goes when its dispatch is over.
LEMMA AfterTyped ==
  ASSUME thread \in [Threads -> ThreadType], NEW t \in Threads, NEW result
  PROVE  LET r == AfterDispatch(t, result)
         IN /\ r \in ThreadType
            /\ r.pc \in {"idle", "clear", "close delivered", "close failed"}
            /\ t \in Retries => r.pc = "clear"
            /\ r.pc # "idle" => r.d = thread[t].d
            /\ r.pc = "close delivered" => result = "delivered"
<1> DEFINE r == AfterDispatch(t, result)
<1>1. thread[t] \in ThreadType
  OBVIOUS
<1>2. CASE t \in Callers
  <2>1. r = Idle
    BY <1>2, ThreadNames, Zenon DEF AfterDispatch
  <2>2. t \notin Retries
    BY <1>2, ThreadNames
  <2> HIDE DEF r
  <2> QED BY <2>1, <2>2, IdleTyped DEF r
<1>3. CASE t \in Retries
  <2>1. r = [thread[t] EXCEPT !.pc = "clear"]
    BY <1>3, DeliveryAssumption DEF AfterDispatch
  <2>2. r \in ThreadType /\ r.pc = "clear" /\ r.d = thread[t].d
    BY <1>1, <2>1, Zenon DEF ThreadType, Pcs
  <2> HIDE DEF r
  <2> QED BY <2>2 DEF r
<1>4. CASE t \notin Callers /\ t \notin Retries
  <2>1. PICK pc \in {"close delivered", "close failed"} :
          /\ r = [thread[t] EXCEPT !.pc = pc]
          /\ pc = "close delivered" => result = "delivered"
    BY <1>4, Zenon DEF AfterDispatch
  <2>2. r \in ThreadType /\ r.pc = pc /\ r.d = thread[t].d
    BY <1>1, <2>1, Zenon DEF ThreadType, Pcs
  <2> HIDE DEF r
  <2> QED BY <1>4, <2>1, <2>2, Zenon DEF r
<1> QED BY <1>2, <1>3, <1>4, Zenon

\* A dispatch is over, and nothing else happens.
LEMMA DispatchOver ==
  ASSUME Inv, NEW t \in Threads, NEW result,
         thread[t].pc \in {"arm", "delivered", "failed"},
         result = "delivered" => thread[t].pc = "delivered",
         thread' = [thread EXCEPT ![t] = AfterDispatch(t, result)],
         UNCHANGED <<store, sends, faults>>
  PROVE  Inv'
<1>1. thread[t].pc \in Dispatching
  BY ZenonT(30) DEF Dispatching, Unsettled
<1>2. Works(t) /\ RowOK(t) /\ OwnOK(t) /\ thread[t].d \in DOMAIN outcomes
  BY <1>1, WorkFacts DEF ThreadOK
<1>3. PICK r \in ThreadType :
        /\ r = AfterDispatch(t, result)
        /\ r.pc \in {"idle", "clear", "close delivered", "close failed"}
        /\ t \in Retries => r.pc = "clear"
        /\ r.pc # "idle" => r.d = thread[t].d
        /\ r.pc = "close delivered" => thread[t].pc = "delivered"
  BY AfterTyped, Zenon DEF Inv, Types
<1>4. /\ thread' \in [Threads -> ThreadType] /\ thread'[t] = r
      /\ \A u \in Threads : u # t => thread'[u] = thread[u]
  BY <1>3, Zenon DEF Inv, Types
<1>5. UNCHANGED <<outcomes, attempts, windows>>
  BY DEF store
<1>6. RowOK(t)'
  BY <1>1, <1>2, <1>3, <1>4, <1>5, Zenon DEF RowOK, Works, Queueing, Dispatching, Unsettled
<1>7. TriesOK(t)'
  BY <1>3, <1>4, Zenon DEF TriesOK
<1>8. OwnOK(t)'
  <2>1. \A e \in Ids : t = Retry(e) => thread[t].d = e /\ outcomes[thread[t].d].mode # "digest"
    BY <1>2, Zenon DEF OwnOK
  <2>2. \A w \in WindowIds : t = Emitter(w) => outcomes[thread[t].d].source = Emitter(w)
    BY <1>1, <1>2, Zenon DEF OwnOK
  <2>3. r.pc \notin Dispatching
    BY <1>3, Zenon DEF Dispatching, Unsettled
  <2> QED BY <1>3, <1>4, <1>5, <2>1, <2>2, <2>3, Zenon DEF OwnOK
<1>9. ThreadOK(t)'
  BY <1>6, <1>7, <1>8 DEF ThreadOK
<1>10. Works(t)' => Works(t) /\ thread'[t].d = thread[t].d
  BY <1>2, <1>3, <1>4, Zenon DEF Works, Queueing, Dispatching, Unsettled
<1>11. Types'
  BY <1>4, <1>5, ZenonT(30) DEF Inv, Types, StoreType
<1>12. \A w \in DOMAIN windows' : WindowOK(w)'
  BY <1>5 DEF Inv, WindowOK
<1> DEFINE T == {t}
<1>13. /\ T \in SUBSET Threads
       /\ \A u \in Threads : u \notin T => thread'[u] = thread[u]
       /\ \A u \in T : u = t
  BY <1>4
<1> HIDE DEF T
<1> QED BY <1>5, <1>9, <1>10, <1>11, <1>12, <1>13, QuietStep

LEMMA FinishStep == ASSUME Inv, NEW t \in Threads, Finish(t) PROVE Inv'
<1>1. PICK result \in {"delivered", "failed"} : thread[t].pc = result
  BY DEF Finish
<1> QED BY <1>1, DispatchOver, Zenon DEF Finish

LEMMA ScheduleRetryStep == ASSUME Inv, NEW t \in Threads, ScheduleRetry(t) PROVE Inv'
<1>1. thread[t].pc = "arm" /\ thread[t].pc \in Unsettled /\ thread[t].pc \in Dispatching
  BY DEF ScheduleRetry, Unsettled, Dispatching
<1>2. UNCHANGED <<store, sends, faults>>
  BY ZenonT(30) DEF ScheduleRetry
<1>3. CASE thread[t].d \in retry_scheduled
  BY <1>1, <1>2, <1>3, DispatchOver DEF ScheduleRetry
<1>4. CASE thread[t].d \notin retry_scheduled
  <2>1. PICK d \in DOMAIN outcomes :
          /\ thread[t].d = d /\ d \in Ids /\ outcomes[d].mode # "digest" /\ OutcomeOK(d)
          /\ outcomes[d].status \in {"pending", "queued", "dispatching"}
          /\ sends[d] <= faults
    BY <1>1, UnsettledFacts
  <2> DEFINE v == Retry(d)
             sleep == At("sleep", "none", d, 0, None, 0)
  <2>2. v \in Threads /\ v \in Retries /\ v = Retry(d)
    BY <2>1, ThreadNames, ZenonT(30) DEF Retries
  <2>3. /\ sleep \in ThreadType /\ sleep.pc = "sleep" /\ sleep.d = d
    BY <2>1 DEF At, ThreadType, Pcs, Names, None
  <2>4. PICK r \in ThreadType :
          /\ r = AfterDispatch(t, "queued")
          /\ r.pc \in {"idle", "clear", "close failed"}
          /\ t \in Retries => r.pc = "clear"
          /\ r.pc = "clear" => r.d = d
    BY <2>1, AfterTyped, Zenon DEF Inv, Types
  <2>5. thread' = [[thread EXCEPT ![t] = r] EXCEPT ![v] = sleep]
    BY <1>4, <2>1, <2>4, Zenon DEF ScheduleRetry
  <2> HIDE DEF v, sleep
  <2>6. /\ thread' \in [Threads -> ThreadType] /\ thread'[v] = sleep
        /\ t # v => thread'[t] = r
        /\ \A u \in Threads : u # t /\ u # v => thread'[u] = thread[u]
    BY <2>2, <2>3, <2>4, <2>5, Zenon DEF Inv, Types
  <2>7. Works(t) /\ OwnOK(t)
    BY <1>1, WorkFacts DEF ThreadOK
  <2>8. t \in Retries => t = v
    BY <2>1, <2>2, <2>7, <1>1 DEF OwnOK, Retries
  <2>9. t # v => thread'[t].pc \in {"idle", "close failed"} /\ ~Works(t)'
    <3>1. ASSUME t # v PROVE r.pc \in {"idle", "close failed"} /\ t \notin Retries
      BY <2>4, <2>8, <3>1, AfterTyped, Zenon
         DEF AfterDispatch, Inv, Types, Threads, Idle, At, ThreadType
    <3> QED BY <2>6, <3>1, Zenon DEF Works, Queueing, Dispatching, Unsettled
  <2>10. v # t => thread[v].pc \notin {"sent", "deliver"}
    <3>1. ASSUME v # t, thread[v].pc \in {"sent", "deliver"} PROVE FALSE
      <4>1. Works(v) /\ OwnOK(v)
        BY <2>2, <3>1, WorkFacts DEF ThreadOK, Dispatching, Unsettled
      <4>2. thread[v].d = d
        BY <2>1, <2>2, <3>1, <4>1, Zenon DEF OwnOK
      <4> QED BY <2>1, <2>2, <2>7, <3>1, <4>1, <4>2, ZenonT(30) DEF Inv, Apart
    <3> QED BY <3>1, ZenonT(30)
  <2>11. UNCHANGED <<outcomes, attempts, windows, sends, faults>>
    BY <1>2 DEF store
  <2>12. ThreadOK(v)'
    <3>1. RowOK(v)'
      BY <2>1, <2>3, <2>6, <2>11, Zenon DEF RowOK, Queueing, Dispatching, Unsettled
    <3>2. TriesOK(v)'
      BY <2>3, <2>6 DEF TriesOK
    <3>3. OwnOK(v)'
      BY <2>1, <2>2, <2>3, <2>6, <2>11, ThreadNames, Zenon DEF OwnOK, Dispatching, Unsettled
    <3> QED BY <3>1, <3>2, <3>3 DEF ThreadOK
  <2>13. ASSUME t # v PROVE ThreadOK(t)'
    <3>1. thread'[t].pc \in {"idle", "close failed"} /\ ~Works(t)'
      BY <2>9, <2>13, Zenon
    <3>2. \A e \in Ids : t # Retry(e)
      BY <2>8, <2>13 DEF Retries
    <3> QED BY <3>1, <3>2, Zenon
          DEF ThreadOK, RowOK, TriesOK, OwnOK, Queueing, Dispatching, Unsettled
  <2>14. OutcomeOK(d)'
    BY <2>1, <2>11, Zenon DEF OutcomeOK
  <2>15. Types'
    BY <2>6, <2>11 DEF Inv, Types, StoreType
  <2> DEFINE T == {t, v}
  <2>16. /\ T \in SUBSET Threads /\ t \in T
         /\ \A u \in Threads : u \notin T => thread'[u] = thread[u]
         /\ \A u \in T : u = v \/ (u = t /\ t # v)
    BY <2>2, <2>6
  <2>17. /\ \A u \in T : Works(u)' => u = v /\ thread'[u].d = d
         /\ \A u \in T : u # t => thread[u].pc \notin {"sent", "deliver"}
         /\ \A u \in T : ThreadOK(u)'
    BY <2>3, <2>6, <2>9, <2>10, <2>12, <2>13, <2>16, Zenon
  <2> HIDE DEF T
  <2> QED BY <2>1, <2>7, <2>11, <2>14, <2>15, <2>16, <2>17, WorkStep, ZenonT(30)
<1> QED BY <1>3, <1>4

-----------------------------------------------------------------------------
(* Callers, up to the window their outcome joins *)

Aside == {"idle", "resolve", "sleep", "mark", "digest", "close failed", "clear"}

\* Callers and emitters that work on no outcome from here on.
LEMMA AsideStep ==
  ASSUME Inv, NEW T \in SUBSET Threads, T \cap Retries = {},
         Types', faults' = faults \/ faults' = faults + 1,
         UNCHANGED <<outcomes, attempts, sends>>,
         \A u \in Threads : u \notin T => thread'[u] = thread[u],
         \A u \in T : thread[u].pc \notin {"sent", "deliver"} /\ thread'[u].pc \in Aside,
         \A w \in DOMAIN windows' : WindowOK(w)'
  PROVE  Inv'
<1>1. ASSUME NEW u \in T PROVE ThreadOK(u)' /\ ~Works(u)'
  <2>1. thread'[u].pc \in Aside /\ u \notin Retries
    BY <1>1
  <2>2. \A e \in Ids : u # Retry(e)
    BY <2>1 DEF Retries
  <2> QED BY <2>1, <2>2, Zenon DEF ThreadOK, RowOK, TriesOK, OwnOK, Works, Aside, Queueing,
                            Dispatching, Unsettled
<1> QED BY <1>1, QuietStep

LEMMA ReportStep ==
  ASSUME Inv, NEW k \in Callers, NEW source \in Sources, Report(k, source)
  PROVE  Inv'
<1>1. k \in Threads /\ k \notin Retries
  BY ThreadNames
<1>2. PICK q \in ThreadType : thread[k] = q /\ q.pc = "idle"
  BY <1>1, IdleTyped DEF Report, Inv, Types
<1> DEFINE p == [q EXCEPT !.pc = "resolve"]
           r == [p EXCEPT !.source = source]
<1>3. thread' = [thread EXCEPT ![k] = r]
  BY <1>1, <1>2, Zenon DEF Report, Inv, Types
<1>4. p \in ThreadType /\ p.pc = "resolve"
  BY <1>2, Zenon DEF ThreadType, Pcs
<1>5. r \in ThreadType /\ r.pc = "resolve"
  <2> HIDE DEF p
  <2> QED BY <1>4 DEF ThreadType, Names
<1> HIDE DEF p, r
<1>6. /\ thread' \in [Threads -> ThreadType] /\ thread'[k].pc = "resolve"
      /\ \A u \in Threads : u # k => thread'[u] = thread[u]
  BY <1>1, <1>3, <1>5 DEF Inv, Types
<1>7. UNCHANGED <<outcomes, attempts, windows, sends, faults>>
  BY DEF Report, store
<1>8. Types' /\ \A w \in DOMAIN windows' : WindowOK(w)'
  BY <1>6, <1>7 DEF Inv, Types, StoreType, WindowOK
<1> DEFINE T == {k}
<1>9. /\ T \in SUBSET Threads /\ T \cap Retries = {}
      /\ \A u \in Threads : u \notin T => thread'[u] = thread[u]
      /\ \A u \in T : thread[u].pc \notin {"sent", "deliver"} /\ thread'[u].pc \in Aside
  BY <1>1, <1>2, <1>6, Zenon DEF Aside
<1> HIDE DEF T
<1> QED BY <1>7, <1>8, <1>9, AsideStep

\* An outcome is appended to the store.
LEMMA RowAdded ==
  ASSUME StoreType, NEW source \in Names, NEW mode \in {"suppressed", "digest", "immediate"},
         NewOutcome(source, mode), UNCHANGED windows
  PROVE  /\ StoreType' /\ Len(outcomes') = Len(outcomes) + 1 /\ Len(outcomes) + 1 \in Ids
         /\ DOMAIN outcomes' = DOMAIN outcomes \cup {Len(outcomes) + 1}
         /\ \A e \in DOMAIN outcomes : outcomes'[e] = outcomes[e] /\ attempts'[e] = attempts[e]
         /\ outcomes'[Len(outcomes) + 1].status = "pending"
         /\ outcomes'[Len(outcomes) + 1].mode = mode
         /\ outcomes'[Len(outcomes) + 1].source = source
         /\ attempts'[Len(outcomes) + 1] = <<>>
<1> DEFINE row == [source |-> source, mode |-> mode, status |-> "pending", window |-> None]
<1>1. /\ Len(outcomes) < MaxOutcomes /\ outcomes' = Append(outcomes, row)
      /\ attempts' = Append(attempts, <<>>)
  BY DEF NewOutcome
<1>2. row \in OutcomeType /\ row.status = "pending" /\ row.mode = mode /\ row.source = source
  BY DEF OutcomeType, None
<1> HIDE DEF row
<1>3. /\ outcomes \in Seq(OutcomeType) /\ Len(outcomes) \in Nat /\ MaxOutcomes \in Nat
      /\ attempts \in Seq(Seq(AttemptType)) /\ Len(attempts) = Len(outcomes)
      /\ DOMAIN outcomes = 1..Len(outcomes)
  BY Domains, DeliveryAssumption DEF StoreType
<1>4. /\ outcomes' \in Seq(OutcomeType) /\ Len(outcomes') = Len(outcomes) + 1
      /\ outcomes'[Len(outcomes) + 1] = row
      /\ \A e \in 1..Len(outcomes) : outcomes'[e] = outcomes[e]
      /\ DOMAIN outcomes' = 1..(Len(outcomes) + 1)
  BY <1>1, <1>2, <1>3
<1>5. <<>> \in Seq(AttemptType)
  OBVIOUS
<1>6. /\ attempts' \in Seq(Seq(AttemptType)) /\ Len(attempts') = Len(outcomes) + 1
      /\ \A e \in 1..Len(outcomes) : attempts'[e] = attempts[e]
      /\ attempts'[Len(outcomes) + 1] = <<>>
  BY <1>1, <1>3, <1>5
<1>7. Len(outcomes) + 1 \in Ids /\ Len(outcomes) + 1 <= MaxOutcomes
  BY <1>1, <1>3 DEF Ids
<1>8. 1..(Len(outcomes) + 1) = 1..Len(outcomes) \cup {Len(outcomes) + 1}
  BY <1>3
<1>9. StoreType'
  BY <1>4, <1>6, <1>7 DEF StoreType
<1>10. /\ outcomes'[Len(outcomes) + 1].status = "pending"
       /\ outcomes'[Len(outcomes) + 1].mode = mode
       /\ outcomes'[Len(outcomes) + 1].source = source
  BY <1>2, <1>4, Zenon
<1> QED BY <1>3, <1>4, <1>6, <1>7, <1>8, <1>9, <1>10, Zenon

LEMMA ResolveStep == ASSUME Inv, NEW k \in Callers, Resolve(k) PROVE Inv'
<1>1. k \in Threads /\ k \notin Retries /\ k \notin Emitters
  BY ThreadNames
<1>2. PICK mode \in {"suppressed", "digest", "immediate"} :
        /\ NewOutcome(thread[k].source, mode)
        /\ thread' = [thread EXCEPT ![k].d = Len(outcomes'),
                                    ![k].pc = CASE mode = "suppressed" -> "suppress"
                                                [] mode = "digest" -> "find"
                                                [] mode = "immediate" -> "start"]
  BY Zenon DEF Resolve
<1>3. PICK pc \in {"suppress", "find", "start"} :
        /\ pc = "start" => mode = "immediate"
        /\ thread' = [thread EXCEPT ![k].d = Len(outcomes'), ![k].pc = pc]
  BY <1>2, Zenon
<1>4. UNCHANGED <<windows, sends, faults>> /\ thread[k].pc = "resolve"
  BY DEF Resolve
<1>5. PICK q \in ThreadType : thread[k] = q /\ q.source \in Names
  BY <1>1 DEF Inv, Types, ThreadType
<1>6. PICK d \in Ids :
        /\ d = Len(outcomes) + 1 /\ Len(outcomes') = d /\ StoreType'
        /\ DOMAIN outcomes' = DOMAIN outcomes \cup {d}
        /\ \A e \in DOMAIN outcomes : outcomes'[e] = outcomes[e] /\ attempts'[e] = attempts[e]
        /\ outcomes'[d].status = "pending" /\ outcomes'[d].mode = mode
  BY <1>2, <1>4, <1>5, RowAdded, Zenon DEF Inv, Types
<1> DEFINE p == [q EXCEPT !.d = d]
           r == [p EXCEPT !.pc = pc]
<1>7. thread' = [thread EXCEPT ![k] = r]
  BY <1>1, <1>3, <1>5, <1>6, Zenon DEF Inv, Types
<1>8. p \in ThreadType /\ p.d = d
  BY <1>5 DEF ThreadType
<1>9. r \in ThreadType /\ r.d = d /\ r.pc = pc
  <2> HIDE DEF p
  <2> QED BY <1>8, ZenonT(30) DEF ThreadType, Pcs, Queueing, Dispatching, Unsettled
<1> HIDE DEF p, r
<1>10. /\ thread' \in [Threads -> ThreadType] /\ thread'[k].pc = pc /\ thread'[k].d = d
       /\ \A u \in Threads : u # k => thread'[u] = thread[u]
  BY <1>1, <1>7, <1>9 DEF Inv, Types
<1>11. ThreadOK(k)'
  <2>1. RowOK(k)'
    BY <1>3, <1>6, <1>10, Zenon DEF RowOK, Queueing, Dispatching, Unsettled
  <2>2. TriesOK(k)'
    BY <1>10 DEF TriesOK
  <2>3. OwnOK(k)'
    BY ThreadNames, Zenon DEF OwnOK
  <2> QED BY <2>1, <2>2, <2>3 DEF ThreadOK
<1>12. Types'
  BY <1>4, <1>6, <1>10 DEF Inv, Types
<1> QED BY <1>1, <1>4, <1>6, <1>10, <1>11, <1>12, NewStep

LEMMA SuppressStep == ASSUME Inv, NEW k \in Callers, Suppress(k) PROVE Inv'
<1>1. k \in Threads /\ k \notin Retries /\ k \notin Emitters
  BY ThreadNames
<1>2. thread[k].pc = "suppress" /\ thread[k].pc \in Queueing
  BY DEF Suppress, Queueing
<1>3. PICK d \in DOMAIN outcomes :
        /\ thread[k].d = d /\ d \in Ids /\ OutcomeOK(d) /\ sends[d] <= faults
        /\ outcomes[d].status = "pending"
  BY <1>1, <1>2, WorkFacts, Zenon DEF ThreadOK, RowOK
<1>4. Works(k)
  BY <1>2 DEF Works
<1>5. SetStatus(d, "suppressed") /\ UNCHANGED <<attempts, windows, sends, faults>>
  BY <1>3 DEF Suppress
<1>6. /\ StoreType' /\ DOMAIN outcomes' = DOMAIN outcomes
      /\ \A e \in DOMAIN outcomes : e # d => outcomes'[e] = outcomes[e]
      /\ outcomes'[d].status = "suppressed" /\ outcomes'[d].source = outcomes[d].source
      /\ outcomes'[d].mode = outcomes[d].mode
  BY <1>5, RowSet DEF Inv, Types
<1>7. /\ thread' \in [Threads -> ThreadType] /\ thread'[k] = Idle
      /\ \A u \in Threads : u # k => thread'[u] = thread[u]
  BY <1>1, IdleTyped DEF Suppress, Inv, Types
<1>8. ThreadOK(k)' /\ ~Works(k)'
  BY <1>1, <1>7, IdleTyped, ThreadNames
     DEF ThreadOK, RowOK, TriesOK, OwnOK, Works, Queueing, Dispatching, Unsettled
<1>9. OutcomeOK(d)'
  BY <1>3, <1>5, <1>6, ZenonT(30) DEF OutcomeOK, Unfinished
<1>10. Types'
  BY <1>5, <1>6, <1>7, ZenonT(30) DEF Inv, Types
<1> DEFINE T == {k}
<1>11. /\ T \in SUBSET Threads /\ k \in T
       /\ \A u \in Threads : u \notin T => thread'[u] = thread[u]
       /\ \A u \in T : u = k
  BY <1>1, <1>7
<1> HIDE DEF T
<1> QED BY <1>3, <1>4, <1>5, <1>6, <1>8, <1>9, <1>10, <1>11, WorkStep, Zenon

\* A caller looks for its window: the store's outcomes stay.
LEMMA QueueingStep ==
  ASSUME Inv, NEW k \in Callers, thread[k].pc \in Queueing,
         Types', UNCHANGED <<outcomes, attempts, sends, faults>>,
         \A u \in Threads : u # k => thread'[u] = thread[u],
         thread'[k].pc \in {"join", "queue"}, thread'[k].d = thread[k].d,
         thread'[k].pc = "queue" => thread'[k].w # None,
         \A w \in DOMAIN windows' : WindowOK(w)'
  PROVE  Inv'
<1>1. k \in Threads /\ k \notin Retries /\ k \notin Emitters
  BY ThreadNames
<1>2. Works(k) /\ ThreadOK(k) /\ thread[k].pc \notin {"sent", "deliver"}
  BY <1>1, WorkFacts DEF Queueing
<1>3. ThreadOK(k)'
  <2>1. RowOK(k)'
    BY <1>2, Zenon DEF ThreadOK, RowOK, Queueing, Dispatching, Unsettled
  <2>2. TriesOK(k)'
    BY DEF TriesOK
  <2>3. OwnOK(k)'
    BY ThreadNames, Zenon DEF OwnOK
  <2> QED BY <2>1, <2>2, <2>3 DEF ThreadOK
<1> DEFINE T == {k}
<1>4. /\ T \in SUBSET Threads
      /\ \A u \in Threads : u \notin T => thread'[u] = thread[u]
      /\ \A u \in T : u = k
  BY <1>1
<1> HIDE DEF T
<1> QED BY <1>2, <1>3, <1>4, QuietStep

LEMMA FindWindowStep == ASSUME Inv, NEW k \in Callers, FindWindow(k) PROVE Inv'
<1>1. k \in Threads /\ thread[k].pc \in Queueing
  BY ThreadNames, Zenon DEF FindWindow, Queueing
<1>2. StoreType /\ UNCHANGED <<outcomes, attempts, windows, sends, faults>>
  BY Zenon DEF FindWindow, store, Inv, Types
<1>3. PICK w \in WindowIds \cup {None}, c \in Nat :
        thread' = [thread EXCEPT ![k].pc = "join", ![k].w = w, ![k].count = c]
  <2>1. CASE \E w \in DOMAIN windows :
               thread' = [thread EXCEPT ![k].pc = "join", ![k].w = w,
                                        ![k].count = windows[w].count + 1]
    <3>1. PICK w \in DOMAIN windows :
            thread' = [thread EXCEPT ![k].pc = "join", ![k].w = w,
                                     ![k].count = windows[w].count + 1]
      BY <2>1, Zenon
    <3>2. w \in WindowIds /\ windows[w].count + 1 \in Nat
      BY <1>2, Domains DEF WindowType
    <3> QED BY <3>1, <3>2, Zenon
  <2>2. CASE thread' = [thread EXCEPT ![k].pc = "join", ![k].w = None, ![k].count = 1]
    BY <2>2, Zenon
  <2> QED BY <2>1, <2>2, Zenon DEF FindWindow
<1>4. PICK q \in ThreadType : thread[k] = q
  BY <1>1 DEF Inv, Types
<1> DEFINE o == [q EXCEPT !.pc = "join"]
           p == [o EXCEPT !.w = w]
           r == [p EXCEPT !.count = c]
<1>5. thread' = [thread EXCEPT ![k] = r]
  BY <1>1, <1>3, <1>4, Zenon DEF Inv, Types
<1>6. o \in ThreadType /\ o.pc = "join" /\ o.d = q.d
  BY <1>4, Zenon DEF ThreadType, Pcs, Queueing
<1>7. p \in ThreadType /\ p.pc = "join" /\ p.d = q.d
  <2> HIDE DEF o
  <2> QED BY <1>6 DEF ThreadType
<1>8. r \in ThreadType /\ r.pc = "join" /\ r.d = q.d
  <2> HIDE DEF p
  <2> QED BY <1>7 DEF ThreadType
<1> HIDE DEF o, p, r
<1>9. /\ thread' \in [Threads -> ThreadType] /\ thread'[k] = r
      /\ \A u \in Threads : u # k => thread'[u] = thread[u]
  BY <1>1, <1>5, <1>8 DEF Inv, Types
<1>10. Types' /\ \A v \in DOMAIN windows' : WindowOK(v)'
  BY <1>2, <1>9, Zenon DEF Inv, Types, StoreType, WindowOK
<1> QED BY <1>1, <1>2, <1>4, <1>8, <1>9, <1>10, QueueingStep
=============================================================================
