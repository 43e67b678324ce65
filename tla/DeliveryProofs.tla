--------------------------- MODULE DeliveryProofs ---------------------------
(***************************************************************************)
(* That the steps at digest windows, of retries, emitters and faults keep  *)
(* what DeliveryInvariant states. A final status is then what happened,    *)
(* and no outcome is sent again without a fault to blame, for any number   *)
(* of results, callers, attempts, outcomes, windows and faults.            *)
(***************************************************************************)
EXTENDS DeliveryInvariant

-----------------------------------------------------------------------------
(* Callers at a window *)

LEMMA WindowPut ==
  ASSUME StoreType, NEW w \in DOMAIN windows, NEW r \in WindowType,
         windows' = [windows EXCEPT ![w] = r], UNCHANGED <<outcomes, attempts>>
  PROVE  /\ StoreType' /\ DOMAIN windows' = DOMAIN windows /\ windows'[w] = r
         /\ \A v \in DOMAIN windows : v # w => windows'[v] = windows[v]
<1>1. windows' \in Seq(WindowType) /\ Len(windows') = Len(windows)
  BY DEF StoreType
<1> QED BY <1>1 DEF StoreType

\* A copy of a window is stored.
LEMMA WindowSet ==
  ASSUME StoreType, NEW w, NEW st \in {"open", "dispatching", "delivered", "failed"},
         NEW c \in Nat, windows' = [windows EXCEPT ![w].status = st, ![w].count = c],
         UNCHANGED <<outcomes, attempts>>
  PROVE  /\ StoreType' /\ DOMAIN windows' = DOMAIN windows
         /\ \A v \in DOMAIN windows : v # w => windows'[v] = windows[v]
         /\ w \in DOMAIN windows => windows'[w].status = st
<1>1. CASE w \notin DOMAIN windows
  <2>1. windows' = windows
    BY <1>1 DEF StoreType
  <2> QED BY <1>1, <2>1, Zenon DEF StoreType
<1>2. CASE w \in DOMAIN windows
  <2>1. PICK q \in WindowType : windows[w] = q
    BY <1>2, Domains
  <2> DEFINE p == [q EXCEPT !.status = st]
             r == [p EXCEPT !.count = c]
  <2>2. windows' = [windows EXCEPT ![w] = r]
    BY <1>2, <2>1, Zenon
  <2>3. p \in WindowType /\ p.status = st
    BY <2>1 DEF WindowType
  <2>4. r \in WindowType /\ r.status = st
    <3> HIDE DEF p
    <3> QED BY <2>3 DEF WindowType
  <2> HIDE DEF p, r
  <2> QED BY <1>2, <2>2, <2>4, WindowPut, Zenon
<1> QED BY <1>1, <1>2

LEMMA JoinWindowStep == ASSUME Inv, NEW k \in Callers, JoinWindow(k) PROVE Inv'
<1>1. k \in Threads /\ thread[k].pc \in Queueing
  BY ThreadNames DEF JoinWindow, Queueing
<1>2. StoreType /\ UNCHANGED <<outcomes, attempts, sends, faults>>
  BY DEF JoinWindow, Inv, Types
<1>3. thread \in [Threads -> ThreadType] /\ thread[k].count \in Nat
  BY <1>1 DEF Inv, Types, ThreadType
<1>4. CASE /\ thread[k].w # None /\ Goes(k, "queue")
           /\ windows' = [windows EXCEPT ![thread[k].w].status = "open",
                                         ![thread[k].w].count = thread[k].count]
  <2> DEFINE w == thread[k].w
             c == thread[k].count
  <2>1. /\ windows' = [windows EXCEPT ![w].status = "open", ![w].count = c]
        /\ c \in Nat
    BY <1>3, <1>4
  <2> HIDE DEF w, c
  <2>2. /\ StoreType' /\ DOMAIN windows' = DOMAIN windows
        /\ \A v \in DOMAIN windows : v # w => windows'[v] = windows[v]
        /\ w \in DOMAIN windows => windows'[w].status = "open"
    BY <1>2, <2>1, WindowSet, Zenon
  <2>3. \A v \in DOMAIN windows' : WindowOK(v)'
    BY <1>2, <2>2 DEF Inv, WindowOK
  <2>4. /\ thread' \in [Threads -> ThreadType]
        /\ \A u \in Threads : u # k => thread'[u] = thread[u]
        /\ thread'[k].pc = "queue" /\ thread'[k].d = thread[k].d /\ thread'[k].w = thread[k].w
    BY <1>1, <1>3, <1>4, GoesTyped, Zenon DEF Pcs, Queueing
  <2>5. Types'
    BY <1>2, <2>2, <2>4 DEF Inv, Types
  <2> QED BY <1>1, <1>2, <1>4, <2>3, <2>4, <2>5, QueueingStep
<1>5. CASE /\ Len(windows) < MaxWindows
           /\ windows' = Append(windows, [status |-> "open", count |-> 1, over |-> FALSE])
           /\ thread' = [thread EXCEPT ![k].pc = "queue", ![k].w = Len(windows')]
  <2> DEFINE row == [status |-> "open", count |-> 1, over |-> FALSE]
  <2>1. row \in WindowType /\ row.status = "open"
    BY DEF WindowType
  <2>2. windows' = Append(windows, row)
    BY <1>5
  <2> HIDE DEF row
  <2>3. windows \in Seq(WindowType) /\ Len(windows) \in Nat /\ MaxWindows \in Nat
    BY <1>2, DeliveryAssumption DEF StoreType
  <2>4. PICK w \in WindowIds : w = Len(windows) + 1
    BY <1>5, <2>3 DEF WindowIds
  <2>5. /\ windows' \in Seq(WindowType) /\ Len(windows') = w
        /\ \A v \in 1..Len(windows) : windows'[v] = windows[v]
        /\ windows'[w] = row /\ DOMAIN windows' = 1..w /\ DOMAIN windows = 1..Len(windows)
    BY <2>1, <2>2, <2>3, <2>4
  <2>6. StoreType'
    BY <1>2, <1>5, <2>3, <2>4, <2>5 DEF StoreType
  <2>7. \A v \in DOMAIN windows' : v \in DOMAIN windows \/ v = w
    BY <2>3, <2>4, <2>5
  <2>8. \A v \in DOMAIN windows' : WindowOK(v)'
    BY <1>2, <2>1, <2>5, <2>7 DEF Inv, WindowOK
  <2>9. PICK q \in ThreadType : thread[k] = q
    BY <1>1, <1>3
  <2> DEFINE p == [q EXCEPT !.pc = "queue"]
             r == [p EXCEPT !.w = w]
  <2>10. thread' = [thread EXCEPT ![k] = r]
    BY <1>1, <1>3, <1>5, <2>5, <2>9, Zenon
  <2>11. p \in ThreadType /\ p.pc = "queue" /\ p.d = q.d
    BY <2>9, Zenon DEF ThreadType, Pcs, Queueing
  <2>12. r \in ThreadType /\ r.pc = "queue" /\ r.d = q.d /\ r.w = w
    <3> HIDE DEF p
    <3> QED BY <2>11 DEF ThreadType
  <2> HIDE DEF p, r
  <2>13. /\ thread' \in [Threads -> ThreadType] /\ thread'[k] = r
         /\ \A u \in Threads : u # k => thread'[u] = thread[u]
    BY <1>1, <1>3, <2>10, <2>12
  <2>14. w # None
    BY <2>3, <2>4 DEF None
  <2>15. Types'
    BY <1>2, <2>6, <2>13 DEF Inv, Types
  <2> QED BY <1>1, <1>2, <2>8, <2>9, <2>12, <2>13, <2>14, <2>15, QueueingStep, ZenonT(30)
<1> QED BY <1>4, <1>5 DEF JoinWindow

LEMMA QueueDigestStep == ASSUME Inv, NEW k \in Callers, QueueDigest(k) PROVE Inv'
<1>1. k \in Threads /\ k \notin Retries /\ k \notin Emitters
  BY ThreadNames
<1>2. thread[k].pc = "queue" /\ thread[k].pc \in Queueing
  BY Zenon DEF QueueDigest, Queueing
<1>3. PICK d \in DOMAIN outcomes :
        /\ thread[k].d = d /\ d \in Ids /\ OutcomeOK(d) /\ sends[d] <= faults
        /\ outcomes[d].status = "pending" /\ thread[k].w # None
  BY <1>1, <1>2, WorkFacts, Zenon DEF ThreadOK, RowOK
<1>4. Works(k)
  BY <1>2 DEF Works
<1>5. PICK w \in WindowIds : thread[k].w = w /\ w # None
  BY <1>1, <1>3 DEF Inv, Types, ThreadType
<1>6. PICK q \in OutcomeType : outcomes[d] = q
  BY Domains DEF Inv, Types
<1> DEFINE p == [q EXCEPT !.status = "queued"]
           row == [p EXCEPT !.window = w]
<1>7. outcomes' = [outcomes EXCEPT ![d] = row]
  BY <1>3, <1>5, <1>6, Zenon DEF QueueDigest
<1>8. p \in OutcomeType /\ p.status = "queued" /\ p.source = q.source /\ p.mode = q.mode
  BY <1>6 DEF OutcomeType
<1>9. /\ row \in OutcomeType /\ row.status = "queued" /\ row.source = q.source
      /\ row.mode = q.mode /\ row.window = w
  <2> HIDE DEF p
  <2> QED BY <1>8 DEF OutcomeType
<1> HIDE DEF p, row
<1>10. outcomes' \in Seq(OutcomeType) /\ Len(outcomes') = Len(outcomes) /\ outcomes'[d] = row
  BY <1>7, <1>9 DEF Inv, Types, StoreType
<1>11. /\ DOMAIN outcomes' = DOMAIN outcomes
       /\ \A e \in DOMAIN outcomes : e # d => outcomes'[e] = outcomes[e]
  BY <1>7 DEF Inv, Types, StoreType
<1>12. Goes(k, "arm window") /\ UNCHANGED <<attempts, windows, sends, faults>>
  BY Zenon DEF QueueDigest
<1>13. /\ thread' \in [Threads -> ThreadType]
       /\ \A u \in Threads : u # k => thread'[u] = thread[u]
       /\ thread'[k].pc = "arm window" /\ thread'[k].w = thread[k].w
  BY <1>1, <1>12, GoesTyped, Zenon DEF Inv, Types, Pcs
<1>14. ThreadOK(k)' /\ ~Works(k)'
  BY <1>1, <1>3, <1>13, ThreadNames, Zenon
     DEF ThreadOK, RowOK, TriesOK, OwnOK, Works, Queueing, Dispatching, Unsettled
<1>15. OutcomeOK(d)'
  BY <1>3, <1>5, <1>6, <1>9, <1>10, <1>12, Zenon DEF OutcomeOK
<1>16. Types'
  BY <1>10, <1>12, <1>13, Zenon DEF Inv, Types, StoreType
<1> DEFINE T == {k}
<1>17. /\ T \in SUBSET Threads /\ k \in T
       /\ \A u \in Threads : u \notin T => thread'[u] = thread[u]
       /\ \A u \in T : u = k
  BY <1>1, <1>13, Zenon
<1> HIDE DEF T
<1> QED BY <1>3, <1>4, <1>6, <1>9, <1>10, <1>11, <1>12, <1>14, <1>15, <1>16, <1>17, WorkStep, Zenon

LEMMA ScheduleWindowStep ==
  ASSUME Inv, Armed, NEW k \in Callers, ScheduleWindow(k)
  PROVE  Inv'
<1>1. k \in Threads /\ k \notin Retries /\ k \notin Emitters
  BY ThreadNames
<1>2. thread[k].pc = "arm window" /\ UNCHANGED <<store, sends, faults>>
  BY Zenon DEF ScheduleWindow
<1>3. UNCHANGED <<outcomes, attempts, windows, sends, faults>>
  BY <1>2, Zenon DEF store
<1>4. \A w \in DOMAIN windows' : WindowOK(w)'
  BY <1>3 DEF Inv, WindowOK
<1>5. thread \in [Threads -> ThreadType] /\ thread[k].w \in WindowIds
  BY <1>1, <1>2, Zenon DEF Inv, Types, ThreadType, ThreadOK, RowOK
<1> DEFINE armed == [thread EXCEPT ![k] = Idle]
<1>6. /\ armed \in [Threads -> ThreadType] /\ armed[k].pc = "idle"
      /\ \A u \in Threads : u # k => armed[u] = thread[u]
  BY <1>1, <1>5, IdleTyped
<1>7. CASE thread' = armed
  <2> DEFINE T == {k}
  <2>1. /\ T \in SUBSET Threads /\ T \cap Retries = {}
        /\ \A u \in Threads : u \notin T => thread'[u] = thread[u]
        /\ \A u \in T : thread[u].pc \notin {"sent", "deliver"} /\ thread'[u].pc \in Aside
    BY <1>1, <1>2, <1>6, <1>7, Zenon DEF Aside
  <2>2. Types'
    BY <1>3, <1>6, <1>7, ZenonT(30) DEF Inv, Types, StoreType
  <2> HIDE DEF T, armed
  <2> QED BY <1>3, <1>4, <2>1, <2>2, AsideStep, Zenon
<1>8. CASE /\ thread[k].w \notin window_scheduled
           /\ thread' = [armed EXCEPT ![Emitter(thread[k].w)] =
                                        At("sleep", "none", None, 0, thread[k].w, 0)]
  <2>1. PICK w \in WindowIds : w = thread[k].w
    BY <1>5
  <2> DEFINE v == Emitter(w)
             sleep == At("sleep", "none", None, 0, w, 0)
  <2>2. thread' = [armed EXCEPT ![v] = sleep] /\ w \notin window_scheduled
    BY <1>8, <2>1, ZenonT(30)
  <2>3. sleep \in ThreadType /\ sleep.pc = "sleep"
    BY <2>1 DEF At, ThreadType, Pcs, Names, None
  <2> HIDE DEF v, sleep, armed
  <2>4. v \in Threads /\ v \notin Retries /\ v # k /\ thread[v].pc = "idle"
    BY <2>1, <2>2, ThreadNames, Zenon DEF v, Armed, Retries
  <2>5. /\ thread' \in [Threads -> ThreadType] /\ thread'[v] = sleep
        /\ thread'[k].pc = "idle"
        /\ \A u \in Threads : u # k /\ u # v => thread'[u] = thread[u]
    BY <1>1, <1>6, <2>2, <2>3, <2>4
  <2> DEFINE T == {k, v}
  <2>6. /\ T \in SUBSET Threads /\ T \cap Retries = {}
        /\ \A u \in Threads : u \notin T => thread'[u] = thread[u]
        /\ \A u \in T : thread[u].pc \notin {"sent", "deliver"} /\ thread'[u].pc \in Aside
    BY <1>1, <1>2, <2>3, <2>4, <2>5, Zenon DEF Aside
  <2>7. Types'
    BY <1>3, <2>5, ZenonT(30) DEF Inv, Types, StoreType
  <2> HIDE DEF T
  <2> QED BY <1>3, <1>4, <2>6, <2>7, AsideStep
<1> QED BY <1>7, <1>8, Zenon DEF ScheduleWindow

-----------------------------------------------------------------------------
(* Retries *)

LEMMA ResumeStep == ASSUME Inv, Numbering, NEW d \in Ids, Resume(d) PROVE Inv'
<1> DEFINE t == Retry(d)
<1>1. t \in Threads /\ t \in Retries /\ t = Retry(d) /\ \A w \in WindowIds : t # Emitter(w)
  BY ThreadNames DEF Retries
<1>2. thread[t].pc = "sleep" /\ UNCHANGED <<outcomes, attempts, windows, sends>>
  BY DEF Resume, store
<1>3. \/ Goes(t, "clear") /\ faults' = faults
      \/ Unfinished(d) /\ Goes(t, "start") /\ faults' = faults
      \/ Unfinished(d) /\ NextAttempt(t, "refuse")
  BY Zenon DEF Resume
<1> HIDE DEF t
<1>4. Works(t) /\ ThreadOK(t) /\ thread \in [Threads -> ThreadType]
  BY <1>1, <1>2 DEF Works, Inv, Types
<1>5. thread[t].d = d /\ d \in DOMAIN outcomes /\ outcomes[d].mode # "digest"
  BY <1>1, <1>2, <1>4, Zenon DEF ThreadOK, RowOK, OwnOK
<1>6. PICK pc \in {"start", "refuse", "clear"} :
        /\ thread' \in [Threads -> ThreadType]
        /\ \A u \in Threads : u # t => thread'[u] = thread[u]
        /\ thread'[t].pc = pc /\ thread'[t].d = d
        /\ pc = "refuse" => thread'[t].n \in 1..(Len(attempts[d]) + 1)
        /\ pc # "clear" => Unfinished(d)
        /\ faults' = faults \/ faults' = faults + 1
  <2>1. "start" \in Pcs /\ "refuse" \in Pcs /\ "clear" \in Pcs
    BY Zenon DEF Pcs, Dispatching, Unsettled
  <2>2. CASE Goes(t, "clear") /\ faults' = faults
    BY <1>1, <1>4, <1>5, <2>1, <2>2, GoesTyped, Zenon
  <2>3. CASE Unfinished(d) /\ Goes(t, "start") /\ faults' = faults
    BY <1>1, <1>4, <1>5, <2>1, <2>3, GoesTyped, Zenon
  <2>4. CASE Unfinished(d) /\ NextAttempt(t, "refuse")
    BY <1>1, <1>5, <2>1, <2>4, NumberTaken, Zenon
  <2> QED BY <1>3, <2>2, <2>3, <2>4
<1>7. ThreadOK(t)'
  <2>1. RowOK(t)'
    BY <1>2, <1>5, <1>6, Zenon DEF RowOK, Unfinished, Queueing, Dispatching, Unsettled
  <2>2. TriesOK(t)'
    BY <1>2, <1>6, Zenon DEF TriesOK
  <2>3. OwnOK(t)'
    BY <1>1, <1>2, <1>5, <1>6, ThreadNames, Zenon DEF OwnOK
  <2> QED BY <2>1, <2>2, <2>3, Zenon DEF ThreadOK
<1>8. Types'
  <2>1. faults' \in Nat
    BY <1>6 DEF Inv, Types
  <2> QED BY <1>2, <1>6, <2>1, ZenonT(30) DEF Inv, Types, StoreType
<1>9. \A w \in DOMAIN windows' : WindowOK(w)'
  BY <1>2, Zenon DEF Inv, WindowOK
<1> DEFINE T == {t}
<1>10. /\ T \in SUBSET Threads
       /\ \A u \in Threads : u \notin T => thread'[u] = thread[u]
       /\ \A u \in T : thread[u].pc \notin {"sent", "deliver"}
       /\ \A u \in T : Works(u)' => Works(u) /\ thread'[u].d = thread[u].d
       /\ \A u \in T : ThreadOK(u)'
  BY <1>1, <1>2, <1>4, <1>5, <1>6, <1>7, ZenonT(30)
<1> HIDE DEF T
<1> QED BY <1>2, <1>6, <1>8, <1>9, <1>10, QuietStep

LEMMA ClearRetryStep == ASSUME Inv, NEW d \in Ids, ClearRetry(d) PROVE Inv'
<1> DEFINE t == Retry(d)
<1>1. t \in Threads
  BY ThreadNames
<1>2. /\ thread[t].pc = "clear" /\ UNCHANGED <<outcomes, attempts, windows, sends, faults>>
      /\ thread' = [thread EXCEPT ![t] = Idle]
  BY DEF ClearRetry, store
<1> HIDE DEF t
<1>3. /\ thread' \in [Threads -> ThreadType] /\ thread'[t] = Idle /\ thread'[t].pc = "idle"
      /\ \A u \in Threads : u # t => thread'[u] = thread[u]
  BY <1>1, <1>2, IdleTyped, ZenonT(30) DEF Inv, Types
<1>4. ~Works(t)' /\ ThreadOK(t)'
  BY <1>3 DEF ThreadOK, RowOK, TriesOK, OwnOK, Works, Queueing, Dispatching, Unsettled
<1>5. Types'
  BY <1>2, <1>3, ZenonT(30) DEF Inv, Types, StoreType
<1>6. \A w \in DOMAIN windows' : WindowOK(w)'
  BY <1>2 DEF Inv, WindowOK
<1> DEFINE T == {t}
<1>7. /\ T \in SUBSET Threads
      /\ \A u \in Threads : u \notin T => thread'[u] = thread[u]
      /\ \A u \in T : thread[u].pc \notin {"sent", "deliver"}
      /\ \A u \in T : Works(u)' => Works(u) /\ thread'[u].d = thread[u].d
      /\ \A u \in T : ThreadOK(u)'
  BY <1>1, <1>2, <1>3, <1>4
<1> HIDE DEF T
<1> QED BY <1>2, <1>5, <1>6, <1>7, QuietStep

-----------------------------------------------------------------------------
(* Emitters *)

\* An emitter that works on no outcome from here on.
LEMMA EmitterAside ==
  ASSUME Inv, NEW w \in WindowIds, NEW r \in ThreadType, r.pc \in Aside,
         thread[Emitter(w)].pc \notin {"sent", "deliver"},
         thread' = [thread EXCEPT ![Emitter(w)] = r],
         faults' = faults \/ faults' = faults + 1,
         UNCHANGED <<outcomes, attempts, sends>>, StoreType',
         \A v \in DOMAIN windows' : WindowOK(v)'
  PROVE  Inv'
<1> DEFINE T == {Emitter(w)}
<1>1. Emitter(w) \in Threads /\ T \in SUBSET Threads /\ T \cap Retries = {}
  BY ThreadNames DEF Retries
<1>2. thread' \in [Threads -> ThreadType] /\ thread'[Emitter(w)] = r
  BY <1>1 DEF Inv, Types
<1>3. /\ \A u \in Threads : u \notin T => thread'[u] = thread[u]
      /\ \A u \in T : thread[u].pc \notin {"sent", "deliver"} /\ thread'[u].pc \in Aside
  BY <1>1, <1>2 DEF Inv, Types
<1>4. Types'
  <2>1. faults' \in Nat
    BY DEF Inv, Types
  <2> QED BY <1>2, <2>1, ZenonT(30) DEF Inv, Types
<1> HIDE DEF T
<1> QED BY <1>1, <1>3, <1>4, AsideStep

LEMMA WakeStep == ASSUME Inv, Armed, NEW w \in WindowIds, Wake(w) PROVE Inv'
<1> DEFINE t == Emitter(w)
<1>1. t \in Threads
  BY ThreadNames
<1>2. /\ thread[t].pc = "sleep" /\ UNCHANGED <<outcomes, attempts, windows, sends, faults>>
  BY ZenonT(30) DEF Wake, store
<1>3. StoreType' /\ \A v \in DOMAIN windows' : WindowOK(v)'
  BY <1>2 DEF Inv, Types, StoreType, WindowOK
<1>4. PICK pc \in {"mark", "clear"} :
        thread' = [thread EXCEPT ![t].pc = pc, ![t].count = windows[w].count]
  BY Zenon DEF Wake
<1>5. PICK q \in ThreadType : thread[t] = q
  BY <1>1 DEF Inv, Types
<1>6. PICK c \in Nat : windows[w].count = c
  BY <1>2, Domains, Zenon DEF Inv, Types, WindowType, Armed
<1> DEFINE p == [q EXCEPT !.pc = pc]
           r == [p EXCEPT !.count = c]
<1>7. thread' = [thread EXCEPT ![t] = r]
  BY <1>1, <1>4, <1>5, <1>6, Zenon DEF Inv, Types
<1>8. p \in ThreadType /\ p.pc = pc
  BY <1>5, Zenon DEF ThreadType, Pcs
<1>9. r \in ThreadType /\ r.pc = pc /\ r.pc \in Aside
  <2> HIDE DEF p
  <2> QED BY <1>8, Zenon DEF ThreadType, Aside
<1> HIDE DEF p, r
<1> QED BY <1>2, <1>3, <1>7, <1>9, EmitterAside, Zenon

\* What Goes makes of an emitter.
LEMMA EmitterGoes ==
  ASSUME Inv, NEW w \in WindowIds, NEW pc \in Pcs, Goes(Emitter(w), pc)
  PROVE  \E r \in ThreadType : r.pc = pc /\ thread' = [thread EXCEPT ![Emitter(w)] = r]
<1>1. PICK q \in ThreadType : thread[Emitter(w)] = q
  BY ThreadNames DEF Inv, Types
<1> DEFINE r == [q EXCEPT !.pc = pc]
<1>2. r \in ThreadType /\ r.pc = pc
  BY <1>1 DEF ThreadType
<1>3. thread' = [thread EXCEPT ![Emitter(w)] = r]
  BY <1>1, ThreadNames DEF Goes, Inv, Types
<1> HIDE DEF r
<1> QED BY <1>2, <1>3, Zenon

LEMMA WakeEarlyStep == ASSUME Inv, NEW w \in WindowIds, WakeEarly(w) PROVE Inv'
<1>1. /\ thread[Emitter(w)].pc = "sleep" /\ Goes(Emitter(w), "clear")
      /\ faults' = faults + 1 /\ UNCHANGED <<outcomes, attempts, windows, sends>>
  BY Zenon DEF WakeEarly, Fault, store
<1>2. StoreType' /\ \A v \in DOMAIN windows' : WindowOK(v)'
  BY <1>1 DEF Inv, Types, StoreType, WindowOK
<1>3. PICK r \in ThreadType : r.pc = "clear" /\ thread' = [thread EXCEPT ![Emitter(w)] = r]
  BY <1>1, EmitterGoes, Zenon DEF Pcs
<1>4. r.pc \in Aside
  BY <1>3 DEF Aside
<1> QED BY <1>1, <1>2, <1>3, <1>4, EmitterAside, Zenon

\* What StoreCopy makes of the windows.
LEMMA CopyStored ==
  ASSUME Inv, NEW w \in WindowIds, NEW st \in {"dispatching", "delivered", "failed"},
         StoreCopy(w, st), UNCHANGED <<outcomes, attempts>>,
         st = "delivered" =>
           \E d \in DOMAIN outcomes :
             outcomes[d].source = Emitter(w) /\ outcomes[d].status = "delivered"
  PROVE  StoreType' /\ \A v \in DOMAIN windows' : WindowOK(v)'
<1> DEFINE c == thread[Emitter(w)].count
<1>1. c \in Nat
  BY ThreadNames DEF Inv, Types, ThreadType
<1>2. windows' = [windows EXCEPT ![w].status = st, ![w].count = c]
  BY ZenonT(30) DEF StoreCopy
<1> HIDE DEF c
<1>3. StoreType
  BY DEF Inv, Types
<1>4. /\ StoreType' /\ DOMAIN windows' = DOMAIN windows
      /\ \A v \in DOMAIN windows : v # w => windows'[v] = windows[v]
      /\ w \in DOMAIN windows => windows'[w].status = st
  BY <1>1, <1>2, <1>3, WindowSet, Zenon
<1>5. ASSUME NEW v \in DOMAIN windows PROVE WindowOK(v)'
  <2>1. CASE v # w
    BY <1>4, <2>1 DEF Inv, WindowOK
  <2>2. CASE v = w
    BY <1>4, <2>2 DEF WindowOK
  <2> QED BY <2>1, <2>2, ZenonT(30)
<1> QED BY <1>4, <1>5, ZenonT(30)

LEMMA MarkStep == ASSUME Inv, NEW w \in WindowIds, Mark(w) PROVE Inv'
<1>1. /\ thread[Emitter(w)].pc = "mark" /\ StoreCopy(w, "dispatching")
      /\ Goes(Emitter(w), "digest") /\ UNCHANGED <<outcomes, attempts, sends, faults>>
  BY DEF Mark
<1>2. StoreType' /\ \A v \in DOMAIN windows' : WindowOK(v)'
  BY <1>1, CopyStored
<1>3. PICK r \in ThreadType : r.pc = "digest" /\ thread' = [thread EXCEPT ![Emitter(w)] = r]
  BY <1>1, EmitterGoes, Zenon DEF Pcs
<1>4. r.pc \in Aside
  BY <1>3 DEF Aside
<1> QED BY <1>1, <1>2, <1>3, <1>4, EmitterAside, Zenon

LEMMA CloseWindowStep == ASSUME Inv, NEW w \in WindowIds, CloseWindow(w) PROVE Inv'
<1>1. PICK st \in {"failed", "delivered"} :
        /\ StoreCopy(w, st)
        /\ thread[Emitter(w)].pc \in {"digest", "close failed", "close delivered"}
        /\ st = "delivered" => thread[Emitter(w)].pc = "close delivered"
  BY Zenon DEF CloseWindow
<1>2. Goes(Emitter(w), "clear") /\ UNCHANGED <<outcomes, attempts, sends, faults>>
  BY Zenon DEF CloseWindow
<1>3. Emitter(w) \in Threads
  BY ThreadNames
<1>4. ASSUME st = "delivered"
      PROVE  \E d \in DOMAIN outcomes :
               outcomes[d].source = Emitter(w) /\ outcomes[d].status = "delivered"
  <2>1. RowOK(Emitter(w)) /\ OwnOK(Emitter(w)) /\ thread[Emitter(w)].pc = "close delivered"
    BY <1>1, <1>3, <1>4, Zenon DEF Inv, ThreadOK
  <2>2. /\ thread[Emitter(w)].d \in DOMAIN outcomes
        /\ outcomes[thread[Emitter(w)].d].status = "delivered"
    BY <2>1, Zenon DEF RowOK
  <2>3. outcomes[thread[Emitter(w)].d].source = Emitter(w)
    BY <2>1, Zenon DEF OwnOK
  <2> QED BY <2>2, <2>3
<1>5. StoreType' /\ \A v \in DOMAIN windows' : WindowOK(v)'
  BY <1>1, <1>2, <1>4, CopyStored, Zenon
<1>6. PICK r \in ThreadType : r.pc = "clear" /\ thread' = [thread EXCEPT ![Emitter(w)] = r]
  BY <1>2, EmitterGoes, Zenon DEF Pcs
<1>7. r.pc \in Aside
  BY <1>6 DEF Aside
<1> QED BY <1>1, <1>2, <1>5, <1>6, <1>7, EmitterAside, Zenon

LEMMA ClearWindowStep == ASSUME Inv, NEW w \in WindowIds, ClearWindow(w) PROVE Inv'
<1>1. /\ thread[Emitter(w)].pc = "clear" /\ thread' = [thread EXCEPT ![Emitter(w)] = Idle]
      /\ UNCHANGED <<outcomes, attempts, windows, sends, faults>>
  BY DEF ClearWindow, store
<1>2. StoreType' /\ \A v \in DOMAIN windows' : WindowOK(v)'
  BY <1>1 DEF Inv, Types, StoreType, WindowOK
<1>3. Idle.pc \in Aside
  BY IdleTyped DEF Aside
<1> QED BY <1>1, <1>2, <1>3, IdleTyped, EmitterAside, Zenon

LEMMA WindowOverStep == ASSUME Inv, NEW w \in WindowIds, WindowOver(w) PROVE Inv'
<1>1. /\ w \in DOMAIN windows /\ windows' = [windows EXCEPT ![w].over = TRUE]
      /\ UNCHANGED <<outcomes, attempts, thread, sends, faults>>
  BY DEF WindowOver
<1>2. PICK q \in WindowType : windows[w] = q
  BY <1>1, Domains DEF Inv, Types
<1> DEFINE r == [q EXCEPT !.over = TRUE]
<1>3. r \in WindowType /\ r.status = q.status
  BY <1>2, Zenon DEF WindowType
<1>4. windows' = [windows EXCEPT ![w] = r]
  BY <1>1, <1>2
<1> HIDE DEF r
<1>5. /\ StoreType' /\ DOMAIN windows' = DOMAIN windows /\ windows'[w] = r
      /\ \A v \in DOMAIN windows : v # w => windows'[v] = windows[v]
  BY <1>1, <1>3, <1>4, WindowPut, Zenon DEF Inv, Types
<1>6. \A v \in DOMAIN windows' : WindowOK(v)'
  BY <1>1, <1>2, <1>3, <1>5 DEF Inv, WindowOK
<1>7. Types'
  BY <1>1, <1>5 DEF Inv, Types
<1> DEFINE T == {}
<1>8. /\ T \in SUBSET Threads
      /\ \A u \in Threads : u \notin T => thread'[u] = thread[u]
      /\ \A u \in T : thread[u].pc \notin {"sent", "deliver"}
      /\ \A u \in T : Works(u)' => Works(u) /\ thread'[u].d = thread[u].d
      /\ \A u \in T : ThreadOK(u)'
  BY <1>1
<1> HIDE DEF T
<1> QED BY <1>1, <1>6, <1>7, <1>8, QuietStep

LEMMA EmitDigestStep == ASSUME Inv, NEW w \in WindowIds, EmitDigest(w) PROVE Inv'
<1> DEFINE t == Emitter(w)
<1>1. /\ t \in Threads /\ t \notin Retries /\ t \in Names /\ t = Emitter(w)
      /\ \A v \in WindowIds : t = Emitter(v) => v = w
  BY ThreadNames DEF Names, Emitters, Retries
<1>2. /\ thread[t].pc = "digest" /\ NewOutcome(t, "immediate")
      /\ thread' = [thread EXCEPT ![t].pc = "start", ![t].d = Len(outcomes')]
      /\ UNCHANGED <<windows, sends, faults>>
  BY DEF EmitDigest
<1>3. PICK q \in ThreadType : thread[t] = q
  BY <1>1 DEF Inv, Types
<1> HIDE DEF t
<1>4. PICK d \in Ids :
        /\ d = Len(outcomes) + 1 /\ Len(outcomes') = d /\ StoreType'
        /\ DOMAIN outcomes' = DOMAIN outcomes \cup {d}
        /\ \A e \in DOMAIN outcomes : outcomes'[e] = outcomes[e] /\ attempts'[e] = attempts[e]
        /\ outcomes'[d].status = "pending" /\ outcomes'[d].mode = "immediate"
        /\ outcomes'[d].source = t
  BY <1>1, <1>2, RowAdded, Zenon DEF Inv, Types
<1> DEFINE p == [q EXCEPT !.pc = "start"]
           r == [p EXCEPT !.d = d]
<1>5. thread' = [thread EXCEPT ![t] = r]
  BY <1>1, <1>2, <1>3, <1>4, Zenon DEF Inv, Types
<1>6. p \in ThreadType /\ p.pc = "start"
  BY <1>3, Zenon DEF ThreadType, Pcs, Dispatching, Unsettled
<1>7. r \in ThreadType /\ r.pc = "start" /\ r.d = d
  <2> HIDE DEF p
  <2> QED BY <1>6 DEF ThreadType
<1> HIDE DEF p, r
<1>8. /\ thread' \in [Threads -> ThreadType] /\ thread'[t].pc = "start" /\ thread'[t].d = d
      /\ \A u \in Threads : u # t => thread'[u] = thread[u]
  BY <1>1, <1>5, <1>7 DEF Inv, Types
<1>9. ThreadOK(t)'
  <2>1. RowOK(t)'
    BY <1>4, <1>8 DEF RowOK, Queueing, Dispatching, Unsettled
  <2>2. TriesOK(t)'
    BY <1>8 DEF TriesOK
  <2>3. OwnOK(t)'
    BY <1>1, <1>4, <1>8 DEF OwnOK, Retries
  <2> QED BY <2>1, <2>2, <2>3, ZenonT(30) DEF ThreadOK
<1>10. Types'
  BY <1>2, <1>4, <1>8, ZenonT(30) DEF Inv, Types
<1> QED BY <1>1, <1>2, <1>4, <1>8, <1>9, <1>10, NewStep, ZenonT(30)

-----------------------------------------------------------------------------
(* Faults *)

\* A fault may hide one send of each outcome, and is counted.
LEMMA FaultStep ==
  ASSUME Inv, Types', faults' = faults + 1, UNCHANGED <<outcomes, attempts, windows, sends>>,
         \A u \in Threads : /\ Works(u)' => Works(u) /\ thread'[u].d = thread[u].d
                            /\ ThreadOK(u)'
  PROVE  Inv'
<1>1. Apart'
  BY DEF Inv, Apart
<1>2. ASSUME NEW d \in DOMAIN outcomes PROVE OutcomeOK(d)'
  <2>1. OutcomeOK(d) /\ d \in Ids /\ sends[d] \in Nat /\ faults \in Nat
    BY Domains, ZenonT(30) DEF Inv, Types
  <2>2. /\ GaveUp(d)' <=> GaveUp(d)
        /\ Unfinished(d)' <=> Unfinished(d)
        /\ Last(d)' = Last(d)
    BY DEF GaveUp, Last, Unfinished
  <2>3. sends[d] <= faults + 1
    BY <2>1, ZenonT(30) DEF OutcomeOK
  <2>4. sends'[d] <= faults' /\ sends'[d] <= faults' + 1
    BY <2>1, <2>3
  <2> QED BY <2>1, <2>2, <2>4, Zenon DEF OutcomeOK
<1>3. \A w \in DOMAIN windows' : WindowOK(w)'
  BY DEF Inv, WindowOK
<1> QED BY <1>1, <1>2, <1>3, ZenonT(30) DEF Inv

\* A step that leaves the store and a thread alone leaves what it relies on.
LEMMA ThreadFrame ==
  ASSUME NEW u \in Threads, ThreadOK(u), thread'[u] = thread[u],
         UNCHANGED <<outcomes, attempts, sends>>
  PROVE  ThreadOK(u)' /\ (Works(u)' <=> Works(u))
<1>1. Works(u)' <=> Works(u)
  BY DEF Works
<1>2. RowOK(u)'
  BY <1>1, Zenon DEF ThreadOK, RowOK
<1>3. TriesOK(u)'
  BY DEF ThreadOK, TriesOK, GaveUp, Last
<1>4. OwnOK(u)'
  BY Zenon DEF ThreadOK, OwnOK
<1> QED BY <1>1, <1>2, <1>3, <1>4, ZenonT(30) DEF ThreadOK

LEMMA StoreErrorStep == ASSUME Inv, NEW t \in Threads, StoreError(t) PROVE Inv'
<1>1. /\ faults' = faults + 1 /\ UNCHANGED <<outcomes, attempts, windows, sends>>
      /\ thread[t].pc # "idle"
      /\ thread' = [thread EXCEPT ![t] = IF t \in Callers THEN Idle
                                                          ELSE [@ EXCEPT !.pc = "clear"]]
  BY Zenon DEF StoreError, Fault, store
<1>2. PICK q \in ThreadType : thread[t] = q /\ ThreadOK(t)
  BY DEF Inv, Types
<1>3. PICK r \in ThreadType :
        /\ thread' = [thread EXCEPT ![t] = r]
        /\ r.pc \in {"idle", "clear"}
        /\ t \in Retries => r.pc = "clear" /\ r.d = q.d
  <2>1. CASE t \in Callers
    <3>1. t \notin Retries
      BY <2>1, ThreadNames
    <3> QED BY <1>1, <2>1, <3>1, IdleTyped, Zenon
  <2>2. CASE t \notin Callers
    <3> DEFINE r == [q EXCEPT !.pc = "clear"]
    <3>1. r \in ThreadType /\ r.pc = "clear" /\ r.d = q.d
      BY <1>2, Zenon DEF ThreadType, Pcs
    <3>2. thread' = [thread EXCEPT ![t] = r]
      BY <1>1, <1>2, <2>2 DEF Inv, Types
    <3> HIDE DEF r
    <3> QED BY <3>1, <3>2, Zenon
  <2> QED BY <2>1, <2>2
<1>4. /\ thread' \in [Threads -> ThreadType] /\ thread'[t] = r
      /\ \A u \in Threads : u # t => thread'[u] = thread[u]
  BY <1>3 DEF Inv, Types
<1>5. /\ Works(t)' => Works(t) /\ thread'[t].d = thread[t].d
      /\ thread'[t].pc \notin Queueing \cup Dispatching
      /\ Works(t)' => t \in Retries
  BY <1>1, <1>2, <1>3, <1>4 DEF Works, Queueing, Dispatching, Unsettled
<1>6. ThreadOK(t)'
  <2>1. RowOK(t)'
    BY <1>1, <1>2, <1>3, <1>4, <1>5, ZenonT(30) DEF ThreadOK, RowOK, Dispatching
  <2>2. TriesOK(t)'
    BY <1>3, <1>4 DEF TriesOK
  <2>3. OwnOK(t)'
    <3>1. \A e \in Ids : t = Retry(e) => t \in Retries
      BY DEF Retries
    <3>2. OwnOK(t) /\ thread[t].pc # "idle"
      BY <1>1, <1>2 DEF ThreadOK
    <3>3. \A e \in Ids : t = Retry(e) => q.d = e /\ outcomes[q.d].mode # "digest"
      BY <1>2, <3>2, ZenonT(30) DEF OwnOK
    <3> QED BY <1>1, <1>3, <1>4, <3>1, <3>3, Zenon DEF OwnOK, Dispatching, Unsettled
  <2> QED BY <2>1, <2>2, <2>3 DEF ThreadOK
<1>7. \A u \in Threads : /\ Works(u)' => Works(u) /\ thread'[u].d = thread[u].d
                         /\ ThreadOK(u)'
  <2>1. ASSUME NEW u \in Threads, u # t
        PROVE  ThreadOK(u)' /\ (Works(u)' <=> Works(u)) /\ thread'[u] = thread[u]
    BY <1>1, <1>4, <2>1, ThreadFrame DEF Inv
  <2> QED BY <1>5, <1>6, <2>1
<1>8. Types'
  BY <1>1, <1>4 DEF Inv, Types, StoreType
<1> QED BY <1>1, <1>7, <1>8, FaultStep

\* A thread that is idle relies on nothing.
LEMMA IdleOK ==
  ASSUME NEW u \in Threads, thread[u].pc = "idle"
  PROVE  ThreadOK(u) /\ ~Works(u)
BY DEF ThreadOK, RowOK, TriesOK, OwnOK, Works, Queueing, Dispatching, Unsettled

LEMMA RestartStep == ASSUME Inv, Restart PROVE Inv'
<1>1. /\ faults' = faults + 1 /\ UNCHANGED <<outcomes, attempts, windows, sends>>
      /\ thread' = [t \in Threads |-> Idle]
  BY DEF Restart, Fault, store
<1>2. thread' \in [Threads -> ThreadType] /\ \A u \in Threads : thread'[u].pc = "idle"
  BY <1>1, IdleTyped
<1>3. \A u \in Threads : ThreadOK(u)' /\ ~Works(u)'
  BY <1>2, Zenon DEF ThreadOK, RowOK, TriesOK, OwnOK, Works, Queueing, Dispatching, Unsettled
<1>4. Types'
  BY <1>1, <1>2 DEF Inv, Types, StoreType
<1> QED BY <1>1, <1>3, <1>4, FaultStep, Zenon

LEMMA RestoreStep == ASSUME Inv, Restore PROVE Inv'
<1> DEFINE R == RestoredRetries
           W == RestoredWindows
<1>1. /\ \A t \in Threads : thread[t] = Idle
      /\ UNCHANGED <<outcomes, attempts, windows, sends, faults>>
      /\ thread' = [t \in Threads |->
                      CASE t \in {Retry(d) : d \in R} -> At("sleep", "none", t[2], 0, None, 0)
                        [] t \in {Emitter(w) : w \in W} -> At("sleep", "none", None, 0, t[2], 0)
                        [] OTHER -> Idle]
  BY ZenonT(30) DEF Restore, store
<1>2. \A d \in R : d \in DOMAIN outcomes /\ d \in Ids /\ outcomes[d].mode # "digest"
  BY Domains, ZenonT(30) DEF RestoredRetries, Inv, Types, OutcomeOK
<1>3. \A w \in W : w \in WindowIds
  BY Domains DEF RestoredWindows, Inv, Types
<1> HIDE DEF R, W
<1>4. ASSUME NEW d \in Ids, d \in R PROVE thread'[Retry(d)] = At("sleep", "none", d, 0, None, 0)
  <2>1. Retry(d) \in {Retry(e) : e \in R} /\ Retry(d) \in Threads /\ Retry(d)[2] = d
    BY <1>4, ThreadNames DEF Retry
  <2>2. Retry(d) \notin {Emitter(w) : w \in W}
    BY <1>3, ThreadNames
  <2>3. PICK t \in Threads :
          /\ t = Retry(d) /\ t \in {Retry(e) : e \in R} /\ t[2] = d
          /\ t \notin {Emitter(w) : w \in W}
    BY <2>1, <2>2
  <2>4. thread'[t] = At("sleep", "none", t[2], 0, None, 0)
    BY <1>1, <2>3
  <2> QED BY <2>3, <2>4
<1>5. ASSUME NEW w \in WindowIds, w \in W
      PROVE  thread'[Emitter(w)] = At("sleep", "none", None, 0, w, 0)
  <2>1. /\ Emitter(w) \in {Emitter(v) : v \in W} /\ Emitter(w) \in Threads /\ Emitter(w)[2] = w
        /\ Emitter(w) \notin {Retry(e) : e \in R}
    BY <1>2, <1>5, ThreadNames DEF Emitter, Retry
  <2>2. PICK t \in Threads :
          /\ t = Emitter(w) /\ t \in {Emitter(v) : v \in W} /\ t[2] = w
          /\ t \notin {Retry(e) : e \in R}
    BY <2>1
  <2>3. thread'[t] = At("sleep", "none", None, 0, t[2], 0)
    BY <1>1, <2>2
  <2> QED BY <2>2, <2>3
<1>6. ASSUME NEW t \in Threads, t \notin {Retry(d) : d \in R}, t \notin {Emitter(w) : w \in W}
      PROVE  thread'[t] = Idle
  BY <1>1, <1>6
<1>7. ASSUME NEW t \in Threads
      PROVE  \/ thread'[t] = Idle
             \/ \E d \in Ids : d \in R /\ t = Retry(d) /\ thread'[t] = At("sleep", "none", d, 0, None, 0)
             \/ \E w \in WindowIds : /\ w \in W /\ t = Emitter(w)
                                     /\ thread'[t] = At("sleep", "none", None, 0, w, 0)
  BY <1>2, <1>3, <1>4, <1>5, <1>6, ZenonT(30)
<1>8. /\ \A d \in Ids : /\ At("sleep", "none", d, 0, None, 0) \in ThreadType
                        /\ At("sleep", "none", d, 0, None, 0).pc = "sleep"
                        /\ At("sleep", "none", d, 0, None, 0).d = d
      /\ \A w \in WindowIds : /\ At("sleep", "none", None, 0, w, 0) \in ThreadType
                              /\ At("sleep", "none", None, 0, w, 0).pc = "sleep"
  BY DEF At, ThreadType, Pcs, Names, None
<1>9. thread' \in [Threads -> ThreadType]
  <2>1. \A t \in Threads : thread'[t] \in ThreadType
    BY <1>7, <1>8, IdleTyped
  <2>2. thread' = [t \in Threads |-> thread'[t]]
    BY <1>1
  <2> QED BY <2>1, <2>2, ZenonT(30)
<1>10. Types'
  BY <1>1, <1>9, ZenonT(30) DEF Inv, Types, StoreType
<1>11. ASSUME NEW t \in Threads
       PROVE  /\ ThreadOK(t)'
              /\ Works(t)' => \E d \in Ids : t = Retry(d) /\ thread'[t].d = d
  <2>1. CASE thread'[t] = Idle
    BY <2>1, IdleTyped
       DEF ThreadOK, RowOK, TriesOK, OwnOK, Works, Queueing, Dispatching, Unsettled
  <2>2. CASE \E d \in Ids : /\ d \in R /\ t = Retry(d)
                            /\ thread'[t] = At("sleep", "none", d, 0, None, 0)
    <3>1. PICK d \in Ids : d \in R /\ t = Retry(d) /\ thread'[t].pc = "sleep" /\ thread'[t].d = d
      BY <1>8, <2>2
    <3>2. RowOK(t)'
      BY <1>1, <1>2, <3>1, Zenon DEF RowOK, Queueing, Dispatching, Unsettled
    <3>3. TriesOK(t)'
      BY <3>1 DEF TriesOK
    <3>4. OwnOK(t)'
      BY <1>1, <1>2, <3>1, ThreadNames, ZenonT(30) DEF OwnOK
    <3> QED BY <3>1, <3>2, <3>3, <3>4, Zenon DEF ThreadOK
  <2>3. CASE \E w \in WindowIds : /\ w \in W /\ t = Emitter(w)
                                  /\ thread'[t] = At("sleep", "none", None, 0, w, 0)
    <3>1. thread'[t].pc = "sleep" /\ t \notin Retries /\ \A e \in Ids : t # Retry(e)
      BY <1>8, <2>3, ThreadNames DEF Retries
    <3> QED BY <3>1, ZenonT(30) DEF ThreadOK, RowOK, TriesOK, OwnOK, Works, Queueing, Dispatching, Unsettled
  <2> QED BY <1>7, <2>1, <2>2, <2>3
<1>12. Apart'
  BY <1>11 DEF Apart
<1>13. ASSUME NEW d \in DOMAIN outcomes PROVE OutcomeOK(d)'
  <2>1. OutcomeOK(d)
    BY DEF Inv
  <2>2. KnownSent(d) => outcomes[d].status = "delivered"
    BY <1>1, IdleTyped DEF KnownSent
  <2>3. /\ GaveUp(d)' <=> GaveUp(d)
        /\ Unfinished(d)' <=> Unfinished(d)
        /\ Last(d)' = Last(d)
    BY <1>1 DEF GaveUp, Last, Unfinished
  <2>4. KnownSent(d) => KnownSent(d)'
    BY <1>1, <2>2 DEF KnownSent
  <2> QED BY <1>1, <2>1, <2>3, <2>4 DEF OutcomeOK
<1>14. \A w \in DOMAIN windows' : WindowOK(w)'
  BY <1>1 DEF Inv, WindowOK
<1> QED BY <1>1, <1>10, <1>11, <1>12, <1>13, <1>14 DEF Inv

-----------------------------------------------------------------------------
(* The invariant holds *)

LEMMA InitHolds == Init => Inv /\ Armed /\ Numbering
<1> SUFFICES ASSUME Init PROVE Inv /\ Armed /\ Numbering
  OBVIOUS
<1>1. /\ outcomes = <<>> /\ attempts = <<>> /\ windows = <<>>
      /\ thread = [t \in Threads |-> Idle]
      /\ sends = [d \in Ids |-> 0] /\ faults = 0
  BY DEF Init
<1>2. \A t \in Threads : thread[t].pc = "idle" /\ thread[t] \in ThreadType
  BY <1>1, IdleTyped
<1>3. \A t \in Threads : ThreadOK(t) /\ ~Works(t)
  BY <1>2, IdleOK
<1>4. DOMAIN outcomes = {} /\ DOMAIN windows = {}
  BY <1>1
<1>5. StoreType
  BY <1>1, DeliveryAssumption DEF StoreType
<1>6. Types
  BY <1>1, <1>2, <1>5 DEF Types
<1>7. Armed
  BY <1>2, ThreadNames, Zenon DEF Armed
<1> QED BY <1>1, <1>3, <1>4, <1>6, <1>7 DEF Inv, Apart, Numbering

Joining == {"join", "queue", "arm window"}

LEMMA ArmedStep ==
  ASSUME Armed, window_scheduled \subseteq window_scheduled',
         DOMAIN windows \subseteq DOMAIN windows',
         \A w \in WindowIds :
           \/ thread'[Emitter(w)] = thread[Emitter(w)]
           \/ thread[Emitter(w)].pc # "idle" \/ thread'[Emitter(w)].pc = "idle"
           \/ w \in window_scheduled' /\ w \in DOMAIN windows',
         \A k \in Callers :
           \/ thread'[k] = thread[k]
           \/ thread'[k].pc \notin Joining \/ thread'[k].w = None
           \/ thread'[k].w \in DOMAIN windows'
  PROVE  Armed'
BY Zenon DEF Armed, Joining

\* A step of a dispatch.
LEMMA DispatchArmed == ASSUME Inv, Armed, NEW t \in Threads, Dispatch(t) PROVE Armed'
<1> USE DEF Joining
<1>1. thread \in [Threads -> ThreadType]
  BY DEF Inv, Types
<1>2. /\ thread[t].pc # "idle" /\ UNCHANGED window_scheduled
      /\ UNCHANGED windows
  BY DEF Dispatch, Start, Attempt, Send, RecordSent, Deliver, RecordUnsent, Requeue,
         ScheduleRetry, Refuse, Fail, Finish, store, schedules
<1>3. /\ \A u \in Threads : u # t /\ u \notin Retries => thread'[u] = thread[u]
      /\ t \in Callers => thread'[t].pc \notin Joining
  <2>1. CASE Start(t)
    <3>1. PICK pc \in {"attempt", "refuse"} :
            \E n : thread' = [thread EXCEPT ![t].pc = pc, ![t].n = n]
      BY <2>1, Zenon DEF Start, NextAttempt
    <3> PICK n : thread' = [thread EXCEPT ![t].pc = pc, ![t].n = n]
      BY <3>1, Zenon
    <3>2. PICK q \in ThreadType : thread[t] = q
      BY <1>1
    <3> DEFINE r == [q EXCEPT !.pc = pc, !.n = n]
    <3>3. thread' = [thread EXCEPT ![t] = r] /\ r.pc = pc
      BY <1>1, <3>1, <3>2, Zenon DEF ThreadType
    <3> HIDE DEF r
    <3> QED BY <1>1, <3>3, Zenon
  <2>2. CASE \E pc \in Unsettled \cup {"delivered", "failed"} : Goes(t, pc)
    <3>1. PICK pc \in Unsettled \cup {"delivered", "failed"} : Goes(t, pc)
      BY <2>2
    <3>2. pc \in Pcs /\ pc \notin Joining
      BY <3>1, Zenon DEF Pcs, Dispatching, Unsettled
    <3> QED BY <1>1, <3>1, <3>2, GoesTyped, Zenon
  <2>3. CASE ScheduleRetry(t)
    <3>1. thread[t].d \in Ids
      BY <2>3, WorkFacts DEF ScheduleRetry, Dispatching, Unsettled
    <3>2. PICK v \in Retries : v = Retry(thread[t].d) /\ v \notin Callers
      BY <3>1, DeliveryAssumption DEF Retries
    <3>3. PICK r \in ThreadType : r = AfterDispatch(t, "queued") /\ r.pc \notin Joining
      BY <1>1, AfterTyped, Zenon
    <3>4. \/ thread' = [thread EXCEPT ![t] = r]
          \/ thread' = [[thread EXCEPT ![t] = r] EXCEPT
                          ![v] = At("sleep", "none", thread[t].d, 0, None, 0)]
      BY <2>3, <3>2, <3>3, Zenon DEF ScheduleRetry
    <3> QED BY <1>1, <3>2, <3>3, <3>4, Zenon
  <2>4. CASE Finish(t)
    <3>1. PICK r \in ThreadType : r = AfterDispatch(t, thread[t].pc) /\ r.pc \notin Joining
      BY <1>1, AfterTyped, Zenon
    <3>2. thread' = [thread EXCEPT ![t] = r]
      BY <2>4, <3>1, Zenon DEF Finish
    <3> QED BY <1>1, <3>1, <3>2, Zenon
  <2>5. CASE Attempt(t)
    <3> DEFINE a == Len(attempts[thread[t].d]) + 1
    <3>1. thread' = [thread EXCEPT ![t].pc = "send", ![t].a = a]
      BY <2>5, Zenon DEF Attempt
    <3> HIDE DEF a
    <3>2. PICK q \in ThreadType : thread[t] = q
      BY <1>1
    <3> DEFINE r == [q EXCEPT !.pc = "send", !.a = a]
    <3>3. thread' = [thread EXCEPT ![t] = r] /\ r.pc = "send"
      BY <1>1, <3>1, <3>2, Zenon DEF ThreadType
    <3> HIDE DEF r
    <3> QED BY <1>1, <3>3, Zenon
  <2> QED
    BY <2>1, <2>2, <2>3, <2>4, <2>5, Zenon
       DEF Dispatch, Send, RecordSent, Deliver, RecordUnsent, Requeue, Refuse, Fail,
           Unsettled
<1>4. \A w \in WindowIds : Emitter(w) \in Threads /\ Emitter(w) \notin Retries
  BY ThreadNames DEF Retries
<1>5. \A k \in Callers : k \in Threads /\ k \notin Retries
  BY ThreadNames
<1>6. /\ \A w \in WindowIds : \/ thread'[Emitter(w)] = thread[Emitter(w)]
                              \/ thread[Emitter(w)].pc # "idle"
      /\ \A k \in Callers : thread'[k] = thread[k] \/ thread'[k].pc \notin Joining
  BY <1>2, <1>3, <1>4, <1>5, Zenon
<1> QED BY <1>2, <1>6, ArmedStep, Zenon

\* A step of one caller that leaves the schedules alone.
LEMMA CallerArmed ==
  ASSUME Inv, Armed, NEW k \in Callers, NEW r,
         thread' = [thread EXCEPT ![k] = r], UNCHANGED window_scheduled,
         DOMAIN windows \subseteq DOMAIN windows',
         r.pc \notin Joining \/ r.w = None \/ r.w \in DOMAIN windows'
  PROVE  Armed'
<1>1. thread'[k] = r /\ \A u \in Threads : u # k => thread'[u] = thread[u]
  BY ThreadNames DEF Inv, Types
<1>2. \A w \in WindowIds : thread'[Emitter(w)] = thread[Emitter(w)]
  BY <1>1, ThreadNames
<1>3. \A c \in Callers : c # k => thread'[c] = thread[c]
  BY <1>1, ThreadNames
<1> QED BY <1>1, <1>2, <1>3, ArmedStep

LEMMA ReportsArmed == ASSUME Inv, Armed, NEW k \in Callers, Reports(k) PROVE Armed'
<1> USE DEF Joining
<1>1. /\ k \in Threads /\ thread \in [Threads -> ThreadType] /\ k \notin Emitters
      /\ windows \in Seq(WindowType)
  BY ThreadNames DEF Inv, Types, StoreType
<1>2. PICK q \in ThreadType : thread[k] = q
  BY <1>1
<1>3. ASSUME NEW source \in Sources, Report(k, source) PROVE Armed'
  <2> DEFINE r == [q EXCEPT !.pc = "resolve", !.source = source]
  <2>1. thread' = [thread EXCEPT ![k] = r] /\ r.pc = "resolve"
    BY <1>1, <1>2, <1>3, Zenon DEF Report, ThreadType
  <2>2. UNCHANGED <<windows, window_scheduled>>
    BY <1>3 DEF Report, store, schedules
  <2> HIDE DEF r
  <2> QED BY <2>1, <2>2, CallerArmed, Zenon
<1>4. CASE Resolve(k)
  <2> DEFINE d == Len(outcomes')
  <2>1. PICK pc \in {"suppress", "find", "start"} :
          thread' = [thread EXCEPT ![k].d = d, ![k].pc = pc]
    BY <1>4, Zenon DEF Resolve
  <2> HIDE DEF d
  <2> DEFINE r == [q EXCEPT !.d = d, !.pc = pc]
  <2>2. thread' = [thread EXCEPT ![k] = r] /\ r.pc = pc
    BY <1>1, <1>2, <2>1, Zenon DEF ThreadType
  <2>3. UNCHANGED <<windows, window_scheduled>>
    BY <1>4 DEF Resolve, schedules
  <2> HIDE DEF r
  <2> QED BY <2>1, <2>2, <2>3, CallerArmed, Zenon
<1>5. CASE Suppress(k)
  BY <1>5, CallerArmed, IdleTyped, Zenon DEF Suppress, schedules
<1>6. CASE FindWindow(k)
  <2>1. PICK w \in DOMAIN windows \cup {None} :
          \E c : thread' = [thread EXCEPT ![k].pc = "join", ![k].w = w, ![k].count = c]
    BY <1>6, Zenon DEF FindWindow
  <2>2. PICK c : thread' = [thread EXCEPT ![k].pc = "join", ![k].w = w, ![k].count = c]
    BY <2>1, Zenon
  <2> DEFINE r == [q EXCEPT !.pc = "join", !.w = w, !.count = c]
  <2>3. thread' = [thread EXCEPT ![k] = r] /\ r.w = w
    BY <1>1, <1>2, <2>2, Zenon DEF ThreadType
  <2>4. UNCHANGED <<windows, window_scheduled>>
    BY <1>6, Zenon DEF FindWindow, store, schedules
  <2> HIDE DEF r
  <2> QED BY <2>1, <2>3, <2>4, CallerArmed, Zenon
<1>7. CASE JoinWindow(k)
  <2>1. UNCHANGED window_scheduled /\ thread[k].pc = "join"
    BY <1>7 DEF JoinWindow, schedules
  <2>2. CASE /\ thread[k].w # None /\ Goes(k, "queue")
             /\ windows' = [windows EXCEPT ![thread[k].w].status = "open",
                                           ![thread[k].w].count = thread[k].count]
    <3> DEFINE r == [q EXCEPT !.pc = "queue"]
    <3>1. thread' = [thread EXCEPT ![k] = r] /\ r.w = q.w
      BY <1>1, <1>2, <2>2 DEF ThreadType, Goes
    <3>2. DOMAIN windows' = DOMAIN windows
      BY <2>2
    <3>3. q.w \in DOMAIN windows
      BY <1>2, <2>1, <2>2, Zenon DEF Armed
    <3> HIDE DEF r
    <3> QED BY <2>1, <3>1, <3>2, <3>3, CallerArmed, Zenon
  <2>3. CASE /\ windows' = Append(windows, [status |-> "open", count |-> 1, over |-> FALSE])
             /\ thread' = [thread EXCEPT ![k].pc = "queue", ![k].w = Len(windows')]
    <3> DEFINE row == [status |-> "open", count |-> 1, over |-> FALSE]
               r == [q EXCEPT !.pc = "queue", !.w = Len(windows')]
    <3>1. thread' = [thread EXCEPT ![k] = r] /\ r.w = Len(windows')
      BY <1>1, <1>2, <2>3, Zenon DEF ThreadType
    <3>2. row \in WindowType
      BY DEF WindowType
    <3>3. windows' = Append(windows, row)
      BY <2>3
    <3> HIDE DEF r, row
    <3>4. DOMAIN windows \subseteq DOMAIN windows' /\ Len(windows') \in DOMAIN windows'
      BY <1>1, <3>2, <3>3
    <3> QED BY <2>1, <3>1, <3>4, CallerArmed, Zenon
  <2> QED BY <1>7, <2>2, <2>3, ZenonT(30) DEF JoinWindow
<1>8. CASE QueueDigest(k)
  <2>1. Goes(k, "arm window") /\ UNCHANGED <<windows, window_scheduled>> /\ thread[k].pc = "queue"
    BY <1>8, Zenon DEF QueueDigest, schedules
  <2> DEFINE r == [q EXCEPT !.pc = "arm window"]
  <2>2. thread' = [thread EXCEPT ![k] = r] /\ r.w = q.w
    BY <1>1, <1>2, <2>1, Zenon DEF ThreadType, Goes
  <2>3. q.w = None \/ q.w \in DOMAIN windows
    BY <1>2, <2>1, Zenon DEF Armed
  <2> HIDE DEF r
  <2> QED BY <2>1, <2>2, <2>3, CallerArmed, Zenon
<1>9. CASE ScheduleWindow(k)
  <2>1. UNCHANGED windows /\ thread[k].pc = "arm window"
    BY <1>9, Zenon DEF ScheduleWindow, store
  <2>2. PICK w \in WindowIds : thread[k].w = w /\ w \in DOMAIN windows
    BY <1>1, <2>1, Zenon DEF Inv, Types, ThreadType, ThreadOK, RowOK, Armed
  <2> DEFINE armed == [thread EXCEPT ![k] = Idle]
  <2>3. CASE thread' = armed /\ UNCHANGED window_scheduled
    BY <2>1, <2>3, CallerArmed, IdleTyped, Zenon
  <2>4. CASE /\ window_scheduled' = window_scheduled \cup {w}
             /\ thread' = [armed EXCEPT ![Emitter(w)] = At("sleep", "none", None, 0, w, 0)]
    <3>1. \A u \in Threads : u # k /\ u # Emitter(w) => thread'[u] = thread[u]
      BY <1>1, <2>4
    <3>2. thread'[k].pc = "idle"
      <4>1. k # Emitter(w)
        BY ThreadNames
      <4> QED BY <1>1, <2>4, <4>1, IdleTyped
    <3>3. \A v \in WindowIds : v = w \/ thread'[Emitter(v)] = thread[Emitter(v)]
      BY <3>1, ThreadNames
    <3>4. \A c \in Callers : c = k \/ thread'[c] = thread[c]
      BY <3>1, ThreadNames
    <3> QED BY <2>1, <2>2, <2>4, <3>2, <3>3, <3>4, ArmedStep, Zenon
  <2> QED BY <1>9, <2>2, <2>3, <2>4, Zenon DEF ScheduleWindow
<1> QED BY <1>3, <1>4, <1>5, <1>6, <1>7, <1>8, <1>9, ZenonT(30) DEF Reports

LEMMA RetryArmed ==
  ASSUME Inv, Armed, NEW d \in Ids, Resume(d) \/ ClearRetry(d)
  PROVE  Armed'
<1>1. UNCHANGED <<windows, window_scheduled>>
  BY DEF Resume, ClearRetry, store, schedules
<1>2. \A u \in Threads : u # Retry(d) => thread'[u] = thread[u]
  BY Zenon DEF Resume, ClearRetry, NextAttempt, Goes, Inv, Types
<1>3. /\ \A w \in WindowIds : thread'[Emitter(w)] = thread[Emitter(w)]
      /\ \A k \in Callers : thread'[k] = thread[k]
  BY <1>2, ThreadNames
<1> QED BY <1>1, <1>3, ArmedStep

LEMMA EmitsArmed ==
  ASSUME Inv, Armed, NEW w \in WindowIds, Emits(w) \/ WindowOver(w)
  PROVE  Armed'
<1>1. thread \in [Threads -> ThreadType] /\ \A k \in Callers : k \in Threads /\ k # Emitter(w)
  BY ThreadNames DEF Inv, Types
<1>2. \A u \in Threads : u # Emitter(w) => thread'[u] = thread[u]
  BY <1>1, Zenon DEF Emits, Wake, WakeEarly, Mark, EmitDigest, CloseWindow, ClearWindow,
                     WindowOver, Goes
<1>3. DOMAIN windows' = DOMAIN windows
  BY Zenon
     DEF Emits, Wake, WakeEarly, Mark, EmitDigest, CloseWindow, ClearWindow, WindowOver,
         StoreCopy, store
<1>4. /\ \A v \in WindowIds : v = w \/ thread'[Emitter(v)] = thread[Emitter(v)]
      /\ \A k \in Callers : thread'[k] = thread[k]
  BY <1>1, <1>2, ThreadNames
<1>5. CASE ClearWindow(w)
  <2>1. /\ window_scheduled' = window_scheduled \ {w} /\ thread'[Emitter(w)].pc = "idle"
    BY <1>1, <1>5, IdleTyped, ThreadNames DEF ClearWindow
  <2> QED BY <1>3, <1>4, <2>1, Zenon DEF Armed
<1>6. CASE ~ClearWindow(w)
  <2>1. UNCHANGED window_scheduled
    BY <1>6, Zenon
       DEF Emits, Wake, WakeEarly, Mark, EmitDigest, CloseWindow, WindowOver, schedules
  <2>2. thread'[Emitter(w)] = thread[Emitter(w)] \/ thread[Emitter(w)].pc # "idle"
    BY <1>6, Zenon DEF Emits, Wake, WakeEarly, Mark, EmitDigest, CloseWindow, WindowOver
  <2> QED BY <1>3, <1>4, <2>1, <2>2, ArmedStep
<1> QED BY <1>5, <1>6

LEMMA FaultsArmed ==
  ASSUME Inv, Armed, Restart \/ Restore \/ \E t \in Threads : StoreError(t)
  PROVE  Armed'
<1>1. ASSUME NEW t \in Threads, StoreError(t) PROVE Armed'
  <2>1. UNCHANGED <<windows, window_scheduled>> /\ thread[t].pc # "idle"
    BY <1>1, Zenon DEF StoreError, store, schedules
  <2>2. /\ \A u \in Threads : u # t => thread'[u] = thread[u]
        /\ t \in Callers => thread'[t] = Idle
    BY <1>1, Zenon DEF StoreError, Inv, Types
  <2>3. /\ \A w \in WindowIds : \/ thread'[Emitter(w)] = thread[Emitter(w)]
                                \/ thread[Emitter(w)].pc # "idle"
        /\ \A k \in Callers : thread'[k] = thread[k] \/ thread'[k].pc \notin Joining
    BY <2>1, <2>2, IdleTyped, ThreadNames, Zenon DEF Joining
  <2> QED BY <2>1, <2>3, ArmedStep
<1>2. CASE Restart
  <2>1. \A t \in Threads : thread'[t].pc = "idle"
    BY <1>2, IdleTyped DEF Restart
  <2> QED BY <2>1, ThreadNames, Zenon DEF Armed
<1>3. CASE Restore
  <2>1. window_scheduled' = RestoredWindows /\ UNCHANGED windows
    BY <1>3 DEF Restore, store
  <2>2. \A d \in RestoredRetries : d \in Ids
    BY Domains, Zenon DEF RestoredRetries, Inv, Types
  <2>3. ASSUME NEW w \in WindowIds, w \notin RestoredWindows PROVE thread'[Emitter(w)].pc = "idle"
    <3>1. /\ Emitter(w) \in Threads /\ Emitter(w) \notin {Retry(d) : d \in RestoredRetries}
          /\ Emitter(w) \notin {Emitter(v) : v \in RestoredWindows}
      BY <2>2, <2>3, ThreadNames, Domains DEF RestoredWindows, Inv, Types
    <3>2. thread'[Emitter(w)] = Idle
      BY <1>3, <3>1 DEF Restore
    <3> QED BY <3>2, IdleTyped
  <2>4. ASSUME NEW k \in Callers PROVE thread'[k].pc = "idle"
    <3>1. /\ k \in Threads /\ k \notin {Retry(d) : d \in RestoredRetries}
          /\ k \notin {Emitter(v) : v \in RestoredWindows}
      BY <2>2, ThreadNames, Domains DEF RestoredWindows, Inv, Types
    <3>2. thread'[k] = Idle
      BY <1>3, <3>1 DEF Restore
    <3> QED BY <3>2, IdleTyped
  <2>5. \A w \in RestoredWindows : w \in DOMAIN windows'
    BY <2>1 DEF RestoredWindows
  <2> QED BY <2>1, <2>3, <2>4, <2>5, Zenon DEF Armed
<1> QED BY <1>1, <1>2, <1>3

-----------------------------------------------------------------------------
(* Attempt numbers *)

LEMMA NumberedFrame ==
  ASSUME NEW e, attempts'[e] = attempts[e], Numbered(e)
  PROVE  Numbered(e)'
BY DEF Numbered

\* An attempt is added: its number is the highest, or another is.
LEMMA AddedNumbering ==
  ASSUME Inv, Numbering, NEW t \in Threads, Attempt(t) \/ Refuse(t)
  PROVE  Numbering'
<1>1. thread[t].pc \in {"attempt", "refuse"} /\ thread[t].pc \in Unsettled
  BY DEF Attempt, Refuse, Unsettled
<1>2. PICK d \in DOMAIN outcomes :
        /\ thread[t].d = d /\ TriesOK(t)
        /\ attempts[d] \in Seq(AttemptType) /\ Len(attempts[d]) \in Nat /\ thread[t].n \in Nat
  BY <1>1, UnsettledFacts, ZenonT(30)
<1>3. PICK n \in Nat : thread[t].n = n /\ n \in 1..(Len(attempts[d]) + 1)
  BY <1>1, <1>2 DEF TriesOK
<1>4. StoreType /\ UNCHANGED <<outcomes, windows>>
  BY DEF Inv, Types, Attempt, Refuse
<1>5. PICK s \in Marks : AddAttempt(t, s)
  BY Zenon DEF Attempt, Refuse, Marks
<1>6. /\ Len(attempts'[d]) = Len(attempts[d]) + 1 /\ attempts'[d] \in Seq(AttemptType)
      /\ \A e \in DOMAIN outcomes : e # d => attempts'[e] = attempts[e]
      /\ \A a \in 1..Len(attempts[d]) : attempts'[d][a] = attempts[d][a]
      /\ attempts'[d][Len(attempts[d]) + 1].number = n
  BY <1>2, <1>3, <1>4, <1>5, AttemptAdded
<1>7. Numbered(d)'
  <2> DEFINE l == Len(attempts[d])
             old == attempts[d]
             new == attempts'[d]
  <2>1. PICK m \in 0..l :
          /\ \A a \in DOMAIN old : old[a].number <= m
          /\ m = 0 \/ \E a \in DOMAIN old : old[a].number = m
    BY DEF Numbering, Numbered
  <2>2. /\ l \in Nat /\ DOMAIN old = 1..l /\ DOMAIN new = 1..(l + 1) /\ Len(new) = l + 1
        /\ \A a \in 1..l : old[a].number \in Nat /\ new[a].number = old[a].number
        /\ new[l + 1].number = n
    <3>1. l \in Nat /\ DOMAIN old = 1..l /\ DOMAIN new = 1..(l + 1) /\ Len(new) = l + 1
      BY <1>2, <1>6
    <3>2. \A a \in 1..l : old[a].number \in Nat
      BY <1>2, <3>1, NumbersTyped, Zenon
    <3> QED BY <1>6, <3>1, <3>2, Zenon
  <2> HIDE DEF l, old, new
  <2>3. PICK k \in 0..(l + 1) : k >= m /\ k >= n /\ (k = m \/ k = n) /\ (k = m => m # 0)
    BY <1>3, <2>1, <2>2 DEF l
  <2>4. ASSUME NEW a \in 1..(l + 1) PROVE new[a].number <= k
    <3>1. CASE a = l + 1
      BY <2>2, <2>3, <3>1
    <3>2. CASE a \in 1..l
      <4>1. PICK x \in Nat : old[a].number = x /\ new[a].number = x /\ x <= m
        BY <2>1, <2>2, <3>2, Zenon
      <4> QED BY <2>1, <2>2, <2>3, <4>1
    <3> QED BY <2>2, <3>1, <3>2
  <2>5. \E a \in 1..(l + 1) : new[a].number = k
    <3>1. CASE k = n
      BY <2>2, <3>1
    <3>2. CASE k = m
      BY <2>1, <2>2, <2>3, <3>2
    <3> QED BY <2>3, <3>1, <3>2
  <2>6. \E j \in 0..Len(new) :
          /\ \A a \in DOMAIN new : new[a].number <= j
          /\ j = 0 \/ \E a \in DOMAIN new : new[a].number = j
    BY <2>2, <2>3, <2>4, <2>5, Zenon
  <2> QED BY <2>6 DEF Numbered, new
<1>8. \A e \in DOMAIN outcomes : Numbered(e)'
  <2>1. \A e \in DOMAIN outcomes : e # d => Numbered(e)'
    BY <1>6, NumberedFrame, Zenon DEF Numbering
  <2> QED BY <1>7, <2>1, Zenon
<1> QED BY <1>4, <1>8, Zenon DEF Numbering

\* What became of an attempt does not change its number.
LEMMA RecordNumbering ==
  ASSUME Inv, Numbering, NEW t \in Threads, RecordSent(t) \/ RecordUnsent(t)
  PROVE  Numbering'
<1>1. thread[t].pc \in {"sent", "unsent"} /\ thread[t].pc \in Unsettled
  BY DEF RecordSent, RecordUnsent, Unsettled
<1>2. PICK d \in DOMAIN outcomes :
        /\ thread[t].d = d /\ TriesOK(t)
        /\ attempts[d] \in Seq(AttemptType) /\ Len(attempts[d]) \in Nat
  BY <1>1, UnsettledFacts, ZenonT(30)
<1>3. PICK k \in Nat \ {0} : thread[t].a = k /\ k = Len(attempts[d])
  BY <1>1, <1>2 DEF TriesOK
<1>4. StoreType /\ UNCHANGED <<outcomes, windows>>
  BY DEF Inv, Types, RecordSent, RecordUnsent
<1>5. PICK s \in Marks : StoreAttempt(t, s)
  BY Zenon DEF RecordSent, RecordUnsent, Marks
<1>6. /\ Len(attempts'[d]) = Len(attempts[d]) /\ attempts'[d] \in Seq(AttemptType)
      /\ \A e \in DOMAIN outcomes : e # d => attempts'[e] = attempts[e]
      /\ \A a \in DOMAIN attempts[d] : attempts'[d][a].number = attempts[d][a].number
  BY <1>2, <1>3, <1>4, <1>5, AttemptStored
<1>7. DOMAIN attempts'[d] = DOMAIN attempts[d]
  BY <1>2, <1>6
<1>8. Numbered(d)'
  <2>1. PICK m \in 0..Len(attempts[d]) :
          /\ \A a \in DOMAIN attempts[d] : attempts[d][a].number <= m
          /\ m = 0 \/ \E a \in DOMAIN attempts[d] : attempts[d][a].number = m
    BY DEF Numbering, Numbered
  <2>2. /\ m \in 0..Len(attempts'[d])
        /\ \A a \in DOMAIN attempts'[d] : attempts'[d][a].number <= m
        /\ m = 0 \/ \E a \in DOMAIN attempts'[d] : attempts'[d][a].number = m
    BY <1>6, <1>7, <2>1, Zenon
  <2> QED BY <2>2, Zenon DEF Numbered
<1>9. \A e \in DOMAIN outcomes : e # d => Numbered(e)'
  BY <1>6, NumberedFrame, Zenon DEF Numbering
<1> QED BY <1>4, <1>8, <1>9, Zenon DEF Numbering

\* A new outcome has no attempts.
LEMMA NewNumbering ==
  ASSUME StoreType, Numbering, NEW source \in Names,
         NEW mode \in {"suppressed", "digest", "immediate"},
         NewOutcome(source, mode), UNCHANGED windows
  PROVE  Numbering'
<1>1. PICK d : d = Len(outcomes) + 1
  OBVIOUS
<1>2. /\ DOMAIN outcomes' = DOMAIN outcomes \cup {d}
      /\ \A e \in DOMAIN outcomes : attempts'[e] = attempts[e]
      /\ attempts'[d] = <<>>
  BY <1>1, RowAdded, Zenon
<1>3. Numbered(d)'
  <2>1. Len(attempts'[d]) = 0 /\ DOMAIN attempts'[d] = {} /\ 0 \in 0..0
    BY <1>2
  <2> QED BY <2>1, Zenon DEF Numbered
<1>4. \A e \in DOMAIN outcomes : Numbered(e)'
  BY <1>2, NumberedFrame, Zenon DEF Numbering
<1> QED BY <1>2, <1>3, <1>4, Zenon DEF Numbering

LEMMA NumberingStep == ASSUME Inv, Numbering, [Next]_vars PROVE Numbering'
<1>1. CASE attempts' = attempts /\ DOMAIN outcomes' = DOMAIN outcomes
  BY <1>1, NumberedFrame, Zenon DEF Numbering
<1>2. StoreType /\ thread \in [Threads -> ThreadType]
  BY DEF Inv, Types
<1>3. ASSUME NEW k \in Callers, Resolve(k) PROVE Numbering'
  <2>1. thread[k].source \in Names
    BY <1>2, ThreadNames DEF ThreadType
  <2> QED BY <1>2, <1>3, <2>1, NewNumbering DEF Resolve
<1>4. ASSUME NEW w \in WindowIds, EmitDigest(w) PROVE Numbering'
  <2>1. Emitter(w) \in Names
    BY DEF Names, Emitters
  <2> QED BY <1>2, <1>4, <2>1, NewNumbering DEF EmitDigest
<1>5. ASSUME NEW k \in Callers, Reports(k) PROVE Numbering'
  <2>1. \/ Resolve(k)
        \/ attempts' = attempts /\ DOMAIN outcomes' = DOMAIN outcomes
    BY <1>5, Zenon DEF Reports, Report, Suppress, FindWindow, JoinWindow, QueueDigest,
                       ScheduleWindow, SetStatus, store
  <2> QED BY <1>1, <1>3, <2>1
<1>6. ASSUME NEW t \in Threads, Dispatch(t) PROVE Numbering'
  <2>1. \/ Attempt(t) \/ Refuse(t) \/ RecordSent(t) \/ RecordUnsent(t)
        \/ attempts' = attempts /\ DOMAIN outcomes' = DOMAIN outcomes
    BY <1>6, Zenon DEF Dispatch, Start, Send, Deliver, Requeue, ScheduleRetry, Fail, Finish,
                       SetStatus, store
  <2> QED BY <1>1, <2>1, AddedNumbering, RecordNumbering
<1>7. ASSUME NEW w \in WindowIds, Emits(w) \/ WindowOver(w) PROVE Numbering'
  <2>1. EmitDigest(w) \/ (attempts' = attempts /\ DOMAIN outcomes' = DOMAIN outcomes)
    BY <1>7, Zenon DEF Emits, Wake, WakeEarly, Mark, CloseWindow, ClearWindow, WindowOver, store
  <2> QED BY <1>1, <1>4, <2>1
<1>8. ASSUME \/ Restart \/ Restore \/ UNCHANGED vars
             \/ \E t \in Threads : StoreError(t)
             \/ \E d \in Ids : Resume(d) \/ ClearRetry(d)
      PROVE  Numbering'
  <2>1. attempts' = attempts /\ DOMAIN outcomes' = DOMAIN outcomes
    BY <1>8, Zenon DEF Restart, Restore, StoreError, Resume, ClearRetry, store, vars
  <2> QED BY <1>1, <2>1
<1> QED BY <1>5, <1>6, <1>7, <1>8, Zenon DEF Next

-----------------------------------------------------------------------------
(* The theorems *)

LEMMA Preserved == ASSUME Inv, Armed, Numbering, [Next]_vars PROVE Inv' /\ Armed'
<1>1. CASE UNCHANGED vars
  <2>1. UNCHANGED <<outcomes, attempts, windows, window_scheduled, thread, sends, faults>>
    BY <1>1 DEF vars, store, schedules
  <2>2. \A u \in Threads : ThreadOK(u)' /\ (Works(u)' <=> Works(u))
    BY <2>1, ThreadFrame DEF Inv
  <2>3. Inv'
    <3> DEFINE T == {}
    <3>1. /\ T \in SUBSET Threads
          /\ \A u \in Threads : u \notin T => thread'[u] = thread[u]
          /\ \A u \in T : thread[u].pc \notin {"sent", "deliver"}
          /\ \A u \in T : Works(u)' => Works(u) /\ thread'[u].d = thread[u].d
          /\ \A u \in T : ThreadOK(u)'
      BY <2>1
    <3>2. Types' /\ \A w \in DOMAIN windows' : WindowOK(w)'
      BY <2>1 DEF Inv, Types, StoreType, WindowOK
    <3> HIDE DEF T
    <3> QED BY <2>1, <3>1, <3>2, QuietStep
  <2> QED BY <2>1, <2>3, Zenon DEF Armed
<1>2. ASSUME NEW k \in Callers, Reports(k) PROVE Inv' /\ Armed'
  BY <1>2, ReportsArmed, ReportStep, ResolveStep, SuppressStep, FindWindowStep, JoinWindowStep,
     QueueDigestStep, ScheduleWindowStep DEF Reports
<1>3. ASSUME NEW t \in Threads, Dispatch(t) PROVE Inv' /\ Armed'
  BY <1>3, DispatchArmed, StartStep, AddedSteps, RecordSteps, SendStep, SettleSteps,
     FinishStep, ScheduleRetryStep, Zenon DEF Dispatch
<1>4. ASSUME NEW d \in Ids, Resume(d) \/ ClearRetry(d) PROVE Inv' /\ Armed'
  BY <1>4, RetryArmed, ResumeStep, ClearRetryStep
<1>5. ASSUME NEW w \in WindowIds, Emits(w) \/ WindowOver(w) PROVE Inv' /\ Armed'
  BY <1>5, EmitsArmed, WakeStep, WakeEarlyStep, MarkStep, EmitDigestStep, CloseWindowStep,
     ClearWindowStep, WindowOverStep DEF Emits
<1>6. ASSUME Restart \/ Restore \/ \E t \in Threads : StoreError(t) PROVE Inv' /\ Armed'
  BY <1>6, FaultsArmed, RestartStep, RestoreStep, StoreErrorStep
<1> QED BY <1>1, <1>2, <1>3, <1>4, <1>5, <1>6 DEF Next

\* The store's statuses, what the threads hold, the numbers of the attempts and
\* what was sent agree, in every reachable state.
THEOREM Invariant == Spec => [](Inv /\ Armed /\ Numbering)
<1>1. Init => Inv /\ Armed /\ Numbering
  BY InitHolds
<1>2. Inv /\ Armed /\ Numbering /\ [Next]_vars => (Inv /\ Armed /\ Numbering)'
  BY Preserved, NumberingStep
<1> QED BY <1>1, <1>2, PTL DEF Spec

\* A final status is what happened: what is delivered was sent, and its attempt
\* made last says so; what failed was refused or had all its attempts; and a
\* window is delivered only when a digest of it was.  It is so whatever
\* dispatchers, retries, emitters, failing writes and reads, restarts and
\* restores interleave: next_attempt_number, which takes attempts it cannot read
\* for none, may number them from 1 again any number of times.
THEOREM AlwaysFinishedTruthfully == Spec => []FinishedTruthfully
<1>1. Inv => FinishedTruthfully
  BY DEF Inv, OutcomeOK, GaveUp, WindowOK, FinishedTruthfully
<1> QED BY <1>1, Invariant, PTL

\* An outcome is sent once, and once more at most for each fault; a result that
\* waits for its window is never sent by itself.
THEOREM AlwaysSentOnce == Spec => []SentOnce
<1>1. Inv => SentOnce
  <2> SUFFICES ASSUME Inv, NEW d \in DOMAIN outcomes
               PROVE  sends[d] <= IF outcomes[d].mode = "digest" THEN 0 ELSE 1 + faults
    BY DEF SentOnce
  <2>1. OutcomeOK(d) /\ sends[d] \in Nat /\ faults \in Nat
    BY Domains DEF Inv, Types
  <2> QED BY <2>1 DEF OutcomeOK
<1> QED BY <1>1, Invariant, PTL

=============================================================================
