--------------------------- MODULE TurnLoopProofs ---------------------------
(***************************************************************************)
(* Theorems about a turn over all its attempts, for any calls, messages,   *)
(* attempts and faults and every setting of the limits.  The inductive     *)
(* invariant says what an attempt has in memory, how the stored record     *)
(* relates to it, and what both say of calls that ran; there is one lemma  *)
(* for every kind of step.                                                 *)
(***************************************************************************)
EXTENDS TurnLoop, TLAPS

-----------------------------------------------------------------------------
(* The invariant *)

CallType == [id : Calls, state : CallStates]
RoundType == [steered_before : Seq(Messages), calls : CallSeqs]
Items == (Calls \cup Messages) \X {"read", "done", "interrupted", "did not run"}

Types ==
  /\ stored = NoRecord \/ (stored \in Records /\ Len(stored.rounds) <= MaxToolRounds)
  /\ ck \in Records /\ left \in Records
  /\ rounds \in Nat
  /\ Len(ck.rounds) <= rounds /\ rounds + Len(left.rounds) <= MaxToolRounds
  /\ inbox \in Seq(Messages) /\ Len(inbox) <= MaxPending
  /\ history \in Seq(Items)
  /\ used \subseteq Calls /\ unsent \subseteq Messages
  /\ invoked \in [Calls -> Nat]
  /\ accepted \subseteq Messages /\ shown \subseteq Messages
  /\ journaled \subseteq Calls \cup Messages
  /\ attempts \in Nat /\ faults \in Nat
  /\ queued \subseteq Nat /\ running \subseteq Nat

Flags ==
  /\ journal_failed \in BOOLEAN /\ replaying \in BOOLEAN
  /\ repaired \in BOOLEAN /\ failed \in BOOLEAN /\ closed \in BOOLEAN
  /\ pc \in {"idle", "replay", "calls", "batch", "loop", "model", "answered"}
  /\ outcome \in {"none", "answered", "capped", "failed", "crashed"}

\* Where the attempt is, and what it has in memory there.
Control ==
  /\ pc = "idle" => ck = Empty
  /\ pc = "replay" => replaying
  /\ pc \in {"idle", "loop", "model", "answered"} => ~replaying
  /\ ~replaying => left = Empty
  /\ replaying => ck.steered = <<>>
  /\ pc # "batch" => queued = {} /\ running = {}
  /\ pc \in {"calls", "batch"} => ck.rounds # <<>>
  /\ pc = "model" => Len(ck.rounds) < rounds
  /\ pc \in {"idle", "answered"} <=> closed

\* The record is where the attempt stands, or there is none.  (Unless a stale
\* one could not be deleted.)
Written == ~DeleteMayFail =>
  /\ journal_failed => stored = NoRecord
  /\ attempts = 0 => stored = NoRecord /\ pc = "idle"
  /\ attempts = 1 /\ pc # "idle" => left = Empty /\ stored \in {NoRecord, ck}
  /\ pc \in {"calls", "batch"} => stored \in {NoRecord, ck}
  /\ pc # "idle" /\ ck.rounds # <<>> /\ stored # NoRecord => stored.rounds = ck.rounds

Unsafe(call) == call.id \in Calls \ Safe
NotRun(call, count) == ~DeleteMayFail => count[call.id] = 0

\* What is said of every call of a round,
CallsOK(calls, known, count) ==
  /\ \A i \in DOMAIN calls :
       /\ calls[i].id \in known
       /\ Unsafe(calls[i]) /\ calls[i].state = "planned" => NotRun(calls[i], count)
  /\ \A i, j \in DOMAIN calls :
       i < j /\ Unsafe(calls[i]) /\ calls[i].state \in {"planned", "started"} =>
         calls[j].state \notin {"started", "done"}
RoundOK(r, known, count) == CallsOK(r.calls, known, count)
RoundsOK(rs, known, count) == \A k \in DOMAIN rs : RoundOK(rs[k], known, count)

\* that no call is in two places,
Unique(rs) ==
  \A k, l \in DOMAIN rs : \A i \in DOMAIN rs[k].calls, j \in DOMAIN rs[l].calls :
    rs[k].calls[i].id = rs[l].calls[j].id => k = l /\ i = j
Apart(rs, ss) ==
  \A k \in DOMAIN rs, l \in DOMAIN ss :
    \A i \in DOMAIN rs[k].calls, j \in DOMAIN ss[l].calls :
      rs[k].calls[i].id # ss[l].calls[j].id

Distinct(r) == \A i, j \in DOMAIN r.calls : r.calls[i].id = r.calls[j].id => i = j
Foreign(r, rs) ==
  \A k \in DOMAIN rs : \A i \in DOMAIN rs[k].calls, j \in DOMAIN r.calls :
    rs[k].calls[i].id # r.calls[j].id

\* and that a round is over before the next one starts.
Over(r) == \A i \in DOMAIN r.calls : Settled(r.calls[i])
OverBut(rs) == \A k \in DOMAIN rs : k < Len(rs) => Over(rs[k])

Sound(rs, known, count) == RoundsOK(rs, known, count) /\ Unique(rs)

Places ==
  /\ Sound(ck.rounds, used, invoked) /\ Sound(left.rounds, used, invoked)
  /\ Apart(ck.rounds, left.rounds)
  /\ OverBut(ck.rounds)
  /\ stored # NoRecord => Sound(stored.rounds, used, invoked) /\ OverBut(stored.rounds)
  /\ pc \in {"replay", "loop", "model", "answered"} =>
       \A k \in DOMAIN ck.rounds : Over(ck.rounds[k])

\* The calls of the batch are those marked started; one with side effects is
\* alone in it and has not run before.
BatchOK(calls, waiting, polled, count) ==
  /\ waiting \subseteq DOMAIN calls /\ polled \subseteq DOMAIN calls /\ waiting \cap polled = {}
  /\ \A i \in DOMAIN calls : calls[i].state = "started" <=> i \in waiting \cup polled
  /\ \A i \in waiting : Unsafe(calls[i]) => NotRun(calls[i], count)
  /\ \A i \in waiting \cup polled : Unsafe(calls[i]) =>
       /\ waiting \cup polled = {i}
       /\ \A j \in DOMAIN calls : j < i => Settled(calls[j])
Batch ==
  /\ pc = "calls" => \A i \in DOMAIN Current : Current[i].state # "started"
  /\ pc = "batch" => BatchOK(Current, queued, running, invoked)

Once == ~DeleteMayFail =>
  /\ \A c \in Calls \ used : invoked[c] = 0
  /\ \A c \in Calls \ Safe : invoked[c] <= 1

\* A message that was accepted waits in the inbox or is in the history, all of
\* which the model is shown before it answers.
Mail ==
  /\ pc # "idle" => accepted \subseteq Elements(inbox) \cup MessagesIn(history)
  /\ pc = "model" => MessagesIn(history) \subseteq shown
  /\ pc = "answered" => accepted \subseteq shown
  /\ outcome = "answered" => pc = "idle" /\ accepted \subseteq shown

Memory == Types /\ Flags /\ Control
Inv == Memory /\ Written /\ Places /\ Batch /\ Once

-----------------------------------------------------------------------------
(* Rounds and their calls *)

LEMMA SameLength ==
  ASSUME NEW S, NEW T, NEW s \in Seq(S), NEW f \in [DOMAIN s -> T]
  PROVE  f \in Seq(T) /\ Len(f) = Len(s)
<1>1. DOMAIN s = 1..Len(s) /\ Len(s) \in Nat
  OBVIOUS
<1>2. f \in [1..Len(s) -> T]
  BY <1>1
<1> QED BY <1>1, <1>2

LEMMA Elem ==
  ASSUME NEW S, NEW s \in Seq(S)
  PROVE  /\ \A i \in DOMAIN s : s[i] \in S /\ i \in Nat /\ 1 <= i /\ i <= Len(s)
         /\ s # <<>> => Len(s) \in DOMAIN s
         /\ Len(s) \in Nat
OBVIOUS

LEMMA OneMore ==
  ASSUME NEW a \in Nat, NEW b \in Nat, NEW c \in Nat, b <= a, a + c <= MaxToolRounds
  PROVE  a + 1 \in Nat /\ b < a + 1 /\ (a + 1) + (c - 1) <= MaxToolRounds
BY TurnLoopAssumption

LEMMA RecordTypes ==
  /\ Records = [rounds : Seq(RoundType), steered : Seq(Messages)]
  /\ RoundType = [steered_before : Seq(Messages), calls : Seq(CallType)]
  /\ \A r \in Records : r.rounds \in Seq(RoundType) /\ r.steered \in Seq(Messages)
  /\ \A r \in RoundType : r.steered_before \in Seq(Messages) /\ r.calls \in Seq(CallType)
<1>1. Records = [rounds : Seq(RoundType), steered : Seq(Messages)]
  BY Zenon DEF Records, RoundType
<1>2. RoundType = [steered_before : Seq(Messages), calls : Seq(CallType)]
  BY Zenon DEF RoundType, CallSeqs, CallType
<1>3. \A r \in Records : r.rounds \in Seq(RoundType) /\ r.steered \in Seq(Messages)
  BY <1>1
<1>4. \A r \in RoundType : r.steered_before \in Seq(Messages) /\ r.calls \in Seq(CallType)
  BY <1>2
<1> QED BY <1>1, <1>2, <1>3, <1>4, Zenon

LEMMA CallsInRounds ==
  ASSUME NEW rs
  PROVE  \A call : call \in CallsIn(rs) <=>
           \E k \in DOMAIN rs : \E i \in DOMAIN rs[k].calls : call = rs[k].calls[i]
BY DEF CallsIn

LEMMA EmptySound ==
  ASSUME NEW known, NEW count
  PROVE  /\ Empty \in Records /\ Empty.rounds = <<>> /\ Empty.steered = <<>>
         /\ Sound(<<>>, known, count) /\ OverBut(<<>>)
         /\ \A rs : Apart(rs, <<>>) /\ Apart(<<>>, rs)
         /\ Len(Empty.rounds) <= 0 /\ 0 + Len(Empty.rounds) <= MaxToolRounds /\ 0 \in Nat
         /\ Len(Empty.rounds) <= MaxToolRounds
         /\ \A S : <<>> \in Seq(S)
         /\ Len(<<>>) <= MaxPending
<1>1. /\ Empty \in Records /\ Empty.rounds = <<>> /\ Empty.steered = <<>>
      /\ Sound(<<>>, known, count) /\ OverBut(<<>>)
      /\ \A rs : Apart(rs, <<>>) /\ Apart(<<>>, rs)
  BY DEF Empty, Records, Sound, RoundsOK, Unique, OverBut, Apart
<1>2. 0 <= MaxToolRounds /\ 0 <= MaxPending /\ Len(<<>>) = 0
  BY TurnLoopAssumption
<1> QED BY <1>1, <1>2

LEMMA SoundGrows ==
  ASSUME NEW rs, NEW known, NEW count, NEW more, known \subseteq more, Sound(rs, known, count)
  PROVE  Sound(rs, more, count)
BY Zenon DEF Sound, RoundsOK, RoundOK, CallsOK

\* A call is invoked that no round has planned.
LEMMA SoundInvoked ==
  ASSUME NEW rs, NEW known, NEW count \in [Calls -> Nat], NEW c \in Calls,
         Sound(rs, known, count),
         c \in Safe \/ DeleteMayFail \/ \A k \in DOMAIN rs : \A i \in DOMAIN rs[k].calls :
                         rs[k].calls[i].id = c => rs[k].calls[i].state # "planned"
  PROVE  Sound(rs, known, [count EXCEPT ![c] = @ + 1])
<1> DEFINE new == [count EXCEPT ![c] = @ + 1]
<1>1. \A d \in Calls : d # c => new[d] = count[d]
  OBVIOUS
<1> HIDE DEF new
<1>2. ASSUME NEW k \in DOMAIN rs PROVE RoundOK(rs[k], known, new)
  <2>1. RoundOK(rs[k], known, count)
    BY Zenon DEF Sound, RoundsOK
  <2>2. ASSUME NEW i \in DOMAIN rs[k].calls, Unsafe(rs[k].calls[i]),
               rs[k].calls[i].state = "planned", ~DeleteMayFail
        PROVE  new[rs[k].calls[i].id] = 0
    <3>1. rs[k].calls[i].id # c /\ rs[k].calls[i].id \in Calls
      BY <2>2, Zenon DEF Unsafe
    <3>2. count[rs[k].calls[i].id] = 0
      BY <2>1, <2>2, Zenon DEF RoundOK, CallsOK, NotRun
    <3> QED BY <1>1, <3>1, <3>2, Zenon
  <2> QED BY <2>1, <2>2, Zenon DEF RoundOK, CallsOK, NotRun
<1> QED BY <1>2, Zenon DEF Sound, RoundsOK, new

LEMMA AppendRound ==
  ASSUME NEW rs \in Seq(RoundType), NEW r \in RoundType
  PROVE  /\ Append(rs, r) \in Seq(RoundType) /\ Len(Append(rs, r)) = Len(rs) + 1
         /\ DOMAIN Append(rs, r) = DOMAIN rs \cup {Len(rs) + 1}
         /\ Len(rs) + 1 \notin DOMAIN rs
         /\ \A k \in DOMAIN rs : Append(rs, r)[k] = rs[k] /\ k <= Len(rs)
         /\ Append(rs, r)[Len(rs) + 1] = r
         /\ Append(rs, r) # <<>>
OBVIOUS

LEMMA AppendSound ==
  ASSUME NEW rs \in Seq(RoundType), NEW r \in RoundType, NEW known, NEW count,
         Sound(rs, known, count), RoundOK(r, known, count),
         Distinct(r), Foreign(r, rs)
  PROVE  Sound(Append(rs, r), known, count)
<1> DEFINE ss == Append(rs, r)
           n == Len(rs) + 1
<1>1. /\ DOMAIN ss = DOMAIN rs \cup {n} /\ n \notin DOMAIN rs
      /\ \A k \in DOMAIN rs : ss[k] = rs[k]
      /\ ss[n] = r
  BY AppendRound
<1> HIDE DEF ss, n
<1>2. RoundsOK(ss, known, count)
  BY <1>1, Zenon DEF Sound, RoundsOK
<1>3. Unique(ss)
  <2> SUFFICES ASSUME NEW k \in DOMAIN ss, NEW l \in DOMAIN ss,
                      NEW i \in DOMAIN ss[k].calls, NEW j \in DOMAIN ss[l].calls,
                      ss[k].calls[i].id = ss[l].calls[j].id
               PROVE  k = l /\ i = j
    BY Zenon DEF Unique
  <2>1. CASE k \in DOMAIN rs /\ l \in DOMAIN rs
    BY <1>1, <2>1 DEF Sound, Unique
  <2>2. CASE k = n /\ l = n
    BY <1>1, <2>2, Zenon DEF Distinct
  <2>3. CASE k \in DOMAIN rs /\ l = n
    BY <1>1, <2>3 DEF Foreign
  <2>4. CASE k = n /\ l \in DOMAIN rs
    BY <1>1, <2>4 DEF Foreign
  <2> QED BY <1>1, <2>1, <2>2, <2>3, <2>4, Zenon
<1> QED BY <1>2, <1>3, Zenon DEF Sound, ss

\* `ss` has the calls of `rs`, in other states perhaps.
SameCalls(rs, ss) ==
  /\ DOMAIN ss = DOMAIN rs
  /\ \A k \in DOMAIN rs :
       /\ DOMAIN ss[k].calls = DOMAIN rs[k].calls
       /\ \A i \in DOMAIN rs[k].calls : ss[k].calls[i].id = rs[k].calls[i].id

LEMMA SamePlaces ==
  ASSUME NEW rs, NEW ss, NEW others, SameCalls(rs, ss), Unique(rs), Apart(rs, others)
  PROVE  Unique(ss) /\ Apart(ss, others)
<1>1. Unique(ss)
  BY DEF SameCalls, Unique
<1>2. Apart(ss, others)
  BY DEF SameCalls, Apart
<1> QED BY <1>1, <1>2, Zenon

LEMMA ResumedRound ==
  ASSUME NEW r \in RoundType
  PROVE  /\ Resumed(r) \in RoundType
         /\ Resumed(r).steered_before = r.steered_before
         /\ DOMAIN Resumed(r).calls = DOMAIN r.calls
         /\ \A i \in DOMAIN r.calls :
              /\ r.calls[i] \in CallType
              /\ Resumed(r).calls[i].id = r.calls[i].id
              /\ Resumed(r).calls[i].state = ResumedState(r.calls[i])
<1>1. /\ r.calls \in Seq(CallType)
      /\ \A i \in DOMAIN r.calls : r.calls[i] \in CallType
  BY RecordTypes, Elem, Zenon
<1>2. \A i \in DOMAIN r.calls : [id |-> r.calls[i].id, state |-> ResumedState(r.calls[i])] \in CallType
  BY <1>1 DEF ResumedState, CallType, CallStates
<1>3. Resumed(r).calls \in [DOMAIN r.calls -> CallType]
  BY <1>2 DEF Resumed
<1>5. Resumed(r).calls \in Seq(CallType)
  BY <1>1, <1>3, SameLength, Zenon
<1>4. Resumed(r) \in RoundType
  BY <1>5, RecordTypes DEF Resumed
<1> QED BY <1>1, <1>4 DEF Resumed

LEMMA ResumedOK ==
  ASSUME NEW r \in RoundType, NEW known, NEW count, RoundOK(r, known, count)
  PROVE  /\ RoundOK(Resumed(r), known, count)
         /\ \A i \in DOMAIN r.calls : Resumed(r).calls[i].state # "started"
<1> DEFINE s == Resumed(r)
<1>1. /\ DOMAIN s.calls = DOMAIN r.calls
      /\ \A i \in DOMAIN r.calls :
           /\ s.calls[i].id = r.calls[i].id /\ s.calls[i].state # "started"
           /\ s.calls[i].state = "planned" /\ Unsafe(s.calls[i]) => r.calls[i].state = "planned"
           /\ s.calls[i].state = "done" <=> r.calls[i].state = "done"
  BY ResumedRound DEF ResumedState, Unsafe
<1> HIDE DEF s
<1>2. \A i \in DOMAIN r.calls : /\ Unsafe(s.calls[i]) <=> Unsafe(r.calls[i])
                                /\ NotRun(s.calls[i], count) <=> NotRun(r.calls[i], count)
  BY <1>1, Zenon DEF Unsafe, NotRun
<1>3. RoundOK(s, known, count)
  BY <1>1, <1>2 DEF RoundOK, CallsOK
<1> QED BY <1>1, <1>3, Zenon DEF s

\* `new` are the calls `old`, those of `S` with another state.
Marked(old, new, S, state) ==
  /\ DOMAIN new = DOMAIN old
  /\ \A i \in DOMAIN old :
       /\ new[i].id = old[i].id
       /\ new[i].state = IF i \in S THEN state ELSE old[i].state

LEMMA WithStateRecord ==
  ASSUME ck \in Records, ck.rounds # <<>>, NEW S, NEW state \in CallStates,
         NEW new, new = WithState(S, state)
  PROVE  /\ new \in Records /\ new.steered = ck.steered /\ Len(new.rounds) = Len(ck.rounds)
         /\ DOMAIN new.rounds = DOMAIN ck.rounds
         /\ \A k \in DOMAIN ck.rounds : k # Len(ck.rounds) => new.rounds[k] = ck.rounds[k]
         /\ Marked(Current, new.rounds[Len(ck.rounds)].calls, S, state)
         /\ Current \in Seq(CallType) /\ Len(ck.rounds) \in DOMAIN ck.rounds /\ Len(ck.rounds) \in Nat
<1> DEFINE n == Len(ck.rounds)
           calls == [i \in DOMAIN Current |->
                       IF i \in S THEN [Current[i] EXCEPT !.state = state] ELSE Current[i]]
           round == [ck.rounds[n] EXCEPT !.calls = calls]
<1>1. /\ ck.rounds \in Seq(RoundType) /\ n \in DOMAIN ck.rounds /\ n \in Nat
      /\ ck.rounds[n] \in RoundType
  BY RecordTypes, Elem, Zenon
<1>2. Current \in Seq(CallType) /\ \A i \in DOMAIN Current : Current[i] \in CallType
  BY <1>1, RecordTypes, Elem, Zenon DEF Current
<1>3. \A i \in DOMAIN Current :
        LET call == [Current[i] EXCEPT !.state = state]
        IN  call \in CallType /\ call.id = Current[i].id /\ call.state = state
  BY <1>2 DEF CallType
<1>4. calls \in Seq(CallType)
  <2>1. calls \in [DOMAIN Current -> CallType]
    BY <1>2, <1>3
  <2> HIDE DEF calls
  <2> QED BY <1>2, <2>1, SameLength, Zenon
<1>5. /\ round \in RoundType /\ round.calls = calls
      /\ round.steered_before = ck.rounds[n].steered_before
  BY <1>1, <1>4, RecordTypes, ZenonT(30)
<1>6. new = [ck EXCEPT !.rounds = [ck.rounds EXCEPT ![n] = round]]
  BY Zenon DEF WithState, Current
<1>7. /\ [ck.rounds EXCEPT ![n] = round] \in Seq(RoundType)
      /\ Len([ck.rounds EXCEPT ![n] = round]) = n
  BY <1>1, <1>5
<1>8. /\ new \in Records /\ new.steered = ck.steered
      /\ new.rounds = [ck.rounds EXCEPT ![n] = round]
  BY <1>6, <1>7, RecordTypes, ZenonT(30)
<1>9. \A i \in DOMAIN Current :
        /\ calls[i].id = Current[i].id
        /\ calls[i].state = IF i \in S THEN state ELSE Current[i].state
  BY <1>2, <1>3, Zenon
<1>10. /\ DOMAIN new.rounds = DOMAIN ck.rounds
       /\ \A k \in DOMAIN ck.rounds : k # n => new.rounds[k] = ck.rounds[k]
       /\ new.rounds[n] = round
  BY <1>1, <1>8
<1> HIDE DEF round
<1>11. Marked(Current, new.rounds[n].calls, S, state)
  BY <1>5, <1>9, <1>10, Zenon DEF Marked
<1> QED BY <1>1, <1>2, <1>7, <1>8, <1>10, <1>11, Zenon

\* What marking calls of the current round keeps.
LEMMA MarkedSound ==
  ASSUME ck \in Records, ck.rounds # <<>>, NEW S, NEW state \in CallStates,
         NEW new, new = WithState(S, state), NEW known, NEW count,
         NEW others, Sound(ck.rounds, known, count), Apart(ck.rounds, others), OverBut(ck.rounds),
         RoundOK(new.rounds[Len(ck.rounds)], known, count)
  PROVE  Sound(new.rounds, known, count) /\ Apart(new.rounds, others) /\ OverBut(new.rounds)
<1> DEFINE n == Len(ck.rounds)
<1>1. /\ n \in DOMAIN ck.rounds /\ n \in Nat /\ Len(new.rounds) = n
      /\ DOMAIN new.rounds = DOMAIN ck.rounds
      /\ \A k \in DOMAIN ck.rounds : k # n => new.rounds[k] = ck.rounds[k]
      /\ DOMAIN new.rounds[n].calls = DOMAIN ck.rounds[n].calls
      /\ \A i \in DOMAIN ck.rounds[n].calls :
           new.rounds[n].calls[i].id = ck.rounds[n].calls[i].id
  <2>1. Marked(Current, new.rounds[n].calls, S, state)
    BY WithStateRecord, Zenon
  <2>2. /\ DOMAIN new.rounds[n].calls = DOMAIN ck.rounds[n].calls
        /\ \A i \in DOMAIN ck.rounds[n].calls :
             new.rounds[n].calls[i].id = ck.rounds[n].calls[i].id
    BY <2>1, Zenon DEF Current, Marked
  <2>3. /\ n \in DOMAIN ck.rounds /\ n \in Nat /\ Len(new.rounds) = n
        /\ DOMAIN new.rounds = DOMAIN ck.rounds
        /\ \A k \in DOMAIN ck.rounds : k # n => new.rounds[k] = ck.rounds[k]
    BY WithStateRecord, Zenon
  <2> QED BY <2>2, <2>3, Zenon
<1>2. RoundOK(new.rounds[n], known, count)
  OBVIOUS
<1> HIDE DEF n
<1>3. SameCalls(ck.rounds, new.rounds)
  BY <1>1, Zenon DEF SameCalls
<1>4. RoundsOK(new.rounds, known, count)
  BY <1>1, <1>2, Zenon DEF Sound, RoundsOK
<1>5. OverBut(new.rounds)
  <2>1. \A k \in DOMAIN ck.rounds : k < n => k # n
    BY <1>1
  <2> QED BY <1>1, <2>1, Zenon DEF OverBut, n
<1>6. Unique(new.rounds) /\ Apart(new.rounds, others)
  BY <1>3, SamePlaces, Zenon DEF Sound
<1> QED BY <1>4, <1>5, <1>6, Zenon DEF Sound

LEMMA TailRounds ==
  ASSUME NEW rs \in Seq(RoundType), rs # <<>>
  PROVE  /\ Tail(rs) \in Seq(RoundType) /\ Len(Tail(rs)) = Len(rs) - 1
         /\ 1 \in DOMAIN rs /\ Head(rs) = rs[1] /\ Head(rs) \in RoundType
         /\ \A k \in DOMAIN Tail(rs) :
              k + 1 \in DOMAIN rs /\ k + 1 # 1 /\ Tail(rs)[k] = rs[k + 1] /\ k \in Nat
OBVIOUS

LEMMA TailSound ==
  ASSUME NEW rs \in Seq(RoundType), rs # <<>>, NEW known, NEW count, Sound(rs, known, count),
         NEW others, Apart(others, rs), NEW tail, tail = Tail(rs), NEW first, first = Head(rs)
  PROVE  /\ Sound(tail, known, count) /\ RoundOK(first, known, count) /\ Apart(others, tail)
         /\ Distinct(first) /\ Foreign(first, tail) /\ Foreign(first, others)
<1>1. /\ 1 \in DOMAIN rs /\ first = rs[1]
      /\ \A k \in DOMAIN tail :
           k + 1 \in DOMAIN rs /\ k + 1 # 1 /\ tail[k] = rs[k + 1] /\ k \in Nat
      /\ \A k, l \in DOMAIN tail : k + 1 = l + 1 => k = l
  BY TailRounds
<1>2. RoundsOK(tail, known, count) /\ RoundOK(first, known, count)
  BY <1>1, Zenon DEF Sound, RoundsOK
<1>3. Unique(tail)
  <2> SUFFICES ASSUME NEW k \in DOMAIN tail, NEW l \in DOMAIN tail,
                      NEW i \in DOMAIN tail[k].calls, NEW j \in DOMAIN tail[l].calls,
                      tail[k].calls[i].id = tail[l].calls[j].id
               PROVE  k = l /\ i = j
    BY Zenon DEF Unique
  <2>1. k + 1 = l + 1 /\ i = j
    BY <1>1 DEF Sound, Unique
  <2> QED BY <1>1, <2>1, Zenon
<1>4. Distinct(first)
  BY <1>1 DEF Sound, Unique, Distinct
<1>5. Foreign(first, tail)
  BY <1>1 DEF Sound, Unique, Foreign
<1>6. Apart(others, tail) /\ Foreign(first, others)
  BY <1>1 DEF Apart, Foreign
<1> QED BY <1>2, <1>3, <1>4, <1>5, <1>6, Zenon DEF Sound

\* A round joins the others, as run_calls takes it up.
LEMMA AppendResumed ==
  ASSUME NEW rs \in Seq(RoundType), NEW round \in RoundType, NEW known, NEW count,
         Sound(rs, known, count), RoundOK(round, known, count),
         Distinct(round), Foreign(round, rs), \A k \in DOMAIN rs : Over(rs[k]),
         NEW others, Apart(rs, others), Foreign(round, others),
         NEW new, new = Append(rs, Resumed(round))
  PROVE  /\ new \in Seq(RoundType) /\ Len(new) = Len(rs) + 1 /\ new # <<>>
         /\ Sound(new, known, count) /\ Apart(new, others) /\ OverBut(new)
         /\ \A i \in DOMAIN new[Len(new)].calls : new[Len(new)].calls[i].state # "started"
<1> DEFINE r == Resumed(round)
           n == Len(rs) + 1
<1>1. /\ r \in RoundType /\ RoundOK(r, known, count)
      /\ DOMAIN r.calls = DOMAIN round.calls
      /\ \A i \in DOMAIN round.calls : r.calls[i].id = round.calls[i].id
      /\ \A i \in DOMAIN round.calls : r.calls[i].state # "started"
  BY ResumedRound, ResumedOK
<1>2. /\ new \in Seq(RoundType) /\ Len(new) = n /\ new # <<>>
      /\ DOMAIN new = DOMAIN rs \cup {n}
      /\ \A k \in DOMAIN rs : new[k] = rs[k]
      /\ new[n] = r
      /\ \A k \in DOMAIN new : k < n => k \in DOMAIN rs
  BY <1>1, AppendRound
<1> HIDE DEF r, n
<1>3. Distinct(r) /\ Foreign(r, rs) /\ Foreign(r, others)
  BY <1>1 DEF Distinct, Foreign
<1>4. Sound(new, known, count)
  BY <1>1, <1>3, AppendSound, Zenon DEF r
<1>5. Apart(new, others)
  <2> SUFFICES ASSUME NEW k \in DOMAIN new, NEW l \in DOMAIN others,
                      NEW i \in DOMAIN new[k].calls, NEW j \in DOMAIN others[l].calls
               PROVE  new[k].calls[i].id # others[l].calls[j].id
    BY Zenon DEF Apart
  <2>1. CASE k \in DOMAIN rs
    BY <1>2, <2>1 DEF Apart
  <2>2. CASE k = n
    BY <1>2, <1>3, <2>2 DEF Foreign
  <2> QED BY <1>2, <2>1, <2>2, Zenon
<1>6. OverBut(new)
  BY <1>2, Zenon DEF OverBut
<1> QED BY <1>1, <1>2, <1>4, <1>5, <1>6, Zenon DEF n

LEMMA CallElements ==
  ASSUME NEW calls \in Seq(CallType)
  PROVE  \A j \in DOMAIN calls : j \in Nat /\ calls[j].state \in CallStates
<1> SUFFICES ASSUME NEW j \in DOMAIN calls
             PROVE  j \in Nat /\ calls[j].state \in CallStates
  OBVIOUS
<1>1. j \in Nat /\ calls[j] \in CallType
  BY Elem
<1> QED BY <1>1 DEF CallType

\* What BatchFrom starts when `i` is the first planned call.
LEMMA BatchFromCalls ==
  ASSUME NEW i \in DOMAIN Current, Current \in Seq(CallType), Planned(i),
         \A j \in 1..(i - 1) : ~Planned(j)
  PROVE  /\ i \in BatchFrom(i) /\ BatchFrom(i) \subseteq DOMAIN Current
         /\ \A j \in BatchFrom(i) : Current[j].state = "planned"
         /\ \A j \in BatchFrom(i) : Unsafe(Current[j]) => BatchFrom(i) = {j}
         /\ \A j, k \in DOMAIN Current :
              Current[j].state = "planned" /\ j < k /\ k \in BatchFrom(i) => j \in BatchFrom(i)
         /\ \A j \in DOMAIN Current : j < i => Current[j].state # "planned"
<1> DEFINE S == BatchFrom(i)
           n == Len(Current)
<1>1. DOMAIN Current = 1..n /\ n \in Nat /\ \A j \in DOMAIN Current : j < i => ~Planned(j)
  OBVIOUS
<1>2. CASE ~Parallel(i)
  <2>1. S = {i}
    BY <1>2, Zenon DEF BatchFrom
  <2> HIDE DEF S
  <2> QED BY <1>1, <2>1 DEF Planned, S
<1>3. CASE Parallel(i)
  <2>1. S = {j \in i..n : \A k \in i..j : Parallel(k) /\ Planned(k)}
    BY <1>3, Zenon DEF BatchFrom
  <2> HIDE DEF S, n
  <2>2. \A j \in S : Parallel(j) /\ Planned(j)
    BY <1>1, <2>1
  <2>3. i \in S /\ S \subseteq DOMAIN Current
    BY <1>1, <1>3, <2>1
  <2>4. \A j \in S : Current[j].state = "planned" /\ ~Unsafe(Current[j])
    BY <2>2, Zenon DEF Planned, Parallel, Unsafe
  <2>5. ASSUME NEW j \in DOMAIN Current, NEW k \in DOMAIN Current, Planned(j), j < k, k \in S
        PROVE  j \in S
    <3>1. j >= i
      BY <1>1, <2>5
    <3> QED BY <1>1, <2>1, <2>5, <3>1
  <2> QED BY <1>1, <2>3, <2>4, <2>5, Zenon DEF Planned, S
<1> QED BY <1>2, <1>3, Zenon

\* A batch starts: its calls were planned, nothing was started before, and one
\* with side effects is alone in it.
LEMMA StartedCalls ==
  ASSUME NEW old, NEW new, NEW S, NEW i \in S, NEW known, NEW count,
         old \in Seq(CallType), Marked(old, new, S, "started"),
         CallsOK(old, known, count), \A j \in DOMAIN old : old[j].state # "started",
         S \subseteq DOMAIN old, \A j \in S : old[j].state = "planned",
         \A j \in S : Unsafe(old[j]) => S = {j},
         \A j, k \in DOMAIN old : old[j].state = "planned" /\ j < k /\ k \in S => j \in S,
         \A j \in DOMAIN old : j < i => old[j].state # "planned"
  PROVE  CallsOK(new, known, count) /\ BatchOK(new, S, {}, count)
<1>1. /\ \A j \in DOMAIN old : j \in Nat /\ old[j].state \in CallStates
      /\ DOMAIN new = DOMAIN old
      /\ \A j \in DOMAIN old : /\ new[j].id = old[j].id
                               /\ new[j].state = IF j \in S THEN "started" ELSE old[j].state
      /\ \A j \in DOMAIN old : /\ Unsafe(new[j]) <=> Unsafe(old[j])
                               /\ NotRun(new[j], count) <=> NotRun(old[j], count)
  <2>1. \A j \in DOMAIN old : j \in Nat /\ old[j].state \in CallStates
    BY CallElements, Zenon
  <2>2. /\ DOMAIN new = DOMAIN old
        /\ \A j \in DOMAIN old : /\ new[j].id = old[j].id
                                 /\ new[j].state = IF j \in S THEN "started" ELSE old[j].state
    BY Zenon DEF Marked
  <2>3. \A j \in DOMAIN old : /\ Unsafe(new[j]) <=> Unsafe(old[j])
                              /\ NotRun(new[j], count) <=> NotRun(old[j], count)
    BY <2>2, Zenon DEF Unsafe, NotRun
  <2> QED BY <2>1, <2>2, <2>3, Zenon
<1>2. /\ \A j \in DOMAIN old : /\ old[j].id \in known
                               /\ Unsafe(old[j]) /\ old[j].state = "planned" => NotRun(old[j], count)
      /\ \A j, k \in DOMAIN old :
           j < k /\ Unsafe(old[j]) /\ old[j].state \in {"planned", "started"} =>
             old[k].state \notin {"started", "done"}
  BY Zenon DEF CallsOK
<1>3. ASSUME NEW j \in DOMAIN old, NEW k \in DOMAIN old, j < k, Unsafe(old[j]),
             new[j].state \in {"planned", "started"}
      PROVE  new[k].state \notin {"started", "done"}
  <2>1. old[j].state = "planned"
    BY <1>1, <1>3, Zenon
  <2>2. k \notin S
    <3>1. k # j
      BY <1>1, <1>3
    <3> QED BY <1>3, <2>1, <3>1, Zenon
  <2> QED BY <1>1, <1>2, <1>3, <2>1, <2>2, Zenon
<1>4. CallsOK(new, known, count)
  BY <1>1, <1>2, <1>3, Zenon DEF CallsOK
<1>5. ASSUME NEW j \in S, Unsafe(new[j])
      PROVE  S = {j} /\ \A k \in DOMAIN new : k < j => Settled(new[k])
  <2>1. S = {j}
    BY <1>1, <1>5, Zenon
  <2>0. i = j
    BY <2>1, Zenon
  <2>2. ASSUME NEW k \in DOMAIN old, k < j
        PROVE  Settled(new[k])
    <3>1. k # j
      BY <1>1, <2>2
    <3>2. new[k].state \in CallStates \ {"planned", "started"}
      BY <1>1, <2>0, <2>1, <2>2, <3>1, Zenon
    <3> QED BY <3>2 DEF CallStates, Settled
  <2> QED BY <1>1, <2>1, <2>2, Zenon
<1>6. \A j \in DOMAIN new : new[j].state = "started" <=> j \in S
  BY <1>1, Zenon
<1>7. \A j \in S : Unsafe(new[j]) => NotRun(new[j], count)
  BY <1>1, <1>2, Zenon
<1>8. S \subseteq DOMAIN new /\ S \cup {} = S /\ S \cap {} = {} /\ {} \subseteq DOMAIN new
  BY <1>1, Zenon
<1>9. BatchOK(new, S, {}, count)
  BY <1>5, <1>6, <1>7, <1>8, Zenon DEF BatchOK
<1> QED BY <1>4, <1>9, Zenon

\* A call of the batch is polled for the first time.
LEMMA PolledBatch ==
  ASSUME NEW calls, NEW waiting, NEW polled, NEW count, NEW after, NEW i \in waiting,
         BatchOK(calls, waiting, polled, count)
  PROVE  BatchOK(calls, waiting \ {i}, polled \cup {i}, after)
<1> DEFINE w == waiting \ {i}
           p == polled \cup {i}
<1>1. /\ w \cup p = waiting \cup polled /\ w \cap p = {} /\ w \subseteq waiting
      /\ i \notin w /\ w \subseteq DOMAIN calls /\ p \subseteq DOMAIN calls
  BY DEF BatchOK
<1>2. ASSUME NEW j \in w PROVE ~Unsafe(calls[j])
  BY <1>1, <1>2, Zenon DEF BatchOK
<1> HIDE DEF w, p
<1> QED BY <1>1, <1>2, Zenon DEF BatchOK, w, p

\* A call of the batch reports back.
LEMMA SettledCalls ==
  ASSUME NEW old, NEW new, NEW waiting, NEW polled, NEW i \in polled, NEW known, NEW count,
         Marked(old, new, {i}, "done"),
         CallsOK(old, known, count), BatchOK(old, waiting, polled, count)
  PROVE  CallsOK(new, known, count) /\ BatchOK(new, waiting, polled \ {i}, count)
<1> DEFINE p == polled \ {i}
<1>1. /\ i \in DOMAIN old /\ old[i].state = "started" /\ DOMAIN new = DOMAIN old
      /\ \A j \in DOMAIN old : new[j].id = old[j].id
      /\ new[i].state = "done" /\ \A j \in DOMAIN old : j # i => new[j].state = old[j].state
      /\ \A j \in DOMAIN old : /\ Unsafe(new[j]) <=> Unsafe(old[j])
                               /\ NotRun(new[j], count) <=> NotRun(old[j], count)
  <2>1. i \in DOMAIN old /\ old[i].state = "started"
    BY Zenon DEF BatchOK
  <2>2. /\ DOMAIN new = DOMAIN old
        /\ \A j \in DOMAIN old : /\ new[j].id = old[j].id
                                 /\ new[j].state = IF j \in {i} THEN "done" ELSE old[j].state
    BY Zenon DEF Marked
  <2>3. \A j \in DOMAIN old : /\ Unsafe(new[j]) <=> Unsafe(old[j])
                              /\ NotRun(new[j], count) <=> NotRun(old[j], count)
    BY <2>2, Zenon DEF Unsafe, NotRun
  <2> QED BY <2>1, <2>2, <2>3, Zenon
<1>2. /\ \A j \in DOMAIN old : /\ old[j].id \in known
                               /\ Unsafe(old[j]) /\ old[j].state = "planned" => NotRun(old[j], count)
      /\ \A j, k \in DOMAIN old :
           j < k /\ Unsafe(old[j]) /\ old[j].state \in {"planned", "started"} =>
             old[k].state \notin {"started", "done"}
  BY Zenon DEF CallsOK
<1>3. /\ waiting \subseteq DOMAIN old /\ polled \subseteq DOMAIN old /\ waiting \cap polled = {}
      /\ \A j \in DOMAIN old : old[j].state = "started" <=> j \in waiting \cup polled
      /\ \A j \in waiting \cup polled : Unsafe(old[j]) => waiting \cup polled = {j}
  BY Zenon DEF BatchOK
<1>4. /\ waiting \cup p \subseteq waiting \cup polled /\ waiting \cap p = {}
      /\ i \notin waiting \cup p /\ \A j \in waiting \cup polled : j # i => j \in waiting \cup p
      /\ i \in waiting \cup polled
  BY <1>3
<1> HIDE DEF p
<1>5. CallsOK(new, known, count)
  <2>1. ASSUME NEW j \in DOMAIN old, NEW k \in DOMAIN old, j < k, Unsafe(old[j]),
               new[j].state \in {"planned", "started"}
        PROVE  new[k].state \notin {"started", "done"}
    <3>1. old[j].state \in {"planned", "started"}
      BY <1>1, <2>1, Zenon
    <3>2. old[k].state \notin {"started", "done"}
      BY <1>2, <2>1, <3>1, Zenon
    <3> QED BY <1>1, <3>2, Zenon
  <2> QED BY <1>1, <1>2, <2>1, Zenon DEF CallsOK
<1>6. ASSUME NEW j \in waiting \cup p
      PROVE  ~Unsafe(new[j])
  <2>1. j # i /\ j \in waiting \cup polled /\ j \in DOMAIN old
    BY <1>3, <1>4, <1>6, Zenon
  <2>2. ~Unsafe(old[j])
    BY <1>3, <1>4, <2>1, Zenon
  <2> QED BY <1>1, <2>1, <2>2, Zenon
<1>7. \A j \in DOMAIN new : new[j].state = "started" <=> j \in waiting \cup p
  BY <1>1, <1>3, <1>4, Zenon
<1>8. waiting \subseteq DOMAIN new /\ p \subseteq DOMAIN new /\ \A j \in waiting : j \in waiting \cup p
  BY <1>1, <1>3, Zenon DEF p
<1>9. BatchOK(new, waiting, p, count)
  BY <1>4, <1>6, <1>7, <1>8, Zenon DEF BatchOK
<1> QED BY <1>5, <1>9, Zenon DEF p

-----------------------------------------------------------------------------
(* Writing the record *)

LEMMA RecordedType ==
  ASSUME NEW r \in Records
  PROVE  Recorded(r) \subseteq Calls \cup Messages
<1>1. /\ r.rounds \in Seq(RoundType)
      /\ \A k \in DOMAIN r.rounds : r.rounds[k] \in RoundType
      /\ \A i \in DOMAIN r.steered : r.steered[i] \in Messages
  BY RecordTypes, Elem, Zenon
<1>2. \A k \in DOMAIN r.rounds :
        /\ \A i \in DOMAIN r.rounds[k].calls : r.rounds[k].calls[i] \in CallType
        /\ \A i \in DOMAIN r.rounds[k].steered_before : r.rounds[k].steered_before[i] \in Messages
  BY <1>1, RecordTypes, Elem, Zenon
<1>3. \A call \in CallsIn(r.rounds) : call.id \in Calls
  BY <1>2, CallsInRounds DEF CallType
<1>4. Elements(r.steered) \subseteq Messages
  BY <1>1, Zenon DEF Elements
<1>5. \A k \in DOMAIN r.rounds : Elements(r.rounds[k].steered_before) \subseteq Messages
  BY <1>2, Zenon DEF Elements
<1> QED BY <1>3, <1>4, <1>5, Zenon DEF Recorded

LEMMA JournalKeeps ==
  ASSUME Types, Flags, NEW new \in Records, Len(new.rounds) <= MaxToolRounds, Journal(new)
  PROVE  /\ stored' \in {stored, new, NoRecord}
         /\ stored' = NoRecord \/ (stored' \in Records /\ Len(stored'.rounds) <= MaxToolRounds)
         /\ journal_failed' \in BOOLEAN /\ journaled' \subseteq Calls \cup Messages
         /\ faults' \in Nat
         /\ ~DeleteMayFail /\ (journal_failed => stored = NoRecord) =>
              stored' \in {NoRecord, new} /\ (journal_failed' => stored' = NoRecord)
<1>1. stored' \in {stored, new, NoRecord}
  BY Zenon DEF Journal, Deleted, record
<1>2. journal_failed' \in BOOLEAN
  BY Zenon DEF Journal, record, Flags
<1>3. journaled' \subseteq Calls \cup Messages
  BY RecordedType, Zenon DEF Journal, record, Types
<1>4. faults' \in Nat
  BY DEF Journal, Fault, Types
<1>5. ASSUME ~DeleteMayFail, journal_failed => stored = NoRecord
      PROVE  stored' \in {NoRecord, new} /\ (journal_failed' => stored' = NoRecord)
  <2>1. CASE journal_failed /\ UNCHANGED <<record, faults>>
    BY <1>5, <2>1, Zenon DEF record
  <2>2. CASE stored' = new /\ journal_failed' = journal_failed /\ ~journal_failed
    BY <2>2, Zenon
  <2>3. CASE stored' \in Deleted
    BY <1>5, <2>3, Zenon DEF Deleted
  <2> QED BY <2>1, <2>2, <2>3, Zenon DEF Journal
<1>6. stored' = NoRecord \/ (stored' \in Records /\ Len(stored'.rounds) <= MaxToolRounds)
  <2>1. stored = NoRecord \/ (stored \in Records /\ Len(stored.rounds) <= MaxToolRounds)
    BY Zenon DEF Types
  <2> QED BY <1>1, <2>1
<1> QED BY <1>1, <1>2, <1>3, <1>4, <1>5, <1>6, Zenon

-----------------------------------------------------------------------------
(* Attempts begin and end *)

LEMMA InvInit == Init => Inv
<1> SUFFICES ASSUME Init PROVE Inv
  OBVIOUS
<1> USE TurnLoopAssumption
<1>1. Types
  BY EmptySound DEF Init, Types, Items
<1>2. Flags /\ Control /\ Written
  BY ZenonT(30) DEF Init, Flags, Control, Written
<1>3. Places
  <2>1. DOMAIN <<>> = {}
    OBVIOUS
  <2> QED BY <2>1, EmptySound, Zenon DEF Init, Places
<1>4. Batch /\ Once
  BY DEF Init, Batch, Once
<1> QED BY <1>1, <1>2, <1>3, <1>4, Zenon DEF Inv, Memory

LEMMA BeginStep ==
  ASSUME Inv, NEW checkpoint, checkpoint = Empty \/ (checkpoint = stored /\ stored # NoRecord),
         Begin(checkpoint),
         stored' \in {stored, NoRecord}, journaled' \subseteq journaled, faults' \in Nat
  PROVE  Inv'
<1> USE TurnLoopAssumption
<1>1. /\ checkpoint \in Records /\ Len(checkpoint.rounds) <= MaxToolRounds
      /\ Sound(checkpoint.rounds, used, invoked)
  <2>1. CASE checkpoint = Empty
    <3> HIDE DEF Empty, Sound, Records
    <3> QED BY <2>1, EmptySound, Zenon
  <2>2. CASE checkpoint = stored /\ stored # NoRecord
    BY <2>2, Zenon DEF Inv, Memory, Types, Places
  <2> QED BY <2>1, <2>2, Zenon
<1>2. Types'
  <2>1. /\ rounds' = 0 /\ rounds' \in Nat /\ ck' \in Records /\ Len(ck'.rounds) <= rounds'
        /\ left' = checkpoint /\ rounds' + Len(left'.rounds) <= MaxToolRounds
    <3>1. rounds' = 0 /\ ck' = Empty /\ left' = checkpoint
      BY Zenon DEF Begin
    <3>2. /\ Empty.rounds = <<>> /\ Empty \in Records
          /\ checkpoint.rounds \in Seq(RoundType)
      BY <1>1, EmptySound, RecordTypes, Zenon
    <3>3. Len(Empty.rounds) = 0 /\ Len(checkpoint.rounds) \in Nat
      BY <3>2
    <3> QED BY <1>1, <3>1, <3>2, <3>3
  <2>2. inbox' \in Seq(Messages) /\ Len(inbox') <= MaxPending /\ history' \in Seq(Items)
    BY DEF Begin
  <2>3. attempts' \in Nat
    BY DEF Inv, Memory, Types, Begin
  <2> QED BY <1>1, <2>1, <2>2, <2>3, Zenon DEF Inv, Memory, Types, Begin, batch
<1>3. Flags'
  BY Zenon DEF Inv, Memory, Flags, Begin
<1>4. Control'
  BY EmptySound, Zenon DEF Inv, Memory, Control, Begin, batch
<1>5. Written'
  <2>1. attempts' # 0 /\ (attempts' = 1 => attempts = 0)
    BY DEF Inv, Memory, Types, Begin
  <2>2. /\ pc' = "replay" /\ ck' = Empty /\ left' = checkpoint /\ journal_failed' = FALSE
        /\ Empty.rounds = <<>>
    BY EmptySound, Zenon DEF Begin
  <2> QED BY <2>1, <2>2, Zenon DEF Inv, Written
<1>6. Places'
  <2>1. DOMAIN <<>> = {}
    OBVIOUS
  <2> QED BY <1>1, <2>1, EmptySound, Zenon DEF Inv, Places, Begin, batch
<1>7. Batch' /\ Once'
  BY Zenon DEF Inv, Batch, Once, Begin, batch
<1> QED BY <1>2, <1>3, <1>4, <1>5, <1>6, <1>7, Zenon DEF Inv, Memory

LEMMA EndStep ==
  ASSUME Inv, NEW how \in {"answered", "capped", "failed", "crashed"}, End(how), pc # "idle",
         \/ stored' = stored /\ journal_failed' = journal_failed
         \/ stored' \in Deleted /\ journal_failed' = TRUE,
         journaled' \subseteq journaled, faults' \in Nat
  PROVE  Inv'
<1> USE TurnLoopAssumption
<1>0. stored' \in {stored, NoRecord}
  BY Zenon DEF Deleted
<1>1. Types'
  BY <1>0, EmptySound, Zenon DEF Inv, Memory, Types, End, bounds
<1>2. Flags'
  BY Zenon DEF Inv, Memory, Flags, End
<1>3. Control'
  BY Zenon DEF Control, End
<1>4. Written'
  BY Zenon DEF Inv, Written, End, Deleted, bounds
<1>5. Places'
  <2>1. DOMAIN <<>> = {}
    OBVIOUS
  <2> QED BY <1>0, <2>1, EmptySound, Zenon DEF Inv, Places, End, bounds
<1>6. Batch' /\ Once'
  BY Zenon DEF Inv, Batch, Once, End, bounds
<1> QED BY <1>1, <1>2, <1>3, <1>4, <1>5, <1>6, Zenon DEF Inv, Memory

-----------------------------------------------------------------------------
(* Steps that leave the rounds alone *)

LEMMA ReadType ==
  ASSUME NEW messages \in Seq(Messages)
  PROVE  ReadItems(messages) \in Seq(Items)
<1>1. ReadItems(messages) \in [DOMAIN messages -> Items]
  BY Elem DEF ReadItems, Items
<1> QED BY <1>1, SameLength, Zenon

LEMMA CallItemsType ==
  ASSUME NEW calls \in Seq(CallType)
  PROVE  [i \in DOMAIN calls |-> CallItem(calls[i])] \in Seq(Items)
<1>1. \A i \in DOMAIN calls : calls[i] \in CallType
  BY Elem, Zenon
<1>2. [i \in DOMAIN calls |-> CallItem(calls[i])] \in [DOMAIN calls -> Items]
  BY <1>1, Zenon DEF CallItem, Settled, Items, CallType
<1> QED BY <1>2, SameLength, Zenon

LEMMA JoinType ==
  ASSUME NEW S, NEW s \in Seq(S), NEW t \in Seq(S)
  PROVE  s \o t \in Seq(S) /\ (t = <<>> => s \o t = s)
OBVIOUS

LEMMA SteeredRecord ==
  ASSUME NEW r \in Records, NEW steered \in Seq(Messages)
  PROVE  LET new == [r EXCEPT !.steered = steered]
         IN  /\ new \in Records /\ new.rounds = r.rounds /\ new.steered = steered
             /\ r.steered = steered => new = r
BY RecordTypes, Zenon

LEMMA ExpireStep ==
  ASSUME Inv, stored' = NoRecord, journaled' = {}, faults' \in Nat,
         UNCHANGED <<journal_failed, pc, outcome, loop, batch, mail, bounds, shown>>
  PROVE  Inv'
<1> USE DEF loop, batch, mail, bounds
<1>1. Types'
  BY Zenon DEF Inv, Memory, Types
<1>2. Flags' /\ Control'
  BY ZenonT(30) DEF Inv, Memory, Flags, Control
<1>3. Written'
  BY Zenon DEF Inv, Written
<1>4. Places'
  BY Zenon DEF Inv, Places
<1>5. Batch' /\ Once'
  BY Zenon DEF Inv, Batch, Once, Current
<1> QED BY <1>1, <1>2, <1>3, <1>4, <1>5, Zenon DEF Inv, Memory

LEMMA SendStep ==
  ASSUME Inv, NEW m \in Messages, Send(m)
  PROVE  Inv'
<1> USE DEF loop, batch, bounds, record
<1>1. Types'
  <2>1. inbox' \in Seq(Messages) /\ Len(inbox') <= MaxPending
    BY TurnLoopAssumption DEF Inv, Memory, Types, Send, InboxFull
  <2>2. accepted' \subseteq Messages /\ unsent' \subseteq Messages
    BY Zenon DEF Inv, Memory, Types, Send
  <2> QED BY <2>1, <2>2, Zenon DEF Inv, Memory, Types, Send
<1>2. Flags' /\ Control'
  BY ZenonT(30) DEF Inv, Memory, Flags, Control, Send
<1>3. Written'
  BY Zenon DEF Inv, Written, Send
<1>4. Places'
  BY Zenon DEF Inv, Places, Send
<1>5. Batch' /\ Once'
  BY Zenon DEF Inv, Batch, Once, Current, Send
<1> QED BY <1>1, <1>2, <1>3, <1>4, <1>5, Zenon DEF Inv, Memory

\* run_calls returns, or the model's answer is rejected or taken.
LEMMA MoveOnStep ==
  ASSUME Inv, pc \in {"calls", "model"}, pc' \in {"replay", "loop", "answered"},
         pc' = "replay" <=> replaying, closed' <=> pc' = "answered",
         repaired' \in BOOLEAN, failed' \in BOOLEAN, closed' \in BOOLEAN, history' \in Seq(Items),
         \A k \in DOMAIN ck.rounds : Over(ck.rounds[k]),
         UNCHANGED <<record, outcome, ck, left, replaying, rounds, batch, inbox, unsent,
                     accepted, bounds, shown, faults>>
  PROVE  Inv'
<1> USE DEF batch, bounds, record
<1>1. Types'
  BY Zenon DEF Inv, Memory, Types
<1>2. Flags'
  BY Zenon DEF Inv, Memory, Flags
<1>3. Control'
  BY Zenon DEF Inv, Memory, Control, Flags
<1>4. Written'
  BY Zenon DEF Inv, Written
<1>5. Places'
  BY Zenon DEF Inv, Places
<1>6. Batch' /\ Once'
  BY Zenon DEF Inv, Batch, Once
<1> QED BY <1>1, <1>2, <1>3, <1>4, <1>5, <1>6, Zenon DEF Inv, Memory

LEMMA FinishReplayStep == Inv /\ FinishReplay => Inv'
<1> SUFFICES ASSUME Inv, FinishReplay PROVE Inv'
  OBVIOUS
<1> USE DEF batch, bounds, record, mail
<1>1. /\ ck \in Records /\ left \in Records /\ left.steered \in Seq(Messages)
      /\ replaying /\ ck.steered = <<>>
  BY RecordTypes, Zenon DEF Inv, Memory, Types, Control, FinishReplay
<1>2. /\ ck' \in Records /\ ck'.rounds = ck.rounds /\ ck'.steered = left.steered
      /\ left.steered = <<>> => ck' = ck
  BY <1>1, SteeredRecord DEF FinishReplay
<1>3. history' \in Seq(Items)
  BY <1>1, ReadType, JoinType, Zenon DEF Inv, Memory, Types, FinishReplay
<1>4. /\ Empty \in Records /\ Len(Empty.rounds) = Len(left.rounds) /\ Empty.steered = <<>>
      /\ Empty.rounds = left.rounds
  BY EmptySound DEF FinishReplay
<1>5. Types'
  BY <1>2, <1>3, <1>4, Zenon DEF Inv, Memory, Types, FinishReplay
<1>6. Flags'
  BY Zenon DEF Inv, Memory, Flags, FinishReplay
<1>7. Control'
  BY <1>2, Zenon DEF Inv, Memory, Control, FinishReplay
<1>8. Written'
  BY <1>2, <1>4, Zenon DEF Inv, Written, FinishReplay
<1>9. Places'
  BY <1>2, <1>4, Zenon DEF Inv, Places, FinishReplay
<1>10. Batch' /\ Once'
  BY Zenon DEF Inv, Batch, Once, FinishReplay
<1> QED BY <1>5, <1>6, <1>7, <1>8, <1>9, <1>10, Zenon DEF Inv, Memory

\* The messages that wait are read, before a model call or after an answer.
LEMMA SteerStep ==
  ASSUME Inv, pc \in {"loop", "model"}, Steer(inbox), inbox' = <<>>,
         \/ pc' = "loop" /\ rounds' = rounds
         \/ pc' = "model" /\ rounds' = rounds + 1 /\ rounds < MaxToolRounds,
         failed' \in BOOLEAN, shown' \subseteq Messages,
         UNCHANGED <<outcome, left, replaying, repaired, batch, closed, unsent, accepted, bounds>>
  PROVE  Inv'
<1> USE DEF batch, bounds
<1>1. /\ ck \in Records /\ ck.steered \in Seq(Messages) /\ inbox \in Seq(Messages)
      /\ history \in Seq(Items) /\ ~replaying /\ left = Empty
  BY RecordTypes, Zenon DEF Inv, Memory, Types, Control
<1>2. /\ ck.steered \o inbox \in Seq(Messages)
      /\ inbox = <<>> => ck.steered \o inbox = ck.steered
  BY <1>1, JoinType, Zenon
<1>3. /\ ck' \in Records /\ ck'.rounds = ck.rounds /\ (inbox = <<>> => ck' = ck)
  BY <1>1, <1>2, SteeredRecord, Zenon DEF Steer
<1>4. history' \in Seq(Items)
  BY <1>1, ReadType, JoinType, Zenon DEF Steer
<1>5. /\ stored' \in {stored, ck', NoRecord}
      /\ stored' = NoRecord \/ (stored' \in Records /\ Len(stored'.rounds) <= MaxToolRounds)
      /\ journal_failed' \in BOOLEAN /\ journaled' \subseteq Calls \cup Messages
      /\ faults' \in Nat
      /\ ~DeleteMayFail =>
           /\ journal_failed' => stored' = NoRecord
           /\ stored' \in {NoRecord, ck'} \/ (stored' = stored /\ ck' = ck)
  <2>1. CASE inbox = <<>>
    BY <1>3, <2>1, Zenon DEF Steer, record, Inv, Memory, Types, Flags, Written
  <2>2. CASE inbox # <<>>
    <3>1. Len(ck'.rounds) <= MaxToolRounds
      <4>1. Len(ck.rounds) \in Nat /\ Len(left.rounds) \in Nat
        BY RecordTypes, Elem, ZenonT(30) DEF Inv, Memory, Types
      <4> QED BY <1>3, <4>1, TurnLoopAssumption DEF Inv, Memory, Types
    <3>2. Types /\ Flags /\ Journal(ck') /\ (~DeleteMayFail => (journal_failed => stored = NoRecord))
      BY <2>2, Zenon DEF Inv, Memory, Steer, Written
    <3> HIDE DEF Types, Flags, Journal, Inv, Steer
    <3> QED BY <1>3, <3>1, <3>2, JournalKeeps, Zenon
  <2> QED BY <2>1, <2>2, Zenon
<1>6. Types'
  <2>1. /\ rounds' \in Nat /\ Len(ck'.rounds) <= rounds'
        /\ rounds' + Len(left'.rounds) <= MaxToolRounds
        /\ pc' = "model" => Len(ck'.rounds) < rounds'
    <3>1. Len(ck.rounds) \in Nat /\ left.rounds = <<>> /\ Len(left.rounds) = 0
      <4>1. Len(ck.rounds) \in Nat /\ left.rounds = <<>>
        BY <1>1, EmptySound, RecordTypes, Elem, ZenonT(30)
      <4> QED BY <4>1
    <3> QED BY <1>3, <3>1, TurnLoopAssumption DEF Inv, Memory, Types
  <2>2. Len(inbox') <= MaxPending /\ inbox' \in Seq(Messages)
    BY TurnLoopAssumption
  <2> QED BY <1>3, <1>4, <1>5, <2>1, <2>2, Zenon DEF Inv, Memory, Types
<1>7. Flags'
  BY <1>5, Zenon DEF Inv, Memory, Flags
<1>8. Control'
  <2>1. pc' = "model" => Len(ck'.rounds) < rounds'
    <3>1. Len(ck.rounds) \in Nat
      BY <1>1, RecordTypes, Elem, Zenon
    <3> QED BY <1>3, <3>1 DEF Inv, Memory, Types
  <2> QED BY <1>1, <1>3, <2>1, Zenon DEF Inv, Memory, Control
<1>9. Written'
  BY <1>3, <1>5, Zenon DEF Inv, Written
<1>10. Places'
  BY <1>3, <1>5, Zenon DEF Inv, Places
<1>11. Batch' /\ Once'
  BY Zenon DEF Inv, Batch, Once
<1> QED BY <1>6, <1>7, <1>8, <1>9, <1>10, <1>11, Zenon DEF Inv, Memory

-----------------------------------------------------------------------------
(* Rounds of calls *)

\* A round joins the checkpoint, replayed or asked for by the model.
LEMMA RunCallsStep ==
  ASSUME Inv, NEW round \in RoundType, NEW steered \in Seq(Messages), RunCalls(round, steered),
         pc \in {"replay", "model"},
         left' \in Records, rounds' \in Nat, Len(ck.rounds) < rounds',
         rounds' + Len(left'.rounds) <= MaxToolRounds,
         history' \in Seq(Items), failed' \in BOOLEAN,
         used \subseteq used', used' \subseteq Calls,
         Sound(left'.rounds, used', invoked), Apart(ck.rounds, left'.rounds),
         RoundOK(round, used', invoked),
         Distinct(round), Foreign(round, ck.rounds), Foreign(round, left'.rounds),
         replaying => steered = <<>>, ~replaying => left' = Empty,
         ~DeleteMayFail /\ attempts = 1 => left' = Empty,
         UNCHANGED <<outcome, replaying, repaired, batch, mail, attempts, shown>>
  PROVE  Inv'
<1> USE DEF batch, mail
<1> DEFINE n == Len(ck.rounds)
           rs == Append(ck.rounds, Resumed(round))
<1>1. ck.rounds \in Seq(RoundType) /\ n \in Nat
  <2>1. ck.rounds \in Seq(RoundType)
    BY RecordTypes, Zenon DEF Inv, Memory, Types
  <2> QED BY <2>1, Elem, Zenon
<1>2. Sound(ck.rounds, used', invoked) /\ \A k \in DOMAIN ck.rounds : Over(ck.rounds[k])
  BY SoundGrows, Zenon DEF Inv, Places
<1>3. /\ rs \in Seq(RoundType) /\ Len(rs) = n + 1 /\ rs # <<>>
      /\ Sound(rs, used', invoked) /\ Apart(rs, left'.rounds) /\ OverBut(rs)
      /\ \A i \in DOMAIN rs[Len(rs)].calls : rs[Len(rs)].calls[i].state # "started"
  <2> HIDE DEF Inv, RunCalls
  <2> QED BY <1>1, <1>2, AppendResumed, Zenon
<1> HIDE DEF rs
<1>4. ck' \in Records /\ ck'.rounds = rs /\ ck'.steered = steered
  <2>1. ck' = [rounds |-> rs, steered |-> steered]
    BY Zenon DEF RunCalls, rs
  <2> QED BY <1>3, <2>1, RecordTypes, Zenon
<1>5. /\ stored' \in {stored, ck', NoRecord}
      /\ stored' = NoRecord \/ (stored' \in Records /\ Len(stored'.rounds) <= MaxToolRounds)
      /\ journal_failed' \in BOOLEAN /\ journaled' \subseteq Calls \cup Messages
      /\ faults' \in Nat
      /\ ~DeleteMayFail => stored' \in {NoRecord, ck'} /\ (journal_failed' => stored' = NoRecord)
  <2>1. Len(ck'.rounds) <= MaxToolRounds
    <3>1. Len(left'.rounds) \in Nat
      BY RecordTypes, Elem, ZenonT(30)
    <3> QED BY <1>1, <1>3, <1>4, <3>1, TurnLoopAssumption
  <2>2. Types /\ Flags /\ Journal(ck') /\ (~DeleteMayFail => (journal_failed => stored = NoRecord))
    BY Zenon DEF Inv, Memory, RunCalls, Written
  <2> HIDE DEF Types, Flags, Journal, Inv, RunCalls
  <2> QED BY <1>4, <2>1, <2>2, JournalKeeps, ZenonT(30)
<1>6. Types'
  <2>1. Len(ck'.rounds) <= rounds'
    BY <1>1, <1>3, <1>4
  <2> QED BY <1>4, <1>5, <2>1, Zenon DEF Inv, Memory, Types
<1>7. Flags'
  BY <1>5, Zenon DEF Inv, Memory, Flags, RunCalls
<1>8. Control'
  BY <1>3, <1>4, Zenon DEF Inv, Memory, Control, RunCalls
<1>9. Written'
  BY <1>5, Zenon DEF Inv, Written, RunCalls
<1>10. Places'
  <2>1. stored # NoRecord => Sound(stored.rounds, used', invoked) /\ OverBut(stored.rounds)
    BY SoundGrows, Zenon DEF Inv, Places
  <2> QED BY <1>3, <1>4, <1>5, <2>1, Zenon DEF Places, RunCalls
<1>11. Batch'
  <2>1. Current' = rs[Len(rs)].calls
    BY <1>4, Zenon DEF Current
  <2> QED BY <1>3, <2>1, Zenon DEF Batch, RunCalls
<1>12. Once'
  BY Zenon DEF Inv, Once
<1> QED BY <1>6, <1>7, <1>8, <1>9, <1>10, <1>11, <1>12, ZenonT(30) DEF Inv, Memory

\* Calls of the current round change their state, which is journaled.
LEMMA MarkStep ==
  ASSUME Inv, pc \in {"calls", "batch"}, pc' \in {"calls", "batch"},
         ck' \in Records, ck'.steered = ck.steered, Len(ck'.rounds) = Len(ck.rounds), Journal(ck'),
         Sound(ck'.rounds, used, invoked), Apart(ck'.rounds, left.rounds), OverBut(ck'.rounds),
         queued' \subseteq Nat, running' \subseteq Nat,
         pc' = "calls" => queued' = {} /\ running' = {}, Batch',
         UNCHANGED <<outcome, left, replaying, rounds, repaired, failed, history, invoked, mail,
                     bounds, shown>>
  PROVE  Inv'
<1> USE DEF mail, bounds
<1>1. /\ Len(ck.rounds) \in Nat /\ Len(left.rounds) \in Nat /\ ck.rounds # <<>>
      /\ ck'.rounds \in Seq(RoundType)
  <2>1. /\ ck.rounds \in Seq(RoundType) /\ left.rounds \in Seq(RoundType)
        /\ ck'.rounds \in Seq(RoundType)
    BY RecordTypes, Zenon DEF Inv, Memory, Types
  <2>2. ck.rounds # <<>>
    BY Zenon DEF Inv, Memory, Control
  <2> QED BY <2>1, <2>2
<1>2. Len(ck'.rounds) <= MaxToolRounds /\ ck'.rounds # <<>>
  BY <1>1, TurnLoopAssumption DEF Inv, Memory, Types
<1>3. /\ stored' \in {stored, ck', NoRecord}
      /\ stored' = NoRecord \/ (stored' \in Records /\ Len(stored'.rounds) <= MaxToolRounds)
      /\ journal_failed' \in BOOLEAN /\ journaled' \subseteq Calls \cup Messages
      /\ faults' \in Nat
      /\ ~DeleteMayFail => stored' \in {NoRecord, ck'} /\ (journal_failed' => stored' = NoRecord)
  <2>1. Types /\ Flags /\ (~DeleteMayFail => (journal_failed => stored = NoRecord))
    BY Zenon DEF Inv, Memory, Written
  <2> HIDE DEF Types, Flags, Journal, Inv
  <2> QED BY <1>2, <2>1, JournalKeeps, Zenon
<1>4. Types'
  BY <1>3, Zenon DEF Inv, Memory, Types
<1>5. Flags'
  BY <1>3, Zenon DEF Inv, Memory, Flags
<1>6. Control'
  BY <1>2, Zenon DEF Inv, Memory, Control
<1>7. Written'
  BY <1>3, Zenon DEF Inv, Written
<1>8. Places'
  BY <1>3, Zenon DEF Inv, Places
<1>9. Once'
  BY Zenon DEF Inv, Once
<1> QED BY <1>4, <1>5, <1>6, <1>7, <1>8, <1>9, ZenonT(30) DEF Inv, Memory

LEMMA StartBatchStep == Inv /\ StartBatch => Inv'
<1> SUFFICES ASSUME Inv, StartBatch PROVE Inv'
  OBVIOUS
<1> USE DEF mail, bounds
<1>1. PICK i \in DOMAIN Current :
        /\ Planned(i) /\ \A j \in 1..(i - 1) : ~Planned(j)
        /\ queued' = BatchFrom(i) /\ ck' = WithState(BatchFrom(i), "started")
  BY Zenon DEF StartBatch
<1> DEFINE S == BatchFrom(i)
           n == Len(ck.rounds)
<1>2. ck \in Records /\ ck.rounds # <<>> /\ pc = "calls" /\ "started" \in CallStates
  BY Zenon DEF Inv, Memory, Types, Control, StartBatch, CallStates
<1>3. /\ ck' \in Records /\ ck'.steered = ck.steered /\ Len(ck'.rounds) = n
      /\ Marked(Current, ck'.rounds[n].calls, S, "started")
      /\ Current \in Seq(CallType) /\ n \in DOMAIN ck.rounds
  <2> HIDE DEF Inv, StartBatch
  <2> QED BY <1>1, <1>2, WithStateRecord, Zenon
<1>4. /\ i \in S /\ S \subseteq DOMAIN Current
      /\ \A j \in S : Current[j].state = "planned"
      /\ \A j \in S : Unsafe(Current[j]) => S = {j}
      /\ \A j, k \in DOMAIN Current :
           Current[j].state = "planned" /\ j < k /\ k \in S => j \in S
      /\ \A j \in DOMAIN Current : j < i => Current[j].state # "planned"
  <2> HIDE DEF Inv, StartBatch
  <2> QED BY <1>1, <1>3, BatchFromCalls, Zenon
<1>5. /\ RoundOK(ck.rounds[n], used, invoked)
      /\ \A j \in DOMAIN Current : Current[j].state # "started"
      /\ Sound(ck.rounds, used, invoked) /\ Apart(ck.rounds, left.rounds) /\ OverBut(ck.rounds)
  BY <1>2, <1>3, Zenon DEF Inv, Places, Batch, Sound, RoundsOK
<1>6. CallsOK(Current, used, invoked)
  BY <1>5, Zenon DEF RoundOK, Current
<1>7. /\ Journal(ck') /\ queued' = S /\ running' = {} /\ pc' = "batch"
      /\ UNCHANGED <<outcome, left, replaying, rounds, repaired, failed, history, invoked, mail,
                     bounds, shown>>
  BY <1>1, <1>2, Zenon DEF StartBatch, Inv, Memory, Control
<1>8. S \subseteq Nat
  BY <1>3, <1>4, CallElements, Zenon
<1> HIDE DEF S, n, Inv, StartBatch
<1>9. RoundOK(ck'.rounds[n], used, invoked) /\ BatchOK(ck'.rounds[n].calls, S, {}, invoked)
  BY <1>3, <1>4, <1>5, <1>6, StartedCalls, Zenon DEF RoundOK
<1>10. Sound(ck'.rounds, used, invoked) /\ Apart(ck'.rounds, left.rounds) /\ OverBut(ck'.rounds)
  BY <1>1, <1>2, <1>5, <1>9, MarkedSound, Zenon DEF n
<1>11. Batch'
  <2>1. Current' = ck'.rounds[n].calls
    BY <1>3, Zenon DEF Current
  <2> QED BY <1>7, <1>9, <2>1, Zenon DEF Batch
<1> QED
  <2> HIDE DEF Batch, Journal, Records, Sound, Apart, OverBut
  <2> QED BY <1>2, <1>3, <1>7, <1>8, <1>10, <1>11, MarkStep, Zenon DEF n

LEMMA InvokeStep == Inv /\ Invoke => Inv'
<1> SUFFICES ASSUME Inv, Invoke PROVE Inv'
  OBVIOUS
<1> USE DEF record, loop, mail, bounds
<1>1. PICK i \in queued :
        /\ queued' = queued \ {i} /\ running' = running \cup {i}
        /\ invoked' = [invoked EXCEPT ![Current[i].id] = @ + 1]
  BY Zenon DEF Invoke
<1> DEFINE n == Len(ck.rounds)
           c == Current[i].id
<1>2. /\ ck \in Records /\ ck.rounds # <<>> /\ pc = "batch" /\ invoked \in [Calls -> Nat]
      /\ used \subseteq Calls /\ i \in Nat
  BY Zenon DEF Inv, Memory, Types, Control, Invoke
<1>3. n \in DOMAIN ck.rounds
  BY <1>2, RecordTypes, Elem, Zenon
<1>4. /\ i \in DOMAIN Current /\ Current[i].state = "started"
      /\ Unsafe(Current[i]) => queued = {i} /\ running \subseteq {i} /\ NotRun(Current[i], invoked)
      /\ \A j \in queued : j # i => ~Unsafe(Current[j])
  BY <1>1, <1>2, Zenon DEF Inv, Batch, BatchOK
<1>5. c \in used
  BY <1>3, <1>4, ZenonT(30) DEF Inv, Places, Sound, RoundsOK, RoundOK, CallsOK, Current
<1>6. /\ c \in Calls /\ invoked' \in [Calls -> Nat] /\ invoked'[c] = invoked[c] + 1
      /\ \A d \in Calls : d # c => invoked'[d] = invoked[d]
  BY <1>1, <1>2, <1>5
<1>7. Sound(ck.rounds, used, invoked')
  <2>1. ASSUME NEW k \in DOMAIN ck.rounds, NEW j \in DOMAIN ck.rounds[k].calls,
               ck.rounds[k].calls[j].id = c
        PROVE  ck.rounds[k].calls[j].state # "planned"
    <3>0. Unique(ck.rounds)
      BY ZenonT(30) DEF Inv, Places, Sound
    <3>1. k = n /\ j = i
      BY <1>3, <1>4, <2>1, <3>0 DEF Unique, Current
    <3> QED BY <1>4, <3>1, Zenon DEF Current
  <2>2. Sound(ck.rounds, used, invoked)
    BY Zenon DEF Inv, Places
  <2> HIDE DEF c, Sound
  <2> QED BY <1>1, <1>2, <1>6, <2>1, <2>2, SoundInvoked, Zenon DEF c
<1>8. Sound(left.rounds, used, invoked')
  <2>1. \A k \in DOMAIN left.rounds : \A j \in DOMAIN left.rounds[k].calls :
          left.rounds[k].calls[j].id = c => left.rounds[k].calls[j].state # "planned"
    BY <1>3, <1>4 DEF Inv, Places, Apart, Current
  <2>2. Sound(left.rounds, used, invoked)
    BY Zenon DEF Inv, Places
  <2> HIDE DEF c, Sound
  <2> QED BY <1>1, <1>2, <1>6, <2>1, <2>2, SoundInvoked, ZenonT(30) DEF c
<1>9. stored # NoRecord => Sound(stored.rounds, used, invoked')
  <2>1. CASE ~DeleteMayFail
    BY <1>2, <1>7, <2>1, Zenon DEF Inv, Written
  <2>2. CASE DeleteMayFail
    <3>1. stored # NoRecord => Sound(stored.rounds, used, invoked)
      BY Zenon DEF Inv, Places
    <3> HIDE DEF c, Sound
    <3> QED BY <1>1, <1>2, <1>6, <2>2, <3>1, SoundInvoked, Zenon DEF c
  <2> QED BY <2>1, <2>2, Zenon
<1>10. Types'
  <2>1. queued' \subseteq Nat /\ running' \subseteq Nat
    BY <1>1, <1>2, Zenon DEF Inv, Memory, Types
  <2> QED BY <1>6, <2>1, Zenon DEF Inv, Memory, Types, Invoke
<1>11. Flags' /\ Control'
  BY <1>2, Zenon DEF Inv, Memory, Flags, Control, Invoke
<1>12. Written'
  BY Zenon DEF Inv, Written, Invoke
<1>13. Places'
  BY <1>7, <1>8, <1>9, Zenon DEF Inv, Places, Invoke
<1>14. Batch'
  <2>1. BatchOK(Current, queued, running, invoked) /\ pc' = "batch" /\ ck' = ck
    BY <1>2, Zenon DEF Inv, Batch, Invoke
  <2>2. BatchOK(Current, queued', running', invoked')
    <3> HIDE DEF Inv, Invoke
    <3> QED BY <1>1, <2>1, PolledBatch, Zenon
  <2>3. Current' = Current
    BY <2>1, Zenon DEF Current
  <2> QED BY <2>1, <2>2, <2>3, Zenon DEF Batch
<1>15. Once'
  <2>1. ASSUME ~DeleteMayFail, c \notin Safe PROVE invoked'[c] = 1
    BY <1>2, <1>4, <1>6, <2>1 DEF Unsafe, NotRun
  <2>2. ASSUME ~DeleteMayFail, NEW d \in Calls \ used PROVE invoked'[d] = 0
    BY <1>5, <1>6, <2>2, Zenon DEF Inv, Once
  <2>3. ASSUME ~DeleteMayFail, NEW d \in Calls \ Safe PROVE invoked'[d] <= 1
    <3>1. d # c => invoked'[d] = invoked[d] /\ invoked[d] <= 1
      BY <1>6, <2>3, Zenon DEF Inv, Once
    <3> QED BY <2>1, <2>3, <3>1
  <2>4. used' = used
    BY Zenon DEF Invoke
  <2> QED BY <2>2, <2>3, <2>4, Zenon DEF Once
<1> QED BY <1>10, <1>11, <1>12, <1>13, <1>14, <1>15, Zenon DEF Inv, Memory

LEMMA SettleStep ==
  ASSUME Inv, NEW i \in running, Settle(i)
  PROVE  Inv'
<1> USE DEF mail, bounds
<1> DEFINE n == Len(ck.rounds)
<1>1. ck \in Records /\ ck.rounds # <<>> /\ pc = "batch" /\ "done" \in CallStates
  BY Zenon DEF Inv, Memory, Types, Control, Settle, CallStates
<1>2. /\ ck' = WithState({i}, "done") /\ Journal(ck')
      /\ running' = running \ {i} /\ queued' = queued
      /\ pc' = IF running = {i} /\ queued = {} THEN "calls" ELSE "batch"
      /\ UNCHANGED <<outcome, left, replaying, rounds, repaired, failed, history, invoked, mail,
                     bounds, shown>>
  BY Zenon DEF Settle
<1>3. /\ ck' \in Records /\ ck'.steered = ck.steered /\ Len(ck'.rounds) = n
      /\ Marked(Current, ck'.rounds[n].calls, {i}, "done") /\ n \in DOMAIN ck.rounds
  <2> HIDE DEF Inv, Settle
  <2> QED BY <1>1, <1>2, WithStateRecord, Zenon
<1>4. /\ RoundOK(ck.rounds[n], used, invoked)
      /\ Sound(ck.rounds, used, invoked) /\ Apart(ck.rounds, left.rounds) /\ OverBut(ck.rounds)
      /\ BatchOK(Current, queued, running, invoked)
  BY <1>1, <1>3, Zenon DEF Inv, Places, Batch, Sound, RoundsOK
<1>5. CallsOK(Current, used, invoked)
  BY <1>4, Zenon DEF RoundOK, Current
<1>6. queued' \subseteq Nat /\ running' \subseteq Nat
  BY <1>2, Zenon DEF Inv, Memory, Types
<1>7. pc' \in {"calls", "batch"} /\ (pc' = "calls" => queued' = {} /\ running' = {})
  BY <1>2
<1> HIDE DEF n, Inv, Settle
<1>8. /\ RoundOK(ck'.rounds[n], used, invoked)
      /\ BatchOK(ck'.rounds[n].calls, queued, running \ {i}, invoked)
  BY <1>3, <1>4, <1>5, SettledCalls, Zenon DEF RoundOK
<1>9. Sound(ck'.rounds, used, invoked) /\ Apart(ck'.rounds, left.rounds) /\ OverBut(ck'.rounds)
  BY <1>1, <1>2, <1>4, <1>8, MarkedSound, Zenon DEF n
<1>10. Batch'
  <2>1. Current' = ck'.rounds[n].calls
    BY <1>3, Zenon DEF Current
  <2>2. BatchOK(Current', queued', running', invoked')
    BY <1>2, <1>8, <2>1, Zenon
  <2>3. pc' = "calls" => \A j \in DOMAIN Current' : Current'[j].state # "started"
    BY <1>7, <2>2, Zenon DEF BatchOK
  <2> QED BY <2>2, <2>3, Zenon DEF Batch
<1> QED
  <2> HIDE DEF Batch, Journal, Records, Sound, Apart, OverBut
  <2> QED BY <1>1, <1>2, <1>3, <1>6, <1>7, <1>9, <1>10, MarkStep, Zenon DEF n

-----------------------------------------------------------------------------
(* Every step keeps the invariant *)

LEMMA ReplayRoundStep == Inv /\ ReplayRound => Inv'
<1> SUFFICES ASSUME Inv, ReplayRound PROVE Inv'
  OBVIOUS
<1> DEFINE round == Head(left.rounds)
<1>1. /\ ck \in Records /\ left \in Records /\ left.rounds # <<>> /\ ck.steered \in Seq(Messages)
      /\ left.rounds \in Seq(RoundType) /\ ck.rounds \in Seq(RoundType) /\ pc = "replay"
      /\ replaying /\ ck.steered = <<>>
  BY RecordTypes, Zenon DEF Inv, Memory, Types, Control, ReplayRound
<1>2. /\ Sound(ck.rounds, used, invoked) /\ Sound(left.rounds, used, invoked)
      /\ Apart(ck.rounds, left.rounds)
  BY Zenon DEF Inv, Places
<1>3. /\ round \in RoundType /\ round.steered_before \in Seq(Messages)
      /\ Tail(left.rounds) \in Seq(RoundType) /\ Len(Tail(left.rounds)) = Len(left.rounds) - 1
  BY <1>1, TailRounds, RecordTypes, Zenon
<1>4. left' \in Records /\ left'.rounds = Tail(left.rounds)
  BY <1>1, <1>3, RecordTypes, Zenon DEF ReplayRound
<1>5. /\ rounds' \in Nat /\ Len(ck.rounds) < rounds'
      /\ rounds' + Len(left'.rounds) <= MaxToolRounds
  <2>1. Len(ck.rounds) \in Nat /\ Len(left.rounds) \in Nat
    BY <1>1, Elem, Zenon
  <2>2. /\ rounds \in Nat /\ Len(ck.rounds) <= rounds /\ rounds' = rounds + 1
        /\ rounds + Len(left.rounds) <= MaxToolRounds
    BY Zenon DEF Inv, Memory, Types, ReplayRound
  <2>3. Len(left'.rounds) = Len(left.rounds) - 1
    BY <1>3, <1>4, Zenon
  <2> QED BY <2>1, <2>2, <2>3, OneMore, Zenon
<1>6. history' \in Seq(Items)
  BY <1>3, ReadType, JoinType, Zenon DEF Inv, Memory, Types, ReplayRound
<1>7. /\ Sound(left'.rounds, used, invoked) /\ RoundOK(round, used, invoked)
      /\ Apart(ck.rounds, left'.rounds)
      /\ Distinct(round) /\ Foreign(round, left'.rounds) /\ Foreign(round, ck.rounds)
  <2> HIDE DEF Sound, Apart, RoundOK, Distinct, Foreign, round
  <2> QED BY <1>1, <1>2, <1>4, TailSound, Zenon DEF round
<1>8. ~DeleteMayFail => attempts # 1
  BY <1>1, EmptySound, Zenon DEF Inv, Written
<1>9. /\ RunCalls(round, ck.steered) /\ failed' \in BOOLEAN /\ used' = used /\ used \subseteq Calls
      /\ UNCHANGED <<outcome, replaying, repaired, batch, mail, attempts, shown>>
  BY Zenon DEF ReplayRound, bounds, Inv, Memory, Flags, Types
<1> HIDE DEF Inv, ReplayRound, RunCalls, Sound, Apart, RoundOK, Distinct, Foreign, round, Records, RoundType
<1> QED BY <1>1, <1>3, <1>4, <1>5, <1>6, <1>7, <1>8, <1>9, RunCallsStep, ZenonT(30)

LEMMA ModelAsksStep ==
  ASSUME Inv, NEW calls \in Requests, ModelAsks(calls)
  PROVE  Inv'
<1> DEFINE round == [steered_before |-> ck.steered,
                     calls |-> [i \in DOMAIN calls |-> [id |-> calls[i], state |-> "planned"]]]
<1>1. /\ ck \in Records /\ left = Empty /\ ck.steered \in Seq(Messages) /\ pc = "model"
      /\ ~replaying /\ Len(ck.rounds) < rounds
  BY RecordTypes, Zenon DEF Inv, Memory, Types, Control, ModelAsks
<1>2. /\ calls \in Seq(Calls) /\ \A i \in DOMAIN calls : calls[i] \in Calls \ used
      /\ \A i, j \in DOMAIN calls : calls[i] = calls[j] => i = j
  BY TurnLoopAssumption DEF Requests
<1>3. /\ round.calls \in [DOMAIN calls -> CallType] /\ DOMAIN round.calls = DOMAIN calls
      /\ \A i \in DOMAIN calls : round.calls[i].id = calls[i] /\ round.calls[i].state = "planned"
      /\ round.steered_before = ck.steered
  BY <1>2 DEF CallType, CallStates
<1>4. round \in RoundType
  <2>1. round.calls \in Seq(CallType)
    BY <1>2, <1>3, SameLength, Zenon
  <2> QED BY <1>1, <2>1, RecordTypes
<1>5. /\ RunCalls(round, <<>>) /\ used' = used \cup Elements(calls) /\ failed' \in BOOLEAN
      /\ left' = left /\ rounds' = rounds /\ history' = history
      /\ UNCHANGED <<outcome, replaying, repaired, batch, mail, attempts, shown>>
  BY Zenon DEF ModelAsks
<1> HIDE DEF round
<1>6. used \subseteq used' /\ used' \subseteq Calls /\ \A i \in DOMAIN calls : calls[i] \in used'
  BY <1>2, <1>5, Zenon DEF Elements, Inv, Memory, Types
<1>7. RoundOK(round, used', invoked)
  <2>1. \A i \in DOMAIN calls : NotRun(round.calls[i], invoked)
    BY <1>2, <1>3, Zenon DEF NotRun, Inv, Once
  <2> QED BY <1>3, <1>6, <2>1 DEF RoundOK, CallsOK
<1>8. Distinct(round)
  BY <1>2, <1>3, ZenonT(30) DEF Distinct
<1>9. Foreign(round, ck.rounds)
  <2>1. \A k \in DOMAIN ck.rounds : \A i \in DOMAIN ck.rounds[k].calls :
          ck.rounds[k].calls[i].id \in used
    BY Zenon DEF Inv, Places, Sound, RoundsOK, RoundOK, CallsOK
  <2> QED BY <1>2, <1>3, <2>1 DEF Foreign
<1>10. /\ left' \in Records /\ left'.rounds = <<>> /\ Sound(left'.rounds, used', invoked)
       /\ Apart(ck.rounds, left'.rounds) /\ left' = Empty /\ DOMAIN left'.rounds = {}
       /\ <<>> \in Seq(Messages) /\ Foreign(round, left'.rounds)
  <2>1. DOMAIN <<>> = {} /\ <<>> \in Seq(Messages)
    OBVIOUS
  <2> QED BY <1>1, <1>5, <2>1, EmptySound, Zenon DEF Foreign
<1>11. /\ rounds' \in Nat /\ Len(ck.rounds) < rounds' /\ history' \in Seq(Items)
       /\ rounds' + Len(left'.rounds) <= MaxToolRounds
  BY <1>1, <1>5, Zenon DEF Inv, Memory, Types
<1> HIDE DEF Inv, ModelAsks, RunCalls, Sound, Apart, RoundOK, Distinct, Foreign, Records, RoundType
<1> QED BY <1>1, <1>4, <1>5, <1>6, <1>7, <1>8, <1>9, <1>10, <1>11, RunCallsStep, ZenonT(30)

LEMMA InvStep == Inv /\ [Next]_vars => Inv'
<1> SUFFICES ASSUME Inv, [Next]_vars PROVE Inv'
  OBVIOUS
<1>0. \A f : faults' = faults \/ faults' = faults + 1 => faults' \in Nat
  BY DEF Inv, Memory, Types
<1>1. CASE Claim \/ ClaimUnreadable \/ ClaimReadError
  <2>1. PICK checkpoint : /\ Begin(checkpoint)
                          /\ checkpoint = Empty \/ (checkpoint = stored /\ stored # NoRecord)
    BY <1>1, Zenon DEF Claim, ClaimUnreadable, ClaimReadError
  <2>2. stored' \in {stored, NoRecord} /\ journaled' \subseteq journaled
    BY <1>1, Zenon DEF Claim, ClaimUnreadable, ClaimReadError, Deleted
  <2>3. faults' \in Nat
    BY <1>0, <1>1, Zenon DEF Claim, ClaimUnreadable, ClaimReadError, Fault
  <2> QED BY <2>1, <2>2, <2>3, BeginStep, Zenon
<1>2. CASE \/ Crash \/ PersistFails \/ CapReached \/ ModelErrors \/ ModelRejectedAgain
           \/ FinishAnswered \/ FinishFailed
  <2>1. PICK how \in {"answered", "capped", "failed", "crashed"} : End(how)
    BY <1>2, Zenon DEF Crash, PersistFails, CapReached, ModelErrors, ModelRejectedAgain,
                       FinishAnswered, FinishFailed
  <2>2. /\ pc # "idle" /\ journaled' \subseteq journaled
        /\ \/ stored' = stored /\ journal_failed' = journal_failed
           \/ stored' \in Deleted /\ journal_failed' = TRUE
    BY <1>2, Zenon DEF Crash, PersistFails, CapReached, ModelErrors, ModelRejectedAgain,
                       FinishAnswered, FinishFailed, Finish, record
  <2>3. faults' \in Nat
    BY <1>0, <1>2, Zenon DEF Crash, PersistFails, CapReached, ModelErrors, ModelRejectedAgain,
                             FinishAnswered, FinishFailed, Fault
  <2> QED BY <2>1, <2>2, <2>3, EndStep, Zenon
<1>3. CASE Expire
  <2>1. faults' \in Nat
    BY <1>0, <1>3, Zenon DEF Expire, Fault
  <2> QED BY <1>3, <2>1, ExpireStep, Zenon DEF Expire
<1>4. CASE \E m \in Messages : Send(m)
  BY <1>4, SendStep, Zenon
<1>5. CASE EndCalls
  <2>1. /\ pc = "calls" /\ pc' = (IF replaying THEN "replay" ELSE "loop")
        /\ \A i \in DOMAIN Current : ~Planned(i)
        /\ history' = history \o [i \in DOMAIN Current |-> CallItem(Current[i])]
        /\ UNCHANGED <<record, outcome, ck, left, replaying, rounds, repaired, failed, batch, mail,
                       bounds, shown, faults>>
    BY <1>5, Zenon DEF EndCalls
  <2>2. /\ ck \in Records /\ ck.rounds # <<>> /\ history \in Seq(Items) /\ ~closed
        /\ repaired \in BOOLEAN /\ failed \in BOOLEAN /\ closed \in BOOLEAN /\ replaying \in BOOLEAN
    BY <2>1, Zenon DEF Inv, Memory, Types, Flags, Control
  <2>3. /\ Len(ck.rounds) \in DOMAIN ck.rounds /\ Current \in Seq(CallType)
        /\ \A i \in DOMAIN Current : Current[i] \in CallType
        /\ \A k \in DOMAIN ck.rounds : k < Len(ck.rounds) \/ k = Len(ck.rounds)
    <3>1. /\ ck.rounds \in Seq(RoundType) /\ Len(ck.rounds) \in DOMAIN ck.rounds
          /\ Current \in Seq(CallType) /\ \A i \in DOMAIN Current : Current[i] \in CallType
      BY <2>2, RecordTypes, Elem, Zenon DEF Current
    <3> QED BY <3>1
  <2>4. \A i \in DOMAIN Current : Settled(Current[i])
    <3>1. \A i \in DOMAIN Current : Current[i].state \in CallStates \ {"planned", "started"}
      BY <2>1, <2>3 DEF Planned, CallType, Inv, Batch
    <3> QED BY <3>1 DEF CallStates, Settled
  <2>5. \A k \in DOMAIN ck.rounds : Over(ck.rounds[k])
    BY <2>3, <2>4, Zenon DEF Inv, Places, Over, OverBut, Current
  <2>6. history' \in Seq(Items)
    <3>1. [i \in DOMAIN Current |-> CallItem(Current[i])] \in Seq(Items)
      BY <2>3, CallItemsType, Zenon
    <3> QED BY <2>1, <2>2, <3>1, JoinType, ZenonT(30)
  <2>7. /\ pc' \in {"replay", "loop", "answered"} /\ (pc' = "replay" <=> replaying)
        /\ closed' = closed /\ (closed' <=> pc' = "answered")
    BY <2>1, <2>2 DEF mail
  <2> QED BY <2>1, <2>2, <2>5, <2>6, <2>7, MoveOnStep, ZenonT(30) DEF mail
<1>6. CASE \E failure \in BOOLEAN : ModelRejected(failure) \/ ModelAnswers(failure)
  <2>1. /\ \A k \in DOMAIN ck.rounds : Over(ck.rounds[k])
        /\ history \in Seq(Items) /\ repaired \in BOOLEAN /\ ~replaying /\ closed = FALSE
    BY <1>6, Zenon DEF ModelRejected, ModelAnswers, Inv, Memory, Types, Flags, Control, Places
  <2>2. CASE \E failure \in BOOLEAN : ModelRejected(failure)
    BY <2>1, <2>2, MoveOnStep, Zenon DEF ModelRejected, mail
  <2>3. CASE \E failure \in BOOLEAN : ModelAnswers(failure)
    BY <2>1, <2>3, MoveOnStep, Zenon DEF ModelAnswers
  <2> QED BY <1>6, <2>2, <2>3, Zenon
<1>7. CASE CallModel
  <2>1. rounds < MaxToolRounds
    BY <1>7, TurnLoopAssumption DEF CallModel, AtCap, Inv, Memory, Types
  <2>2. /\ shown' \subseteq Messages /\ failed' \in BOOLEAN
    BY <1>7, Zenon DEF CallModel, MessagesIn, Inv, Memory, Flags
  <2> HIDE DEF Inv, Steer
  <2> QED BY <1>7, <2>1, <2>2, SteerStep, ZenonT(30) DEF CallModel
<1>8. CASE \E failure \in BOOLEAN : ModelInterim(failure)
  <2>1. shown' \subseteq Messages
    BY <1>8, Zenon DEF ModelInterim, Inv, Memory, Types
  <2> HIDE DEF Inv, Steer
  <2> QED BY <1>8, <2>1, SteerStep, Zenon DEF ModelInterim
<1>9. CASE ReplayRound \/ FinishReplay \/ StartBatch \/ Invoke
  BY <1>9, ReplayRoundStep, FinishReplayStep, StartBatchStep, InvokeStep, ZenonT(30)
<1>10. CASE \E i \in running : Settle(i)
  BY <1>10, SettleStep, Zenon
<1>11. CASE \E calls \in Requests : ModelAsks(calls)
  BY <1>11, ModelAsksStep, Zenon
<1>12. CASE UNCHANGED vars
  <2> USE <1>12 DEF vars, record, loop, batch, mail, bounds
  <2>1. Types'
    BY Zenon DEF Inv, Memory, Types
  <2>4. Flags' /\ Control'
    BY ZenonT(30) DEF Inv, Memory, Flags, Control
  <2>2. Written' /\ Places'
    BY Zenon DEF Inv, Written, Places
  <2>3. Batch' /\ Once'
    BY Zenon DEF Inv, Batch, Once, Current
  <2> QED BY <2>1, <2>2, <2>3, <2>4, ZenonT(30) DEF Inv, Memory
<1> QED
  <2> HIDE DEF Inv
  <2> QED BY <1>1, <1>2, <1>3, <1>4, <1>5, <1>6, <1>7, <1>8, <1>9, <1>10, <1>11, <1>12, ZenonT(30)
          DEF Next, Step

LEMMA Invariant == Spec => []Inv
BY InvInit, InvStep, PTL DEF Spec

-----------------------------------------------------------------------------
(* Messages *)

LEMMA JoinItems ==
  ASSUME NEW h \in Seq(Items), NEW x \in Seq(Items)
  PROVE  MessagesIn(h) \subseteq MessagesIn(h \o x) /\ MessagesIn(x) \subseteq MessagesIn(h \o x)
<1>1. \A i \in DOMAIN h : i \in DOMAIN (h \o x) /\ (h \o x)[i] = h[i]
  OBVIOUS
<1>2. \A i \in DOMAIN x : Len(h) + i \in DOMAIN (h \o x) /\ (h \o x)[Len(h) + i] = x[i]
  OBVIOUS
<1> DEFINE y == h \o x
<1> HIDE DEF y
<1>3. MessagesIn(h) \subseteq MessagesIn(y)
  BY <1>1, Zenon DEF MessagesIn, y
<1>4. MessagesIn(x) \subseteq MessagesIn(y)
  BY <1>2, Zenon DEF MessagesIn, y
<1> QED BY <1>3, <1>4, Zenon DEF y

LEMMA ReadAll ==
  ASSUME NEW messages \in Seq(Messages)
  PROVE  Elements(messages) \subseteq MessagesIn(ReadItems(messages))
<1>1. \A i \in DOMAIN messages : messages[i] \in Messages
  BY Elem, Zenon
<1>2. DOMAIN ReadItems(messages) = DOMAIN messages
  BY Zenon DEF ReadItems
<1>3. \A i \in DOMAIN messages : ReadItems(messages)[i][1] = messages[i]
  BY DEF ReadItems
<1> QED BY <1>1, <1>2, <1>3, Zenon DEF MessagesIn, Elements

LEMMA PushElement ==
  ASSUME NEW s \in Seq(Messages), NEW m
  PROVE  Elements(Append(s, m)) = Elements(s) \cup {m}
<1> DEFINE t == Append(s, m)
           n == Len(s) + 1
<1>1. /\ DOMAIN t = DOMAIN s \cup {n} /\ t[n] = m
      /\ \A i \in DOMAIN s : t[i] = s[i]
  OBVIOUS
<1> HIDE DEF t, n
<1>2. Elements(t) = Elements(s) \cup {m}
  BY <1>1, ZenonT(30) DEF Elements
<1> QED BY <1>2, Zenon DEF t

LEMMA MailKept ==
  ASSUME Mail, pc # "idle", pc' \notin {"idle", "model", "answered"}, UNCHANGED <<accepted, outcome>>,
         \/ inbox' = inbox /\ MessagesIn(history) \subseteq MessagesIn(history')
         \/ Elements(inbox) \cup MessagesIn(history) \subseteq MessagesIn(history')
  PROVE  Mail'
BY Zenon DEF Mail

LEMMA MailStep == Inv /\ Mail /\ [Next]_vars => Mail'
<1> SUFFICES ASSUME Inv, Mail, [Next]_vars PROVE Mail'
  OBVIOUS
<1>1. /\ history \in Seq(Items) /\ inbox \in Seq(Messages) /\ ck \in Records /\ left \in Records
      /\ left.steered \in Seq(Messages) /\ left.rounds \in Seq(RoundType)
      /\ ck.rounds \in Seq(RoundType) /\ (pc \in {"idle", "answered"} <=> closed)
  BY RecordTypes, Zenon DEF Inv, Memory, Types, Control
<1>2. CASE Claim \/ ClaimUnreadable \/ ClaimReadError
  BY <1>2, Zenon DEF Claim, ClaimUnreadable, ClaimReadError, Begin, Mail
<1>3. CASE Crash \/ PersistFails \/ CapReached \/ ModelErrors \/ ModelRejectedAgain \/ FinishFailed
  BY <1>3, Zenon DEF Crash, PersistFails, CapReached, ModelErrors, ModelRejectedAgain,
                     FinishFailed, End, Mail
<1>4. CASE FinishAnswered
  BY <1>4, Zenon DEF FinishAnswered, End, Mail
<1>5. CASE Expire
  BY <1>5, Zenon DEF Expire, loop, mail, Mail
<1>6. ASSUME NEW m \in Messages, Send(m) PROVE Mail'
  <2>1. /\ Elements(inbox') = Elements(inbox) \cup {m} /\ accepted' = accepted \cup {m}
        /\ pc \notin {"idle", "answered"}
        /\ UNCHANGED <<pc, outcome, history, shown>>
    BY <1>1, <1>6, PushElement, ZenonT(30) DEF Send, loop
  <2> QED BY <2>1, Zenon DEF Mail
<1>7. CASE ReplayRound
  <2>1. Head(left.rounds).steered_before \in Seq(Messages)
    BY <1>1, <1>7, TailRounds, RecordTypes, ZenonT(30) DEF ReplayRound
  <2>2. MessagesIn(history) \subseteq MessagesIn(history')
    BY <1>1, <1>7, <2>1, ReadType, JoinItems, ZenonT(30) DEF ReplayRound
  <2> QED BY <1>7, <2>2, MailKept, ZenonT(30) DEF ReplayRound, RunCalls, mail
<1>8. CASE FinishReplay
  <2>1. MessagesIn(history) \subseteq MessagesIn(history')
    BY <1>1, <1>8, ReadType, JoinItems, ZenonT(30) DEF FinishReplay
  <2> QED BY <1>8, <2>1, MailKept, Zenon DEF FinishReplay, mail
<1>9. CASE StartBatch \/ Invoke \/ \E i \in running : Settle(i)
  BY <1>9, MailKept, Zenon DEF StartBatch, Invoke, Settle, mail, loop
<1>10. CASE EndCalls
  <2>1. MessagesIn(history) \subseteq MessagesIn(history')
    <3>1. ck.rounds # <<>>
      BY <1>10, Zenon DEF EndCalls, Inv, Memory, Control
    <3>2. Current \in Seq(CallType)
      BY <1>1, <3>1, RecordTypes, Elem, ZenonT(30) DEF Current
    <3> DEFINE x == [i \in DOMAIN Current |-> CallItem(Current[i])]
    <3>3. x \in Seq(Items) /\ history' = history \o x
      BY <1>10, <3>2, CallItemsType, Zenon DEF EndCalls
    <3> HIDE DEF x
    <3> QED BY <1>1, <3>3, JoinItems, ZenonT(30)
  <2> QED BY <1>10, <2>1, MailKept, Zenon DEF EndCalls, mail
<1>11. CASE CallModel \/ \E failure \in BOOLEAN : ModelInterim(failure)
  <2>1. history' = history \o ReadItems(inbox)
    BY <1>11, Zenon DEF CallModel, ModelInterim, Steer
  <2>2. Elements(inbox) \cup MessagesIn(history) \subseteq MessagesIn(history')
    BY <1>1, <2>1, ReadType, JoinItems, ReadAll, ZenonT(30)
  <2>3. CASE CallModel
    BY <2>2, <2>3, Zenon DEF CallModel, Mail
  <2>4. CASE \E failure \in BOOLEAN : ModelInterim(failure)
    BY <2>2, <2>4, MailKept, ZenonT(30) DEF ModelInterim
  <2> QED BY <1>11, <2>3, <2>4, Zenon
<1>12. CASE \E calls \in Requests : ModelAsks(calls)
  BY <1>12, MailKept, Zenon DEF ModelAsks, RunCalls, mail
<1>13. CASE \E failure \in BOOLEAN : ModelRejected(failure)
  BY <1>13, MailKept, Zenon DEF ModelRejected, mail
<1>14. CASE \E failure \in BOOLEAN : ModelAnswers(failure)
  <2>1. Elements(<<>>) = {}
    BY DEF Elements
  <2> QED BY <1>14, <2>1, Zenon DEF ModelAnswers, Mail
<1>15. CASE UNCHANGED vars
  BY <1>15, Zenon DEF vars, loop, mail, Mail
<1> QED
  <2> HIDE DEF Inv, Mail
  <2> QED BY <1>2, <1>3, <1>4, <1>5, <1>6, <1>7, <1>8, <1>9, <1>10, <1>11, <1>12, <1>13, <1>14,
             <1>15, Zenon DEF Next, Step

LEMMA MailInvariant == Spec => []Mail
<1>1. Init => Mail
  BY DEF Init, Mail
<1> QED BY <1>1, MailStep, Invariant, PTL DEF Spec

-----------------------------------------------------------------------------
(* What is proved of a turn *)

LEMMA DeletesInvariant == Spec /\ ~DeleteMayFail => [](Inv /\ ~DeleteMayFail)
<1>1. ~DeleteMayFail /\ [Next]_vars => ~DeleteMayFail'
  OBVIOUS
<1> QED BY <1>1, InvInit, InvStep, PTL DEF Spec

\* Every variable keeps its type, and with it the bounds of the rounds and of
\* the inbox.
THEOREM TypeCorrect == Spec => []TypeOK
<1>1. Inv => TypeOK
  <2> SUFFICES ASSUME Inv PROVE TypeOK
    OBVIOUS
  <2>1. rounds \in 0..MaxToolRounds
    <3>1. Len(left.rounds) \in Nat
      BY RecordTypes, Elem, ZenonT(30) DEF Inv, Memory, Types
    <3> QED BY <3>1, TurnLoopAssumption DEF Inv, Memory, Types
  <2> QED BY <2>1, Zenon DEF Inv, Memory, Types, Flags, TypeOK, Items
<1> QED BY <1>1, Invariant, PTL

\* Where a record that is to be deleted is deleted, a call with side effects
\* is invoked at most once over all the attempts: marking it started before it
\* runs (run_calls), giving up a started call that is not safe (resume_turn)
\* and deleting what can no longer be kept current (StoreJournal::record) are
\* enough, whatever the number of calls, rounds, crashes and failed writes.
THEOREM AlwaysUnsafeAtMostOnce == Spec /\ ~DeleteMayFail => []UnsafeAtMostOnce
<1>1. Inv /\ ~DeleteMayFail => UnsafeAtMostOnce
  BY ZenonT(30) DEF Inv, Once, UnsafeAtMostOnce
<1> QED BY <1>1, DeletesInvariant, PTL

\* Under the same condition, what the record or the rest of the replay calls
\* planned, and is not safe, has never run.
THEOREM AlwaysPlannedNeverRan == Spec /\ ~DeleteMayFail => []PlannedNeverRan
<1>1. Inv /\ ~DeleteMayFail => PlannedNeverRan
  <2> SUFFICES ASSUME Inv, ~DeleteMayFail, NEW r \in {stored, left} \ {NoRecord},
                      NEW k \in DOMAIN r.rounds, NEW i \in DOMAIN r.rounds[k].calls,
                      r.rounds[k].calls[i].state = "planned", r.rounds[k].calls[i].id \notin Safe
               PROVE  invoked[r.rounds[k].calls[i].id] = 0
    BY CallsInRounds DEF PlannedNeverRan
  <2>1. Sound(r.rounds, used, invoked) /\ used \subseteq Calls
    BY Zenon DEF Inv, Places, Memory, Types
  <2> QED BY <2>1, Zenon DEF Sound, RoundsOK, RoundOK, CallsOK, Unsafe, NotRun
<1> QED BY <1>1, DeletesInvariant, PTL

\* Every message the inbox accepted has been shown to the model when the turn
\* answers: SteerInbox::close_if_empty leaves no gap between the last read and
\* the closing.
THEOREM AlwaysAcceptedShown == Spec => []AcceptedShown
<1>1. Mail => AcceptedShown
  BY Zenon DEF Mail, AcceptedShown
<1> QED BY <1>1, MailInvariant, PTL

\* Where a record that is to be deleted is deleted, a stored record is where
\* the attempt stands.
THEOREM AlwaysRecordIsCurrent == Spec /\ ~DeleteMayFail => []RecordIsCurrent
<1>1. Inv /\ ~DeleteMayFail => RecordIsCurrent
  <2> SUFFICES ASSUME Inv, ~DeleteMayFail PROVE RecordIsCurrent
    OBVIOUS
  <2>1. ASSUME stored # NoRecord,
               NEW k \in 1..(Len(stored.rounds) - 1), NEW i \in DOMAIN stored.rounds[k].calls
        PROVE  Settled(stored.rounds[k].calls[i])
    <3>1. stored.rounds \in Seq(RoundType) /\ OverBut(stored.rounds)
      BY <2>1, RecordTypes, ZenonT(30) DEF Inv, Memory, Types, Places
    <3>2. k \in DOMAIN stored.rounds /\ k < Len(stored.rounds)
      BY <3>1
    <3> QED BY <3>1, <3>2, Zenon DEF OverBut, Over
  <2>2. ASSUME pc \in {"replay", "loop", "model", "answered"}, NEW call \in CallsIn(ck.rounds)
        PROVE  Settled(call)
    BY <2>2, CallsInRounds DEF Inv, Places, Over
  <2> QED BY <2>1, <2>2, Zenon DEF RecordIsCurrent, Inv, Written
<1> QED BY <1>1, DeletesInvariant, PTL

-----------------------------------------------------------------------------
(* Calls that run at once *)

Sets == INSTANCE FiniteSetTheorems

LEMMA SameSets ==
  ASSUME NEW S
  PROVE  Sets!Cardinality(S) = Cardinality(S) /\ (Sets!IsFiniteSet(S) <=> IsFiniteSet(S))
<1>1. Sets!Cardinality(S) = Cardinality(S)
  BY DEF Sets!Cardinality, Cardinality
<1>2. Sets!IsFiniteSet(S) <=> IsFiniteSet(S)
  BY DEF Sets!IsFiniteSet, IsFiniteSet
<1> QED BY <1>1, <1>2, Zenon

LEMMA Counting ==
  /\ IsFiniteSet({}) /\ Cardinality({}) = 0
  /\ \A S, x : IsFiniteSet(S) =>
       /\ Cardinality(S) \in Nat
       /\ IsFiniteSet(S \cup {x})
       /\ Cardinality(S \cup {x}) \in {Cardinality(S), Cardinality(S) + 1}
       /\ IsFiniteSet(S \ {x})
       /\ x \in S => Cardinality(S \ {x}) = Cardinality(S) - 1
<1>1. Sets!IsFiniteSet({}) /\ Sets!Cardinality({}) = 0
  BY Sets!FS_EmptySet, Zenon
<1>2. ASSUME NEW S, NEW x, Sets!IsFiniteSet(S)
      PROVE  /\ Sets!Cardinality(S) \in Nat
             /\ Sets!IsFiniteSet(S \cup {x})
             /\ Sets!Cardinality(S \cup {x}) \in {Sets!Cardinality(S), Sets!Cardinality(S) + 1}
             /\ Sets!IsFiniteSet(S \ {x})
             /\ x \in S => Sets!Cardinality(S \ {x}) = Sets!Cardinality(S) - 1
  <2>1. Sets!Cardinality(S) \in Nat
    BY <1>2, Sets!FS_CardinalityType, Zenon
  <2>2. /\ Sets!IsFiniteSet(S \cup {x})
        /\ Sets!Cardinality(S \cup {x}) \in {Sets!Cardinality(S), Sets!Cardinality(S) + 1}
    BY <1>2, Sets!FS_AddElement, Zenon
  <2>3. /\ Sets!IsFiniteSet(S \ {x})
        /\ x \in S => Sets!Cardinality(S \ {x}) = Sets!Cardinality(S) - 1
    BY <1>2, Sets!FS_RemoveElement, Zenon
  <2> QED BY <2>1, <2>2, <2>3, Zenon
<1> QED BY <1>1, <1>2, SameSets, Zenon

Few == IsFiniteSet(running) /\ Cardinality(running) <= MaxParallel

LEMMA FewInvariant == Spec => []Few
<1>0. MaxParallel \in Nat /\ 0 <= MaxParallel
  BY TurnLoopAssumption DEF MaxParallel
<1>1. Init => Few
  BY <1>0, Counting DEF Init, Few
<1>2. Inv /\ Few /\ [Next]_vars => Few'
  <2> SUFFICES ASSUME Inv, Few, [Next]_vars PROVE Few'
    OBVIOUS
  <2>1. CASE Invoke
    <3>1. PICK i \in queued : running' = running \cup {i}
      BY <2>1, Zenon DEF Invoke
    <3>2. /\ IsFiniteSet(running') /\ Cardinality(running) \in Nat
          /\ Cardinality(running') \in {Cardinality(running), Cardinality(running) + 1}
      BY <3>1, Counting, ZenonT(30) DEF Few
    <3>3. Cardinality(running) < MaxParallel
      BY <2>1 DEF Invoke
    <3> HIDE DEF Few
    <3> QED BY <1>0, <3>2, <3>3 DEF Few
  <2>2. ASSUME NEW i \in running, Settle(i) PROVE Few'
    <3>1. running' = running \ {i}
      BY <2>2, Zenon DEF Settle
    <3>2. /\ IsFiniteSet(running') /\ Cardinality(running) \in Nat
          /\ Cardinality(running') = Cardinality(running) - 1
      BY <3>1, Counting, ZenonT(30) DEF Few
    <3> QED BY <1>0, <3>2 DEF Few
  <2>3. ASSUME running' \in {running, {}} PROVE Few'
    BY <1>0, <2>3, Counting DEF Few
  <2>4. CASE Claim \/ ClaimUnreadable \/ ClaimReadError \/ Expire \/ \E m \in Messages : Send(m)
    BY <2>3, <2>4, Zenon DEF Claim, ClaimUnreadable, ClaimReadError, Begin, Expire, Send, batch
  <2>5. CASE \/ Crash \/ PersistFails \/ CapReached \/ ModelErrors \/ ModelRejectedAgain
             \/ FinishAnswered \/ FinishFailed
    BY <2>3, <2>5, Zenon DEF Crash, PersistFails, CapReached, ModelErrors, ModelRejectedAgain,
                             FinishAnswered, FinishFailed, End
  <2>6. CASE \/ ReplayRound \/ FinishReplay \/ StartBatch \/ EndCalls \/ CallModel
             \/ \E calls \in Requests : ModelAsks(calls)
             \/ \E failure \in BOOLEAN :
                  ModelRejected(failure) \/ ModelInterim(failure) \/ ModelAnswers(failure)
    BY <2>3, <2>6, Zenon DEF ReplayRound, FinishReplay, StartBatch, EndCalls, CallModel, ModelAsks,
                             ModelRejected, ModelInterim, ModelAnswers, batch
  <2>7. CASE UNCHANGED vars
    BY <2>3, <2>7, Zenon DEF vars, batch
  <2> QED
    <3> HIDE DEF Few
    <3> QED BY <2>1, <2>2, <2>4, <2>5, <2>6, <2>7, ZenonT(30) DEF Next, Step
<1> QED BY <1>1, <1>2, Invariant, PTL DEF Spec

\* A call with side effects runs alone, after everything before it has settled
\* and before anything after it has run; no more than MaxParallel calls run at
\* once (the batches of run_calls).
THEOREM AlwaysSideEffectsAlone == Spec => []SideEffectsAlone
<1>1. Inv /\ Few => SideEffectsAlone
  <2> SUFFICES ASSUME Inv, Few PROVE SideEffectsAlone
    OBVIOUS
  <2>1. Cardinality(running) <= MaxParallel
    BY Zenon DEF Few
  <2>2. ASSUME NEW i \in running, Current[i].id \notin Safe
        PROVE  /\ running = {i} /\ queued = {}
               /\ \A j \in 1..(i - 1) : Settled(Current[j])
               /\ \A j \in (i + 1)..Len(Current) : Current[j].state # "done"
    <3>1. pc = "batch" /\ ck \in Records /\ ck.rounds # <<>>
      BY Zenon DEF Inv, Memory, Types, Flags, Control
    <3>2. /\ Len(ck.rounds) \in DOMAIN ck.rounds /\ Current \in Seq(CallType)
          /\ \A j \in DOMAIN Current : Current[j] \in CallType
      BY <3>1, RecordTypes, Elem, ZenonT(30) DEF Current
    <3>3. /\ DOMAIN Current = 1..Len(Current) /\ Len(Current) \in Nat
          /\ \A j \in DOMAIN Current : Current[j].id \in Calls
      BY <3>2 DEF CallType
    <3>4. /\ i \in DOMAIN Current /\ queued \cap running = {} /\ Current[i].state = "started"
          /\ Unsafe(Current[i]) /\ queued \cup running = {i}
          /\ \A j \in DOMAIN Current : j < i => Settled(Current[j])
      BY <2>2, <3>1, <3>3, ZenonT(30) DEF Inv, Batch, BatchOK, Unsafe
    <3>5. \A j \in DOMAIN Current : i < j => Current[j].state # "done"
      BY <3>2, <3>4, ZenonT(30) DEF Inv, Places, Sound, RoundsOK, RoundOK, CallsOK, Current
    <3>6. running = {i} /\ queued = {}
      BY <3>4, Zenon
    <3> QED BY <3>3, <3>4, <3>5, <3>6
  <2> QED BY <2>1, <2>2, Zenon DEF SideEffectsAlone
<1> QED BY <1>1, Invariant, FewInvariant, PTL

-----------------------------------------------------------------------------
(* The history *)

LEMMA CountingMore ==
  /\ \A S, T : IsFiniteSet(S) /\ T \subseteq S =>
       IsFiniteSet(T) /\ Cardinality(T) \in Nat /\ Cardinality(T) <= Cardinality(S)
  /\ \A S, T : IsFiniteSet(S) /\ IsFiniteSet(T) /\ S \cap T = {} =>
       IsFiniteSet(S \cup T) /\ Cardinality(S \cup T) = Cardinality(S) + Cardinality(T)
  /\ \A k : \A m \in Nat :
       IsFiniteSet({k} \X (1..m)) /\ Cardinality({k} \X (1..m)) = m
<1>1. ASSUME NEW S, NEW T, Sets!IsFiniteSet(S), T \subseteq S
      PROVE  /\ Sets!IsFiniteSet(T) /\ Sets!Cardinality(T) \in Nat
             /\ Sets!Cardinality(T) <= Sets!Cardinality(S)
  BY <1>1, Sets!FS_Subset, Sets!FS_CardinalityType, Zenon
<1>2. ASSUME NEW S, NEW T, Sets!IsFiniteSet(S), Sets!IsFiniteSet(T), S \cap T = {}
      PROVE  /\ Sets!IsFiniteSet(S \cup T)
             /\ Sets!Cardinality(S \cup T) = Sets!Cardinality(S) + Sets!Cardinality(T)
  <2>1. /\ Sets!IsFiniteSet(S \cup T)
        /\ Sets!Cardinality(S \cup T) =
             Sets!Cardinality(S) + Sets!Cardinality(T) - Sets!Cardinality(S \cap T)
    BY <1>2, Sets!FS_Union, Zenon
  <2>2. Sets!Cardinality({}) = 0
    BY Sets!FS_EmptySet, Zenon
  <2>3. Sets!Cardinality(S) \in Nat /\ Sets!Cardinality(T) \in Nat
    BY <1>2, Sets!FS_CardinalityType, Zenon
  <2>4. Sets!Cardinality(S \cap T) = 0
    BY <1>2, <2>2, Zenon
  <2> QED BY <2>1, <2>3, <2>4
<1>3. ASSUME NEW k, NEW m \in Nat
      PROVE  /\ Sets!IsFiniteSet({k} \X (1..m))
             /\ Sets!Cardinality({k} \X (1..m)) = m
  <2>1. Sets!IsFiniteSet({k}) /\ Sets!Cardinality({k}) = 1
    BY Sets!FS_Singleton, Zenon
  <2>2. 1 \in Int /\ m \in Int
    OBVIOUS
  <2>3. Sets!IsFiniteSet(1..m) /\ Sets!Cardinality(1..m) = IF 1 > m THEN 0 ELSE m - 1 + 1
    BY <2>2, Sets!FS_Interval, Zenon
  <2>4. Sets!Cardinality(1..m) = m
    BY <2>3
  <2>5. /\ Sets!IsFiniteSet({k} \X (1..m))
        /\ Sets!Cardinality({k} \X (1..m)) = Sets!Cardinality({k}) * Sets!Cardinality(1..m)
    BY <2>1, <2>3, Sets!FS_Product, Zenon
  <2>6. 1 * m = m
    OBVIOUS
  <2> QED BY <2>1, <2>4, <2>5, <2>6, Zenon
<1>4. \A S, T : IsFiniteSet(S) /\ T \subseteq S =>
        IsFiniteSet(T) /\ Cardinality(T) \in Nat /\ Cardinality(T) <= Cardinality(S)
  BY <1>1, SameSets, Zenon
<1>5. \A S, T : IsFiniteSet(S) /\ IsFiniteSet(T) /\ S \cap T = {} =>
        IsFiniteSet(S \cup T) /\ Cardinality(S \cup T) = Cardinality(S) + Cardinality(T)
  <2> SUFFICES ASSUME NEW S, NEW T, IsFiniteSet(S), IsFiniteSet(T), S \cap T = {}
               PROVE  /\ IsFiniteSet(S \cup T)
                      /\ Cardinality(S \cup T) = Cardinality(S) + Cardinality(T)
    BY Zenon
  <2> DEFINE U == S \cup T
  <2>1. Sets!IsFiniteSet(S) /\ Sets!IsFiniteSet(T)
    BY SameSets, Zenon
  <2>2. Sets!IsFiniteSet(U) /\ Sets!Cardinality(U) = Sets!Cardinality(S) + Sets!Cardinality(T)
    BY <1>2, <2>1, Zenon
  <2> HIDE DEF U
  <2>3. IsFiniteSet(U) /\ Cardinality(U) = Cardinality(S) + Cardinality(T)
    BY <2>2, SameSets, Zenon
  <2> QED BY <2>3, Zenon DEF U
<1>6. \A k : \A m \in Nat :
        IsFiniteSet({k} \X (1..m)) /\ Cardinality({k} \X (1..m)) = m
  BY <1>3, SameSets, Zenon
<1> QED BY <1>4, <1>5, <1>6, Zenon

\* What the parts up to n have depends on those parts only.
LEMMA SameSlots ==
  ASSUME NEW parts, NEW new, NEW n, \A k \in 1..n : new[k] = parts[k]
  PROVE  Slots(new, n) = Slots(parts, n) /\ Offset(new, n) = Offset(parts, n)
<1>1. \A p : p \in Slots(new, n) <=> p \in Slots(parts, n)
  BY Zenon DEF Slots
<1>2. Slots(new, n) = Slots(parts, n)
  BY <1>1, Zenon
<1> QED BY <1>2, Zenon DEF Offset

\* The parts up to n have those of the parts before n and those of part n.
LEMMA LastPart ==
  ASSUME NEW parts, NEW n \in Nat, n > 0, NEW m \in Nat, DOMAIN parts[n] = 1..m,
         IsFiniteSet(Slots(parts, n - 1))
  PROVE  /\ IsFiniteSet(Slots(parts, n))
         /\ Offset(parts, n) = Offset(parts, n - 1) + m
         /\ Offset(parts, n - 1) \in Nat
<1> DEFINE last == {n} \X (1..m)
<1>1. \A k : k \in 1..n <=> k \in 1..(n - 1) \/ k = n
  OBVIOUS
<1>2. \A p : p \in Slots(parts, n) <=> p \in Slots(parts, n - 1) \/ p \in last
  BY <1>1, Zenon DEF Slots
<1>3. Slots(parts, n) = Slots(parts, n - 1) \cup last
  BY <1>2, Zenon
<1>4. n \notin 1..(n - 1)
  OBVIOUS
<1>5. Slots(parts, n - 1) \cap last = {}
  BY <1>4 DEF Slots
<1>6. IsFiniteSet(last) /\ Cardinality(last) = m
  BY CountingMore, Zenon
<1> HIDE DEF last
<1>7. IsFiniteSet(Slots(parts, n)) /\ Offset(parts, n) = Offset(parts, n - 1) + m
  <2> DEFINE before == Slots(parts, n - 1)
  <2>1. IsFiniteSet(before) /\ before \cap last = {}
    BY <1>5, Zenon
  <2> HIDE DEF before
  <2>2. /\ IsFiniteSet(before \cup last)
        /\ Cardinality(before \cup last) = Cardinality(before) + Cardinality(last)
    BY <1>6, <2>1, CountingMore, Zenon
  <2> QED BY <1>3, <1>6, <2>2, Zenon DEF Offset, before
<1>8. Offset(parts, n - 1) \in Nat
  BY Counting, Zenon DEF Offset
<1> QED BY <1>7, <1>8, Zenon

\* Where the parts up to j end is no later than where those up to n do.
LEMMA OffsetGrows ==
  ASSUME NEW parts, NEW n \in Nat, NEW j \in 0..n, IsFiniteSet(Slots(parts, n))
  PROVE  /\ IsFiniteSet(Slots(parts, j)) /\ Offset(parts, j) \in Nat
         /\ Offset(parts, n) \in Nat /\ Offset(parts, j) <= Offset(parts, n)
<1>1. \A k : k \in 1..j => k \in 1..n
  OBVIOUS
<1>2. Slots(parts, j) \subseteq Slots(parts, n)
  BY <1>1, Zenon DEF Slots
<1>3. Offset(parts, n) \in Nat
  BY Counting, Zenon DEF Offset
<1> QED BY <1>2, <1>3, CountingMore, Zenon DEF Offset

Flat(items, parts) ==
  Concatenates(items, parts) /\ IsFiniteSet(Slots(parts, Len(parts)))

\* Every item of every part has its place.
Placed(items, parts) ==
  \A k \in 1..Len(parts) : \A i \in DOMAIN parts[k] :
    /\ Offset(parts, k - 1) + i \in 1..Len(items)
    /\ items[Offset(parts, k - 1) + i] = parts[k][i]

LEMMA InPlace ==
  ASSUME NEW S, NEW h \in Seq(S), NEW parts \in Seq(Seq(S)), Flat(h, parts)
  PROVE  Placed(h, parts)
<1> SUFFICES ASSUME NEW k \in 1..Len(parts), NEW i \in DOMAIN parts[k]
             PROVE  /\ Offset(parts, k - 1) + i \in 1..Len(h)
                    /\ h[Offset(parts, k - 1) + i] = parts[k][i]
  BY Zenon DEF Placed
<1> DEFINE n == Len(parts)
<1>1. /\ n \in Nat /\ k \in Nat /\ k > 0 /\ k \in 0..n /\ k - 1 \in 0..k
      /\ k \in DOMAIN parts /\ parts[k] \in Seq(S)
  OBVIOUS
<1>2. Len(parts[k]) \in Nat /\ DOMAIN parts[k] = 1..Len(parts[k])
  BY <1>1
<1>3. IsFiniteSet(Slots(parts, n)) /\ Len(h) = Offset(parts, n)
  BY Zenon DEF Flat, Concatenates
<1> HIDE DEF n
<1>4. /\ IsFiniteSet(Slots(parts, k))
      /\ Offset(parts, k) \in Nat /\ Offset(parts, n) \in Nat
      /\ Offset(parts, k) <= Offset(parts, n)
  BY <1>1, <1>3, OffsetGrows, Zenon
<1>5. IsFiniteSet(Slots(parts, k - 1))
  BY <1>1, <1>4, OffsetGrows, Zenon
<1>6. /\ Offset(parts, k) = Offset(parts, k - 1) + Len(parts[k])
      /\ Offset(parts, k - 1) \in Nat
  BY <1>1, <1>2, <1>5, LastPart, Zenon
<1>7. h[Offset(parts, k - 1) + i] = parts[k][i]
  BY <1>1, Zenon DEF Flat, Concatenates
<1>8. i \in 1..Len(parts[k])
  BY <1>2, Zenon
<1>9. Offset(parts, k - 1) + i \in 1..Offset(parts, n)
  BY <1>2, <1>4, <1>6, <1>8
<1> QED BY <1>3, <1>7, <1>9, Zenon

\* More items come in at the end of the last part.
LEMMA Extended ==
  ASSUME NEW S, NEW h \in Seq(S), NEW q \in Seq(S),
         NEW parts \in Seq(Seq(S)), NEW new \in Seq(Seq(S)), NEW n \in Nat, n > 0,
         Len(parts) = n, Len(new) = n, \A k \in 1..(n - 1) : new[k] = parts[k],
         new[n] = parts[n] \o q, Flat(h, parts)
  PROVE  Flat(h \o q, new)
<1>p. Placed(h, parts)
  BY InPlace, Zenon
<1> DEFINE a == Len(parts[n])
           b == Len(q)
           t == h \o q
<1>1. /\ n - 1 \in 0..n /\ n \in 1..n /\ DOMAIN new = 1..n
      /\ parts[n] \in Seq(S) /\ new[n] \in Seq(S)
  OBVIOUS
<1>2. /\ a \in Nat /\ b \in Nat /\ DOMAIN parts[n] = 1..a /\ DOMAIN new[n] = 1..(a + b)
      /\ \A i \in 1..a : new[n][i] = parts[n][i]
      /\ \A i \in 1..(a + b) : i > a => i - a \in 1..b /\ new[n][i] = q[i - a]
  BY <1>1
<1>3. /\ Len(t) = Len(h) + b /\ Len(h) \in Nat
      /\ \A j \in 1..Len(h) : t[j] = h[j]
      /\ \A j \in 1..b : t[Len(h) + j] = q[j]
  OBVIOUS
<1>4. IsFiniteSet(Slots(parts, n)) /\ Len(h) = Offset(parts, n)
  BY Zenon DEF Flat, Concatenates
<1>5. IsFiniteSet(Slots(parts, n - 1))
  BY <1>1, <1>4, OffsetGrows, Zenon
<1> HIDE DEF a, b, t
<1>6. /\ Offset(parts, n) = Offset(parts, n - 1) + a
      /\ Offset(parts, n - 1) \in Nat
  BY <1>2, <1>5, LastPart, Zenon
<1>7. /\ Slots(new, n - 1) = Slots(parts, n - 1)
      /\ Offset(new, n - 1) = Offset(parts, n - 1)
  BY SameSlots, Zenon
<1>8. IsFiniteSet(Slots(new, n)) /\ Offset(new, n) = Offset(parts, n - 1) + (a + b)
  <2> DEFINE m == a + b
  <2>1. m \in Nat /\ DOMAIN new[n] = 1..m
    BY <1>2
  <2>2. IsFiniteSet(Slots(new, n - 1))
    BY <1>5, <1>7, Zenon
  <2> HIDE DEF m
  <2>3. IsFiniteSet(Slots(new, n)) /\ Offset(new, n) = Offset(new, n - 1) + m
    BY <2>1, <2>2, LastPart, Zenon
  <2> QED BY <1>7, <2>3, Zenon DEF m
<1>9. Len(t) = Offset(new, n)
  BY <1>2, <1>3, <1>4, <1>6, <1>8
<1>10. ASSUME NEW k \in 1..n, NEW i \in DOMAIN new[k]
       PROVE  t[Offset(new, k - 1) + i] = new[k][i]
  <2>0. k - 1 \in 0..n /\ (k \in 1..(n - 1) \/ k = n)
    OBVIOUS
  <2>1. CASE k \in 1..(n - 1)
    <3>1. i \in DOMAIN parts[k] /\ new[k][i] = parts[k][i]
      BY <1>10, <2>1, Zenon
    <3>2. \A j \in 1..(k - 1) : new[j] = parts[j]
      BY <2>1
    <3>3. Offset(new, k - 1) = Offset(parts, k - 1)
      BY <3>2, SameSlots, Zenon
    <3>4. /\ Offset(parts, k - 1) + i \in 1..Len(h)
          /\ h[Offset(parts, k - 1) + i] = parts[k][i]
      <4>1. k \in 1..Len(parts) /\ i \in DOMAIN parts[k]
        BY <3>1, Zenon
      <4> QED BY <1>p, <4>1, Zenon DEF Placed
    <3> QED BY <1>3, <3>1, <3>3, <3>4, Zenon
  <2>2. CASE k = n /\ i <= a
    <3>1. i \in 1..a
      BY <1>2, <1>10, <2>2
    <3>2. i \in DOMAIN parts[n] /\ new[n][i] = parts[n][i]
      BY <1>2, <3>1, Zenon
    <3>3. /\ Offset(parts, n - 1) + i \in 1..Len(h)
          /\ h[Offset(parts, n - 1) + i] = parts[n][i]
      <4>1. n \in 1..Len(parts) /\ i \in DOMAIN parts[n]
        BY <1>1, <3>2, Zenon
      <4> QED BY <1>p, <4>1, Zenon DEF Placed
    <3> QED BY <1>3, <1>7, <2>2, <3>2, <3>3, Zenon
  <2>3. CASE k = n /\ i > a
    <3>1. i \in 1..(a + b)
      BY <1>2, <1>10, <2>3, Zenon
    <3>2. i - a \in 1..b /\ new[n][i] = q[i - a]
      BY <1>2, <2>3, <3>1, Zenon
    <3>3. Offset(parts, n - 1) + i = Len(h) + (i - a)
      BY <1>2, <1>4, <1>6, <3>1
    <3> QED BY <1>3, <1>7, <2>3, <3>2, <3>3, Zenon
  <2>4. k = n => i \in 1..(a + b)
    BY <1>2, <1>10, Zenon
  <2>5. k = n => i <= a \/ i > a
    BY <1>2, <2>4
  <2> QED BY <2>0, <2>1, <2>2, <2>3, <2>5, Zenon
<1>11. Concatenates(t, new)
  BY <1>1, <1>9, <1>10, Zenon DEF Concatenates
<1> QED BY <1>8, <1>11, Zenon DEF Flat, t

\* A part without items is begun.
LEMMA Followed ==
  ASSUME NEW S, NEW h \in Seq(S), NEW parts \in Seq(Seq(S)), NEW new \in Seq(Seq(S)),
         NEW n \in Nat, Len(parts) = n, Len(new) = n + 1,
         \A k \in 1..n : new[k] = parts[k], new[n + 1] = <<>>, Flat(h, parts)
  PROVE  Flat(h, new)
<1>p. Placed(h, parts)
  BY InPlace, Zenon
<1> DEFINE m == n + 1
<1>1. /\ m \in Nat /\ m > 0 /\ m - 1 = n /\ DOMAIN new = 1..m /\ 0 \in Nat
      /\ Len(h) \in Nat
  OBVIOUS
<1>2. DOMAIN new[m] = 1..0
  OBVIOUS
<1>3. IsFiniteSet(Slots(parts, n)) /\ Len(h) = Offset(parts, n)
  BY Zenon DEF Flat, Concatenates
<1>4. Slots(new, n) = Slots(parts, n) /\ Offset(new, n) = Offset(parts, n)
  BY SameSlots, Zenon
<1>5. \A k \in 1..m : k \in 1..n \/ k = m
  OBVIOUS
<1> HIDE DEF m
<1>6. IsFiniteSet(Slots(new, m)) /\ Offset(new, m) = Offset(new, n) + 0
  <2>1. IsFiniteSet(Slots(new, m - 1))
    BY <1>1, <1>3, <1>4, Zenon
  <2>2. IsFiniteSet(Slots(new, m)) /\ Offset(new, m) = Offset(new, m - 1) + 0
    BY <1>1, <1>2, <2>1, LastPart, Zenon
  <2> QED BY <1>1, <2>2, Zenon
<1>7. Len(h) = Offset(new, m)
  BY <1>1, <1>3, <1>4, <1>6
<1>8. ASSUME NEW k \in 1..m, NEW i \in DOMAIN new[k]
      PROVE  h[Offset(new, k - 1) + i] = new[k][i]
  <2>1. i \notin 1..0
    OBVIOUS
  <2>2. k \in 1..n
    BY <1>2, <1>5, <1>8, <2>1, Zenon
  <2>3. \A j \in 1..(k - 1) : new[j] = parts[j]
    BY <2>2
  <2>4. Offset(new, k - 1) = Offset(parts, k - 1)
    BY <2>3, SameSlots, Zenon
  <2>5. i \in DOMAIN parts[k] /\ new[k][i] = parts[k][i]
    BY <1>8, <2>2, Zenon
  <2>6. h[Offset(parts, k - 1) + i] = parts[k][i]
    <3>1. k \in 1..Len(parts) /\ i \in DOMAIN parts[k]
      BY <2>2, <2>5, Zenon
    <3> QED BY <1>p, <3>1, Zenon DEF Placed
  <2> QED BY <2>4, <2>5, <2>6, Zenon
<1>9. Concatenates(h, new)
  <2>1. Len(new) = m
    BY Zenon DEF m
  <2> QED BY <1>1, <1>7, <1>8, <2>1, Zenon DEF Concatenates
<1>10. Len(new) = m
  BY Zenon DEF m
<1> QED BY <1>6, <1>9, <1>10, Zenon DEF Flat

\* The last round is at its calls: what was read before it is in the history,
\* its results are not.
Begun(c) ==
  [k \in DOMAIN c.rounds |->
     IF k = Len(c.rounds) THEN ReadItems(c.rounds[k].steered_before)
                          ELSE RoundItems(c.rounds[k])]

\* The history is the conversation so far, wherever the attempt is.
Story ==
  /\ pc \in {"replay", "loop", "model", "answered"} => Flat(history, Conversation(ck))
  /\ pc \in {"calls", "batch"} => Flat(history, Begun(ck)) /\ ck.steered = <<>>

LEMMA SameSeq ==
  ASSUME NEW S, NEW s \in Seq(S), NEW t \in Seq(S), Len(s) = Len(t),
         \A i \in 1..Len(s) : s[i] = t[i]
  PROVE  s = t
<1>1. s = [i \in 1..Len(s) |-> s[i]] /\ t = [i \in 1..Len(t) |-> t[i]]
  OBVIOUS
<1> QED BY <1>1, Zenon

LEMMA ReadLength ==
  ASSUME NEW messages \in Seq(Messages)
  PROVE  /\ ReadItems(messages) \in Seq(Items)
         /\ Len(ReadItems(messages)) = Len(messages)
         /\ \A i \in 1..Len(messages) : ReadItems(messages)[i] = <<messages[i], "read">>
<1>1. ReadItems(messages) \in Seq(Items)
  BY ReadType, Zenon
<1>2. DOMAIN ReadItems(messages) = DOMAIN messages
  BY Zenon DEF ReadItems
<1>3. DOMAIN messages = 1..Len(messages) /\ Len(messages) \in Nat
  OBVIOUS
<1>4. \A i \in 1..Len(messages) : ReadItems(messages)[i] = <<messages[i], "read">>
  BY <1>3, Zenon DEF ReadItems
<1>5. Len(ReadItems(messages)) = Len(messages)
  <2> DEFINE r == ReadItems(messages)
  <2>1. r \in Seq(Items) /\ DOMAIN r = 1..Len(messages)
    BY <1>1, <1>2, <1>3, Zenon
  <2> HIDE DEF r
  <2>2. Len(r) = Len(messages)
    BY <1>3, <2>1
  <2> QED BY <2>2, Zenon DEF r
<1> QED BY <1>1, <1>4, <1>5, Zenon

LEMMA ReadNone == ReadItems(<<>>) = <<>>
<1> DEFINE r == ReadItems(<<>>)
<1>1. <<>> \in Seq(Messages) /\ Len(<<>>) = 0
  OBVIOUS
<1>2. r \in Seq(Items) /\ Len(r) = 0
  BY <1>1, ReadLength, Zenon
<1> HIDE DEF r
<1>3. r = <<>>
  BY <1>2
<1> QED BY <1>3, Zenon DEF r

LEMMA ReadBoth ==
  ASSUME NEW s \in Seq(Messages), NEW t \in Seq(Messages)
  PROVE  ReadItems(s \o t) = ReadItems(s) \o ReadItems(t)
<1> DEFINE u == s \o t
           a == ReadItems(s)
           b == ReadItems(t)
           c == ReadItems(u)
<1>1. /\ u \in Seq(Messages) /\ Len(u) = Len(s) + Len(t)
      /\ \A i \in 1..Len(u) : u[i] = IF i <= Len(s) THEN s[i] ELSE t[i - Len(s)]
      /\ Len(s) \in Nat /\ Len(t) \in Nat
  OBVIOUS
<1> HIDE DEF u
<1>2. /\ a \in Seq(Items) /\ Len(a) = Len(s) /\ \A i \in 1..Len(s) : a[i] = <<s[i], "read">>
      /\ b \in Seq(Items) /\ Len(b) = Len(t) /\ \A i \in 1..Len(t) : b[i] = <<t[i], "read">>
      /\ c \in Seq(Items) /\ Len(c) = Len(u) /\ \A i \in 1..Len(u) : c[i] = <<u[i], "read">>
  BY <1>1, ReadLength, Zenon
<1> HIDE DEF a, b, c
<1>3. /\ a \o b \in Seq(Items) /\ Len(a \o b) = Len(a) + Len(b)
      /\ \A i \in 1..(Len(a) + Len(b)) :
           (a \o b)[i] = IF i <= Len(a) THEN a[i] ELSE b[i - Len(a)]
  <2>1. a \in Seq(Items) /\ b \in Seq(Items)
    BY <1>2, Zenon
  <2> QED BY <2>1
<1>4. \A i \in 1..Len(c) : c[i] = (a \o b)[i]
  <2> SUFFICES ASSUME NEW i \in 1..Len(c) PROVE c[i] = (a \o b)[i]
    BY Zenon
  <2>1. i \in 1..Len(u) /\ i \in 1..(Len(a) + Len(b))
    BY <1>1, <1>2
  <2>2. CASE i <= Len(s)
    <3>1. i \in 1..Len(s)
      BY <1>1, <2>1, <2>2
    <3> QED BY <1>1, <1>2, <1>3, <2>1, <2>2, <3>1, Zenon
  <2>3. CASE ~(i <= Len(s))
    <3>1. i - Len(s) \in 1..Len(t)
      BY <1>1, <2>1, <2>3
    <3> QED BY <1>1, <1>2, <1>3, <2>1, <2>3, <3>1, Zenon
  <2> QED BY <2>2, <2>3, Zenon
<1>5. Len(c) = Len(a \o b)
  BY <1>1, <1>2, <1>3, Zenon
<1>6. c = a \o b
  BY <1>2, <1>3, <1>4, <1>5, SameSeq, Zenon
<1> QED BY <1>6, Zenon DEF a, b, c, u

LEMMA RoundItemsType ==
  ASSUME NEW r \in RoundType
  PROVE  RoundItems(r) \in Seq(Items)
<1>1. r.steered_before \in Seq(Messages) /\ r.calls \in Seq(CallType)
  BY RecordTypes, Zenon
<1>2. ReadItems(r.steered_before) \in Seq(Items)
  BY <1>1, ReadType, Zenon
<1>3. [i \in DOMAIN r.calls |-> CallItem(r.calls[i])] \in Seq(Items)
  BY <1>1, CallItemsType, Zenon
<1> QED BY <1>2, <1>3, JoinType, Zenon DEF RoundItems

Told(c) == [k \in DOMAIN c.rounds |-> RoundItems(c.rounds[k])]

LEMMA ToldParts ==
  ASSUME NEW c \in Records, NEW n, n = Len(c.rounds)
  PROVE  /\ n \in Nat /\ DOMAIN c.rounds = 1..n
         /\ Told(c) \in Seq(Seq(Items)) /\ Len(Told(c)) = n
         /\ \A k \in 1..n : Told(c)[k] = RoundItems(c.rounds[k])
<1>1. c.rounds \in Seq(RoundType)
  BY RecordTypes, Zenon
<1>2. n \in Nat /\ DOMAIN c.rounds = 1..n /\ \A k \in 1..n : c.rounds[k] \in RoundType
  BY <1>1
<1>3. Told(c) \in [DOMAIN c.rounds -> Seq(Items)]
  BY <1>2, RoundItemsType DEF Told
<1>4. Told(c) \in Seq(Seq(Items)) /\ Len(Told(c)) = n
  <2> DEFINE s == c.rounds
             f == Told(c)
             T == Seq(Items)
  <2> HIDE DEF s, f, T
  <2>1. s \in Seq(RoundType) /\ f \in [DOMAIN s -> T]
    BY <1>1, <1>3, Zenon DEF s, f, T
  <2>2. f \in Seq(T) /\ Len(f) = Len(s)
    BY <2>1, SameLength
  <2> QED BY <2>2, Zenon DEF s, f, T
<1>5. \A k \in 1..n : Told(c)[k] = RoundItems(c.rounds[k])
  BY <1>2, Zenon DEF Told
<1> QED BY <1>2, <1>4, <1>5, Zenon

LEMMA ConversationParts ==
  ASSUME NEW c \in Records, NEW n, n = Len(c.rounds)
  PROVE  /\ n \in Nat
         /\ Conversation(c) \in Seq(Seq(Items)) /\ Len(Conversation(c)) = n + 1
         /\ \A k \in 1..n : Conversation(c)[k] = RoundItems(c.rounds[k])
         /\ Conversation(c)[n + 1] = ReadItems(c.steered)
<1>1. /\ n \in Nat /\ Told(c) \in Seq(Seq(Items)) /\ Len(Told(c)) = n
      /\ \A k \in 1..n : Told(c)[k] = RoundItems(c.rounds[k])
  BY ToldParts, Zenon
<1>2. ReadItems(c.steered) \in Seq(Items)
  BY RecordTypes, ReadType, Zenon
<1>3. Conversation(c) = Append(Told(c), ReadItems(c.steered))
  BY Zenon DEF Conversation, Told
<1> DEFINE s == Told(c)
           e == ReadItems(c.steered)
           t == Append(s, e)
<1> HIDE DEF s, e
<1>4. /\ s \in Seq(Seq(Items)) /\ e \in Seq(Items) /\ Len(s) = n
  BY <1>1, <1>2, Zenon DEF s, e
<1>5. /\ t \in Seq(Seq(Items)) /\ Len(t) = n + 1 /\ t[n + 1] = e
      /\ \A k \in 1..n : t[k] = s[k]
  BY <1>1, <1>4
<1>6. Conversation(c) = t
  BY <1>3, Zenon DEF s, e
<1> HIDE DEF t
<1> QED BY <1>1, <1>5, <1>6, Zenon DEF s, e

LEMMA BegunParts ==
  ASSUME NEW c \in Records, c.rounds # <<>>, NEW n, n = Len(c.rounds)
  PROVE  /\ n \in Nat /\ n > 0
         /\ Begun(c) \in Seq(Seq(Items)) /\ Len(Begun(c)) = n
         /\ \A k \in 1..(n - 1) : Begun(c)[k] = RoundItems(c.rounds[k])
         /\ Begun(c)[n] = ReadItems(c.rounds[n].steered_before)
<1>1. c.rounds \in Seq(RoundType)
  BY RecordTypes, Zenon
<1>2. /\ n \in Nat /\ n > 0 /\ n \in 1..n /\ DOMAIN c.rounds = 1..n
      /\ \A k \in 1..n : c.rounds[k] \in RoundType
      /\ \A k \in 1..(n - 1) : k \in 1..n /\ k # n
  BY <1>1
<1>3. \A k \in 1..n : /\ RoundItems(c.rounds[k]) \in Seq(Items)
                      /\ ReadItems(c.rounds[k].steered_before) \in Seq(Items)
  BY <1>2, RoundItemsType, RecordTypes, ReadType, Zenon
<1>4. Begun(c) \in [DOMAIN c.rounds -> Seq(Items)]
  BY <1>2, <1>3, Zenon DEF Begun
<1>5. Begun(c) \in Seq(Seq(Items)) /\ Len(Begun(c)) = n
  <2> DEFINE s == c.rounds
             f == Begun(c)
             T == Seq(Items)
  <2> HIDE DEF s, f, T
  <2>1. s \in Seq(RoundType) /\ f \in [DOMAIN s -> T]
    BY <1>1, <1>4, Zenon DEF s, f, T
  <2>2. f \in Seq(T) /\ Len(f) = Len(s)
    BY <2>1, SameLength
  <2> QED BY <2>2, Zenon DEF s, f, T
<1>6. /\ \A k \in 1..(n - 1) : Begun(c)[k] = RoundItems(c.rounds[k])
      /\ Begun(c)[n] = ReadItems(c.rounds[n].steered_before)
  BY <1>2, Zenon DEF Begun
<1> QED BY <1>2, <1>5, <1>6, Zenon

LEMMA SameParts ==
  ASSUME NEW h, NEW parts \in Seq(Seq(Items)), NEW new \in Seq(Seq(Items)),
         NEW n, Len(parts) = n, Len(new) = n,
         \A k \in 1..n : new[k] = parts[k], Flat(h, parts)
  PROVE  Flat(h, new)
<1>1. new = parts
  BY SameSeq, Zenon
<1> QED BY <1>1, Zenon

\* An attempt begins: nothing is recorded, nothing was read.
LEMMA NothingTold == Flat(<<>>, Conversation(Empty))
<1> DEFINE parts == Conversation(Empty)
<1>1. Empty \in Records /\ Empty.rounds = <<>> /\ Empty.steered = <<>>
  BY EmptySound, Zenon
<1>2. Len(<<>>) = 0 /\ 0 + 1 = 1
  OBVIOUS
<1>3. Len(parts) = 1 /\ parts[1] = <<>>
  BY <1>1, <1>2, ConversationParts, ReadNone, Zenon
<1>4. parts \in Seq(Seq(Items))
  BY <1>1, <1>2, ConversationParts, Zenon
<1> HIDE DEF parts
<1>5. DOMAIN parts = 1..1 /\ DOMAIN parts[1] = 1..0 /\ 1 \in Nat /\ 0 \in Nat /\ 1 > 0
  BY <1>3, <1>4
<1>6. Slots(parts, 1 - 1) = {}
  <2>1. \A k : k \notin 1..(1 - 1)
    OBVIOUS
  <2> QED BY <2>1, Zenon DEF Slots
<1>7. IsFiniteSet(Slots(parts, 1 - 1)) /\ Offset(parts, 1 - 1) = 0
  BY <1>6, Counting, Zenon DEF Offset
<1>8. IsFiniteSet(Slots(parts, 1)) /\ Offset(parts, 1) = Offset(parts, 1 - 1) + 0
  BY <1>5, <1>7, LastPart, Zenon
<1>9. Offset(parts, 1) = 0
  BY <1>7, <1>8
<1>10. \A k \in DOMAIN parts : \A i \in DOMAIN parts[k] : FALSE
  BY <1>5
<1> QED BY <1>2, <1>3, <1>8, <1>9, <1>10, Zenon DEF Flat, Concatenates, parts

\* Messages are read: steer(), and the messages put back after the replay.
LEMMA MessagesTold ==
  ASSUME NEW h \in Seq(Items), NEW c \in Records, NEW d \in Records,
         NEW messages \in Seq(Messages), d.rounds = c.rounds,
         d.steered = c.steered \o messages, Flat(h, Conversation(c))
  PROVE  Flat(h \o ReadItems(messages), Conversation(d))
<1> DEFINE n == Len(c.rounds)
           m == n + 1
           q == ReadItems(messages)
<1>1. /\ n \in Nat
      /\ Conversation(c) \in Seq(Seq(Items)) /\ Len(Conversation(c)) = m
      /\ \A k \in 1..n : Conversation(c)[k] = RoundItems(c.rounds[k])
      /\ Conversation(c)[m] = ReadItems(c.steered)
  BY ConversationParts, Zenon
<1>2. /\ Conversation(d) \in Seq(Seq(Items)) /\ Len(Conversation(d)) = m
      /\ \A k \in 1..n : Conversation(d)[k] = RoundItems(c.rounds[k])
      /\ Conversation(d)[m] = ReadItems(d.steered)
  BY ConversationParts, Zenon
<1>3. q \in Seq(Items) /\ ReadItems(d.steered) = ReadItems(c.steered) \o q
  BY RecordTypes, ReadType, ReadBoth, Zenon
<1>4. m \in Nat /\ m > 0 /\ m - 1 = n
  BY <1>1
<1> HIDE DEF n, m, q
<1>5. /\ \A k \in 1..(m - 1) : Conversation(d)[k] = Conversation(c)[k]
      /\ Conversation(d)[m] = Conversation(c)[m] \o q
  BY <1>1, <1>2, <1>3, <1>4, Zenon
<1>6. Flat(h \o q, Conversation(d))
  BY <1>1, <1>2, <1>3, <1>4, <1>5, Extended, Zenon
<1> QED BY <1>6, Zenon DEF q

\* A round joins the checkpoint: what was read since the last one is what was
\* read before it.
LEMMA RoundBegins ==
  ASSUME NEW h, NEW c \in Records, NEW d \in Records, NEW r \in RoundType,
         d.rounds = Append(c.rounds, r), r.steered_before = c.steered,
         Flat(h, Conversation(c))
  PROVE  Flat(h, Begun(d))
<1> DEFINE n == Len(c.rounds)
           m == n + 1
<1>1. /\ n \in Nat
      /\ Conversation(c) \in Seq(Seq(Items)) /\ Len(Conversation(c)) = m
      /\ \A k \in 1..n : Conversation(c)[k] = RoundItems(c.rounds[k])
      /\ Conversation(c)[m] = ReadItems(c.steered)
  BY ConversationParts, Zenon
<1>2. /\ d.rounds # <<>> /\ Len(d.rounds) = m /\ d.rounds[m] = r
      /\ \A k \in 1..n : d.rounds[k] = c.rounds[k]
  <2>1. c.rounds \in Seq(RoundType)
    BY RecordTypes, Zenon
  <2> QED BY <2>1
<1>3. /\ Begun(d) \in Seq(Seq(Items)) /\ Len(Begun(d)) = m
      /\ \A k \in 1..(m - 1) : Begun(d)[k] = RoundItems(d.rounds[k])
      /\ Begun(d)[m] = ReadItems(d.rounds[m].steered_before)
  BY <1>2, BegunParts, Zenon
<1>4. m - 1 = n /\ \A k \in 1..m : k \in 1..n \/ k = m
  BY <1>1
<1> HIDE DEF n, m
<1>5. \A k \in 1..m : Begun(d)[k] = Conversation(c)[k]
  BY <1>1, <1>2, <1>3, <1>4, Zenon
<1> QED BY <1>1, <1>3, <1>5, SameParts, Zenon

\* The calls of the current round are marked: nothing is told yet.
LEMMA RoundGoesOn ==
  ASSUME NEW h, NEW c \in Records, NEW d \in Records, c.rounds # <<>>, d.rounds # <<>>,
         NEW n, n = Len(c.rounds), n = Len(d.rounds),
         \A k \in DOMAIN c.rounds : k # n => d.rounds[k] = c.rounds[k],
         d.rounds[n].steered_before = c.rounds[n].steered_before,
         Flat(h, Begun(c))
  PROVE  Flat(h, Begun(d))
<1>1. /\ n \in Nat /\ n > 0
      /\ Begun(c) \in Seq(Seq(Items)) /\ Len(Begun(c)) = n
      /\ \A k \in 1..(n - 1) : Begun(c)[k] = RoundItems(c.rounds[k])
      /\ Begun(c)[n] = ReadItems(c.rounds[n].steered_before)
  BY BegunParts, Zenon
<1>2. /\ Begun(d) \in Seq(Seq(Items)) /\ Len(Begun(d)) = n
      /\ \A k \in 1..(n - 1) : Begun(d)[k] = RoundItems(d.rounds[k])
      /\ Begun(d)[n] = ReadItems(d.rounds[n].steered_before)
  BY BegunParts, Zenon
<1>3. DOMAIN c.rounds = 1..n
  BY ToldParts, Zenon
<1>4. /\ \A k \in 1..n : k \in 1..(n - 1) \/ k = n
      /\ \A k \in 1..(n - 1) : k \in 1..n /\ k # n
  BY <1>1
<1>5. \A k \in 1..n : Begun(d)[k] = Begun(c)[k]
  BY <1>1, <1>2, <1>3, <1>4, Zenon
<1> QED BY <1>1, <1>2, <1>5, SameParts, Zenon

\* run_calls returns: the results of the round enter the history.
LEMMA RoundTold ==
  ASSUME NEW h \in Seq(Items), NEW c \in Records, c.rounds # <<>>, c.steered = <<>>,
         NEW calls, calls = c.rounds[Len(c.rounds)].calls, Flat(h, Begun(c))
  PROVE  Flat(h \o [i \in DOMAIN calls |-> CallItem(calls[i])], Conversation(c))
<1> DEFINE n == Len(c.rounds)
           q == [i \in DOMAIN calls |-> CallItem(calls[i])]
           t == h \o q
<1>1. /\ n \in Nat /\ n > 0
      /\ Begun(c) \in Seq(Seq(Items)) /\ Len(Begun(c)) = n
      /\ \A k \in 1..(n - 1) : Begun(c)[k] = RoundItems(c.rounds[k])
      /\ Begun(c)[n] = ReadItems(c.rounds[n].steered_before)
  BY BegunParts, Zenon
<1>2. /\ Told(c) \in Seq(Seq(Items)) /\ Len(Told(c)) = n
      /\ \A k \in 1..n : Told(c)[k] = RoundItems(c.rounds[k])
  BY ToldParts, Zenon
<1>3. /\ Conversation(c) \in Seq(Seq(Items)) /\ Len(Conversation(c)) = n + 1
      /\ \A k \in 1..n : Conversation(c)[k] = RoundItems(c.rounds[k])
      /\ Conversation(c)[n + 1] = <<>>
  BY ConversationParts, ReadNone, Zenon
<1>4. n \in 1..n /\ \A k \in 1..(n - 1) : k \in 1..n
  BY <1>1
<1>5. c.rounds[n] \in RoundType
  BY RecordTypes, Elem, Zenon
<1>6. q \in Seq(Items)
  BY <1>5, RecordTypes, CallItemsType, Zenon
<1>7. Told(c)[n] = Begun(c)[n] \o q
  BY <1>1, <1>2, <1>4, Zenon DEF RoundItems
<1>8. t \in Seq(Items)
  BY <1>6, JoinType, Zenon
<1> HIDE DEF n, q
<1>9. \A k \in 1..(n - 1) : Told(c)[k] = Begun(c)[k]
  BY <1>1, <1>2, <1>4, Zenon
<1>10. Flat(t, Told(c))
  BY <1>1, <1>2, <1>6, <1>7, <1>9, Extended, Zenon
<1> HIDE DEF t
<1>11. \A k \in 1..n : Conversation(c)[k] = Told(c)[k]
  BY <1>2, <1>3, Zenon
<1>12. Flat(t, Conversation(c))
  BY <1>1, <1>2, <1>3, <1>8, <1>10, <1>11, Followed, Zenon
<1> QED BY <1>12, Zenon DEF t, q

LEMMA WithStateReads ==
  ASSUME ck \in Records, ck.rounds # <<>>, NEW S, NEW state \in CallStates,
         NEW new, new = WithState(S, state)
  PROVE  new.rounds[Len(ck.rounds)].steered_before = ck.rounds[Len(ck.rounds)].steered_before
<1> DEFINE n == Len(ck.rounds)
           calls == [i \in DOMAIN Current |->
                       IF i \in S THEN [Current[i] EXCEPT !.state = state] ELSE Current[i]]
           round == [ck.rounds[n] EXCEPT !.calls = calls]
<1>1. /\ ck.rounds \in Seq(RoundType) /\ n \in DOMAIN ck.rounds
      /\ ck.rounds[n] \in RoundType
  BY RecordTypes, Elem, Zenon
<1>2. new = [ck EXCEPT !.rounds = [ck.rounds EXCEPT ![n] = round]]
  BY Zenon DEF WithState, Current
<1> HIDE DEF calls
<1>3. round.steered_before = ck.rounds[n].steered_before
  BY <1>1, RecordTypes, ZenonT(30)
<1> HIDE DEF round
<1>4. new.rounds = [ck.rounds EXCEPT ![n] = round]
  BY <1>2, RecordTypes, ZenonT(30)
<1>5. new.rounds[n] = round
  BY <1>1, <1>4, Zenon
<1> QED BY <1>3, <1>5, Zenon

LEMMA StoryStep == Inv /\ Inv' /\ Story /\ [Next]_vars => Story'
<1> SUFFICES ASSUME Inv, Inv', Story, [Next]_vars PROVE Story'
  OBVIOUS
<1>1. /\ history \in Seq(Items) /\ inbox \in Seq(Messages)
      /\ ck \in Records /\ left \in Records /\ ck' \in Records
      /\ left.steered \in Seq(Messages) /\ left.rounds \in Seq(RoundType)
      /\ ck.rounds \in Seq(RoundType) /\ ck.steered \in Seq(Messages)
      /\ (replaying => ck.steered = <<>>) /\ (pc = "replay" => replaying)
      /\ (pc \in {"calls", "batch"} => ck.rounds # <<>>)
  BY RecordTypes, ZenonT(30) DEF Inv, Memory, Types, Control
<1>2. CASE Claim \/ ClaimUnreadable \/ ClaimReadError
  <2>1. pc' = "replay" /\ ck' = Empty /\ history' = <<>>
    BY <1>2, Zenon DEF Claim, ClaimUnreadable, ClaimReadError, Begin
  <2> QED BY <2>1, NothingTold, Zenon DEF Story
<1>3. CASE \/ Crash \/ PersistFails \/ CapReached \/ ModelErrors \/ ModelRejectedAgain
           \/ FinishAnswered \/ FinishFailed
  <2>1. pc' = "idle"
    BY <1>3, Zenon DEF Crash, PersistFails, CapReached, ModelErrors, ModelRejectedAgain,
                       FinishAnswered, FinishFailed, End
  <2> QED BY <2>1, Zenon DEF Story
<1>4. CASE Expire \/ Invoke \/ UNCHANGED vars \/ \E m \in Messages : Send(m)
  <2>1. UNCHANGED <<pc, ck, history>>
    BY <1>4, Zenon DEF Expire, Invoke, vars, loop, Send
  <2> QED BY <2>1, Zenon DEF Story
<1>5. CASE \E failure \in BOOLEAN : ModelRejected(failure) \/ ModelAnswers(failure)
  <2>1. /\ pc = "model" /\ pc' \in {"loop", "answered"} /\ UNCHANGED <<ck, history>>
    BY <1>5, Zenon DEF ModelRejected, ModelAnswers
  <2> QED BY <2>1, Zenon DEF Story
<1>6. CASE ReplayRound
  <2> DEFINE r == Resumed(Head(left.rounds))
             messages == Head(left.rounds).steered_before
             c == [ck EXCEPT !.steered = messages]
  <2>1. /\ pc = "replay" /\ left.rounds # <<>> /\ pc' = "calls"
        /\ ck' = [rounds |-> Append(ck.rounds, r), steered |-> ck.steered]
        /\ history' = history \o ReadItems(messages)
    BY <1>6, Zenon DEF ReplayRound, RunCalls
  <2>2. Head(left.rounds) \in RoundType
    BY <1>1, <2>1, TailRounds, Zenon
  <2>3. messages \in Seq(Messages)
    BY <2>2, RecordTypes, Zenon
  <2>4. r \in RoundType /\ r.steered_before = messages
    BY <2>2, ResumedRound, Zenon
  <2>5. c \in Records /\ c.rounds = ck.rounds /\ c.steered = messages
    BY <1>1, <2>3, SteeredRecord, Zenon
  <2>6. ck.steered = <<>> /\ Flat(history, Conversation(ck))
    BY <1>1, <2>1, Zenon DEF Story
  <2>7. ck'.rounds = Append(ck.rounds, r) /\ ck'.steered = <<>>
    BY <2>1, <2>6, Zenon
  <2> HIDE DEF r, messages, c
  <2>8. <<>> \o messages = messages
    BY <2>3
  <2>9. Flat(history', Conversation(c))
    BY <1>1, <2>1, <2>3, <2>5, <2>6, <2>8, MessagesTold, Zenon
  <2>10. Flat(history', Begun(ck'))
    BY <1>1, <2>4, <2>5, <2>7, <2>9, RoundBegins, Zenon
  <2> QED BY <2>1, <2>7, <2>10, Zenon DEF Story, Begun
<1>7. CASE FinishReplay
  <2>1. /\ pc = "replay" /\ pc' = "loop"
        /\ ck' = [ck EXCEPT !.steered = left.steered]
        /\ history' = history \o ReadItems(left.steered)
    BY <1>7, Zenon DEF FinishReplay
  <2>2. ck'.rounds = ck.rounds /\ ck'.steered = left.steered
    BY <1>1, <2>1, SteeredRecord, Zenon
  <2>3. ck.steered = <<>> /\ Flat(history, Conversation(ck))
    BY <1>1, <2>1, Zenon DEF Story
  <2>4. <<>> \o left.steered = left.steered
    BY <1>1
  <2>5. Flat(history', Conversation(ck'))
    BY <1>1, <2>1, <2>2, <2>3, <2>4, MessagesTold, Zenon
  <2> QED BY <2>1, <2>5, Zenon DEF Story, Conversation
<1>8. CASE CallModel \/ \E failure \in BOOLEAN : ModelInterim(failure)
  <2>1. /\ pc \in {"loop", "model"} /\ pc' \in {"loop", "model"}
        /\ ck' = [ck EXCEPT !.steered = @ \o inbox]
        /\ history' = history \o ReadItems(inbox)
    BY <1>8, ZenonT(30) DEF CallModel, ModelInterim, Steer
  <2>2. ck.steered \o inbox \in Seq(Messages)
    BY <1>1, JoinType, Zenon
  <2>3. ck'.rounds = ck.rounds /\ ck'.steered = ck.steered \o inbox
    BY <1>1, <2>1, <2>2, SteeredRecord, Zenon
  <2>4. Flat(history, Conversation(ck))
    BY <2>1, Zenon DEF Story
  <2>5. Flat(history', Conversation(ck'))
    BY <1>1, <2>1, <2>3, <2>4, MessagesTold, Zenon
  <2> QED BY <2>1, <2>5, Zenon DEF Story, Conversation
<1>9. ASSUME NEW calls \in Requests, ModelAsks(calls) PROVE Story'
  <2> DEFINE round == [steered_before |-> ck.steered,
                       calls |-> [i \in DOMAIN calls |->
                                    [id |-> calls[i], state |-> "planned"]]]
             r == Resumed(round)
  <2>1. /\ pc = "model" /\ pc' = "calls" /\ history' = history
        /\ ck' = [rounds |-> Append(ck.rounds, r), steered |-> <<>>]
    BY <1>9, Zenon DEF ModelAsks, RunCalls
  <2>2. r.steered_before = ck.steered
    BY Zenon DEF Resumed
  <2> HIDE DEF r
  <2>3. ck'.rounds = Append(ck.rounds, r) /\ ck'.steered = <<>>
    BY <2>1, Zenon
  <2>4. r \in RoundType
    <3>1. ck'.rounds \in Seq(RoundType)
      BY <1>1, RecordTypes, Zenon
    <3> QED BY <1>1, <2>3, <3>1
  <2>5. Flat(history, Conversation(ck))
    BY <2>1, Zenon DEF Story
  <2>6. Flat(history', Begun(ck'))
    BY <1>1, <2>1, <2>2, <2>3, <2>4, <2>5, RoundBegins, Zenon
  <2> QED BY <2>1, <2>3, <2>6, Zenon DEF Story, Begun
<1>10. CASE StartBatch \/ \E i \in running : Settle(i)
  <2>1. /\ pc \in {"calls", "batch"} /\ pc' \in {"calls", "batch"} /\ history' = history
        /\ \E S : \E state \in CallStates : ck' = WithState(S, state)
    BY <1>10, ZenonT(30) DEF StartBatch, Settle, CallStates
  <2>2. PICK S, state : state \in CallStates /\ ck' = WithState(S, state)
    BY <2>1, Zenon
  <2>3. /\ ck'.steered = ck.steered /\ Len(ck'.rounds) = Len(ck.rounds)
        /\ \A k \in DOMAIN ck.rounds : k # Len(ck.rounds) => ck'.rounds[k] = ck.rounds[k]
        /\ DOMAIN ck'.rounds = DOMAIN ck.rounds /\ Len(ck.rounds) \in DOMAIN ck.rounds
    BY <1>1, <2>1, <2>2, WithStateRecord, Zenon
  <2>4. ck'.rounds[Len(ck.rounds)].steered_before = ck.rounds[Len(ck.rounds)].steered_before
    BY <1>1, <2>1, <2>2, WithStateReads, Zenon
  <2>5. ck'.rounds # <<>>
    BY <2>3
  <2>6. Flat(history, Begun(ck)) /\ ck.steered = <<>>
    BY <2>1, Zenon DEF Story
  <2>7. Flat(history', Begun(ck'))
    BY <1>1, <2>1, <2>3, <2>4, <2>5, <2>6, RoundGoesOn, Zenon
  <2> QED BY <2>1, <2>3, <2>6, <2>7, Zenon DEF Story, Begun
<1>11. CASE EndCalls
  <2>1. /\ pc = "calls" /\ pc' \in {"replay", "loop"} /\ ck' = ck
        /\ history' = history \o [i \in DOMAIN Current |-> CallItem(Current[i])]
    BY <1>11, Zenon DEF EndCalls
  <2>2. Flat(history, Begun(ck)) /\ ck.steered = <<>>
    BY <2>1, Zenon DEF Story
  <2>3. Flat(history', Conversation(ck))
    BY <1>1, <2>1, <2>2, RoundTold, Zenon DEF Current
  <2> QED BY <2>1, <2>3, Zenon DEF Story
<1> QED
  <2> HIDE DEF Inv, Story
  <2> QED BY <1>2, <1>3, <1>4, <1>5, <1>6, <1>7, <1>8, <1>9, <1>10, <1>11, ZenonT(30)
          DEF Next, Step

\* The prompt of every model call is the checkpoint's conversation, in a
\* resumed attempt as in the first (resume_turn).
THEOREM AlwaysHistoryIsCheckpoint == Spec => []HistoryIsCheckpoint
<1>1. Init => Story
  BY Zenon DEF Init, Story
<1>2. Story => HistoryIsCheckpoint
  BY Zenon DEF Story, Flat, HistoryIsCheckpoint
<1> QED BY <1>1, <1>2, Invariant, StoryStep, PTL DEF Spec
=============================================================================
