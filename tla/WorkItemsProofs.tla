-------------------------- MODULE WorkItemsProofs ---------------------------
(***************************************************************************)
(* Theorems about work items for any items, messages, stops and faults and *)
(* every setting of the caps.  The inductive invariant says what the rows  *)
(* of an item have to do with each other and with the thread that runs its *)
(* round; who owns a conversation, that no wake is lost and the cap on     *)
(* open items follow with an invariant each.                               *)
(***************************************************************************)
EXTENDS WorkItems, TLAPS

-----------------------------------------------------------------------------
(* The invariant *)

RoundStates == {"running", "settled", "failed"}
InputType == [person : BOOLEAN, state : {"pending", "steered", "consumed"}, round : Nat]

RunningIn(rs) == rs # << >> /\ rs[Len(rs)] = "running"
Reads(input, k) == input.state = "consumed" /\ input.round = k

\* The rows of one item: only the last round can be running, every round but
\* the first reads an input of its own, and a running one has what its item
\* was held for.
RowOK(st, reason, report, asks, rs, ins) ==
  /\ st = "absent" => /\ rs = << >> /\ ins = << >>
                      /\ reason = "none" /\ report = "none" /\ asks = FALSE
  /\ st = "ended" <=> reason # "none"
  /\ \A k \in DOMAIN rs : rs[k] = "running" => k = Len(rs)
  /\ reason \in {"completed", "dropped", "revoked"} => ~RunningIn(rs)
  /\ \A k \in 2..Len(rs) : \E n \in DOMAIN ins : Reads(ins[n], k)
  /\ RunningIn(rs) =>
       /\ asks = FALSE
       /\ report \in {"blocked", "failed"} =>
            \E n \in DOMAIN ins : ins[n].person /\ Reads(ins[n], Len(rs))
ItemOK(i) ==
  RowOK(state[i], end_reason[i], last_report[i], attention[i], rounds[i], inputs[i])

\* A thread at an item, and one that has the item's running round.
Holding == {"admit_first", "turn", "settle", "settle_refused"}
AtItem == Holding \cup {"summary", "reopen", "revoke", "add", "due", "admit", "start"}
DriverOK(d) ==
  /\ pc[d] \in AtItem => /\ at[d] \in Items /\ state[at[d]] # "absent"
                         /\ d \in Items => at[d] = d
  /\ pc[d] \in Holding => RunningIn(rounds[at[d]]) /\ seq[d] = Len(rounds[at[d]])
  /\ pc[d] = "admit_first" => seq[d] = 1
  /\ turn[d] # "none" => pc[d] = "turn"

StopOK(s) ==
  stop[s].pc \in {"end", "cancel"} => stop[s].item \in Items /\ state[stop[s].item] # "absent"

Apart ==
  \A d, e \in Drivers : pc[d] \in Holding /\ pc[e] \in Holding /\ at[d] = at[e] => d = e

Inv ==
  /\ TypeOK
  /\ \A i \in Items : ItemOK(i)
  /\ \A d \in Drivers : DriverOK(d)
  /\ \A s \in Stops : StopOK(s)
  /\ Apart

\* Who owns a conversation, and that the connector loop routes by an owner that
\* nobody else replaces meanwhile.
Routing == {"lookup", "summary", "reopen", "revoke", "add", "ordinary"}
Owners ==
  /\ \A i \in Items : sub[i].drop = "live" => sub[i].source \in Sources
  /\ \A i, j \in Items :
       sub[i].drop = "live" /\ sub[j].drop = "live" /\ sub[i].source = sub[j].source => i = j
  /\ \A i \in Items : state[i] = "open" => sub[i].drop \in {"none", "live", "idle"}
  /\ pc[Loop] \in Routing => message.source \in Sources
  /\ pc[Loop] \in {"summary", "reopen"} =>
       sub[at[Loop]].drop = "live" \/ end_reason[at[Loop]] \in {"stopped", "revoked"}

-----------------------------------------------------------------------------
(* The rows of an item *)

LEMMA Elem ==
  ASSUME NEW S, NEW s \in Seq(S)
  PROVE  /\ \A i \in DOMAIN s : s[i] \in S /\ i \in Nat /\ 1 <= i /\ i <= Len(s)
         /\ s # << >> => Len(s) \in DOMAIN s
         /\ Len(s) \in Nat /\ DOMAIN s = 1..Len(s)
OBVIOUS

LEMMA SameLength ==
  ASSUME NEW T, NEW n \in Nat, NEW f \in [1..n -> T]
  PROVE  f \in Seq(T) /\ Len(f) = n
OBVIOUS

LEMMA Appended ==
  ASSUME NEW S, NEW s \in Seq(S), NEW x \in S, NEW t, t = Append(s, x)
  PROVE  /\ t \in Seq(S) /\ t # << >> /\ Len(t) = Len(s) + 1 /\ t[Len(t)] = x
         /\ DOMAIN t = DOMAIN s \cup {Len(t)} /\ \A k \in DOMAIN s : t[k] = s[k] /\ k # Len(t)
OBVIOUS

LEMMA NewRow == RowOK("open", "none", "none", FALSE, <<"running">>, << >>)
<1>1. Len(<<"running">>) = 1 /\ DOMAIN <<"running">> = {1} /\ 2..1 = {}
  OBVIOUS
<1> QED BY <1>1 DEF RowOK

\* add_input appends a row.
LEMMA InputRow ==
  ASSUME NEW st, NEW reason, NEW report, NEW asks, NEW rs, NEW ins \in Seq(InputType),
         NEW row \in InputType, NEW more, more = Append(ins, row),
         RowOK(st, reason, report, asks, rs, ins), st # "absent"
  PROVE  more \in Seq(InputType) /\ RowOK(st, reason, report, asks, rs, more)
<1>1. more \in Seq(InputType) /\ \A n \in DOMAIN ins : n \in DOMAIN more /\ more[n] = ins[n]
  <2> HIDE DEF InputType
  <2> QED BY Appended
<1> QED BY <1>1, Zenon DEF RowOK

\* start_work_item_round: every pending input becomes the new round's.
LEMMA ReadInput ==
  ASSUME NEW x \in InputType, NEW k \in Nat
  PROVE  LET y == [x EXCEPT !.state = "consumed", !.round = k]
         IN  y \in InputType /\ y.person = x.person /\ Reads(y, k)
BY Zenon DEF InputType, Reads

ReadFor(ins, P, k, read) ==
  /\ DOMAIN read = DOMAIN ins
  /\ \A n \in DOMAIN ins : /\ read[n].person = ins[n].person
                           /\ n \in P => Reads(read[n], k)
                           /\ n \notin P => read[n] = ins[n]
ReadFrom(ins, P, k) ==
  [n \in DOMAIN ins |-> IF n \in P THEN [ins[n] EXCEPT !.state = "consumed", !.round = k] ELSE ins[n]]

LEMMA ReadInputs ==
  ASSUME NEW ins \in Seq(InputType), NEW P, NEW k \in Nat
  PROVE  ReadFrom(ins, P, k) \in Seq(InputType) /\ ReadFor(ins, P, k, ReadFrom(ins, P, k))
<1> DEFINE read == ReadFrom(ins, P, k)
<1>1. \A n \in DOMAIN ins : ins[n] \in InputType
  BY Elem, Zenon
<1>2. \A n \in DOMAIN ins : /\ read[n] \in InputType /\ read[n].person = ins[n].person
                            /\ n \in P => Reads(read[n], k)
                            /\ n \notin P => read[n] = ins[n]
  BY <1>1, ReadInput, Zenon DEF ReadFrom
<1>3. DOMAIN read = DOMAIN ins /\ read \in [DOMAIN ins -> InputType]
  BY <1>2, Zenon DEF ReadFrom
<1> HIDE DEF read
<1>4. read \in Seq(InputType)
  <2> HIDE DEF InputType
  <2>1. DOMAIN ins = 1..Len(ins) /\ Len(ins) \in Nat
    BY Elem, Zenon
  <2>2. read \in [1..Len(ins) -> InputType]
    BY <1>3, <2>1, Zenon
  <2> QED BY <2>1, <2>2, SameLength, Zenon
<1> QED BY <1>2, <1>3, <1>4, Zenon DEF ReadFor, read

LEMMA Numbers ==
  ASSUME NEW n \in Nat
  PROVE  n + 1 \in Nat /\ \A l \in 2..(n + 1) : l \in 2..n \/ l = n + 1
OBVIOUS

Grown(rs, more, k) ==
  /\ more # << >> /\ Len(more) = k /\ more[k] = "running"
  /\ DOMAIN more = DOMAIN rs \cup {k} /\ \A l \in DOMAIN rs : more[l] = rs[l]
Wait(ins, P, report, asks) ==
  /\ P # {} /\ P \subseteq DOMAIN ins /\ \A m \in P : ins[m].state # "consumed"
  /\ asks \/ report \in {"blocked", "failed"} => \E m \in P : ins[m].person

LEMMA GrownRounds ==
  ASSUME NEW rs \in Seq(RoundStates)
  PROVE  /\ Append(rs, "running") \in Seq(RoundStates)
         /\ Grown(rs, Append(rs, "running"), Len(rs) + 1)
BY DEF RoundStates, Grown

LEMMA StartedRow ==
  ASSUME NEW reason, NEW report, NEW asks, NEW rs, NEW ins, Len(rs) \in Nat,
         RowOK("open", reason, report, asks, rs, ins),
         \A k \in DOMAIN rs : rs[k] # "running",
         NEW P, Wait(ins, P, report, asks),
         NEW more, Grown(rs, more, Len(rs) + 1),
         NEW read, ReadFor(ins, P, Len(rs) + 1, read)
  PROVE  RowOK("open", reason, report, FALSE, more, read)
<1> DEFINE k == Len(rs) + 1
<1>1. k \in Nat /\ \A l \in 2..k : l \in 2..Len(rs) \/ l = k
  BY Numbers, Zenon
<1>2. /\ P # {} /\ P \subseteq DOMAIN ins /\ \A m \in P : ins[m].state # "consumed"
      /\ report \in {"blocked", "failed"} => \E m \in P : ins[m].person
  BY Zenon DEF Wait
<1>3. /\ more # << >> /\ Len(more) = k /\ more[k] = "running"
      /\ DOMAIN more = DOMAIN rs \cup {k} /\ \A l \in DOMAIN rs : more[l] = rs[l]
  BY Zenon DEF Grown
<1>4. /\ DOMAIN read = DOMAIN ins
      /\ \A m \in DOMAIN ins : /\ read[m].person = ins[m].person
                               /\ m \in P => Reads(read[m], k)
                               /\ m \notin P => read[m] = ins[m]
  BY Zenon DEF ReadFor
<1> HIDE DEF k
<1>5. ASSUME NEW l \in 2..k PROVE \E m \in DOMAIN read : Reads(read[m], l)
  <2>1. CASE l \in 2..Len(rs)
    <3>1. PICK m \in DOMAIN ins : Reads(ins[m], l)
      BY <2>1, Zenon DEF RowOK
    <3>2. m \notin P
      BY <1>2, <3>1, Zenon DEF Reads
    <3> QED BY <1>4, <3>1, <3>2, Zenon
  <2>2. CASE l = k
    BY <1>2, <1>4, <2>2, Zenon
  <2> QED BY <1>1, <1>5, <2>1, <2>2, Zenon
<1>6. report \in {"blocked", "failed"} => \E m \in DOMAIN read : read[m].person /\ Reads(read[m], k)
  BY <1>2, <1>4, Zenon
<1>7. \A l \in DOMAIN more : more[l] = "running" => l = k
  BY <1>3, Zenon
<1>8. reason = "none" /\ Len(more) = k
  BY <1>3, Zenon DEF RowOK
<1>9. "open" # "absent" /\ "open" # "ended"
  BY Zenon
<1> QED BY <1>5, <1>6, <1>7, <1>8, <1>9, Zenon DEF RowOK

\* settle_work_item_round: the last round is over.
LEMMA OverRounds ==
  ASSUME NEW rs \in Seq(RoundStates), rs # << >>, \A k \in DOMAIN rs : rs[k] = "running" => k = Len(rs),
         NEW v \in RoundStates, v # "running", NEW over, over = [rs EXCEPT ![Len(rs)] = v]
  PROVE  /\ over \in Seq(RoundStates) /\ Len(over) = Len(rs)
         /\ ~RunningIn(over) /\ \A k \in DOMAIN over : over[k] # "running"
<1>1. /\ over \in Seq(RoundStates) /\ Len(over) = Len(rs) /\ DOMAIN over = DOMAIN rs
      /\ over[Len(rs)] = v /\ \A k \in DOMAIN rs : k # Len(rs) => over[k] = rs[k]
  BY DEF RoundStates
<1> QED BY <1>1 DEF RunningIn

LEMMA SettledRow ==
  ASSUME NEW st, NEW reason, NEW report, NEW asks, NEW rs, NEW ins,
         RowOK(st, reason, report, asks, rs, ins),
         NEW over, Len(over) = Len(rs), ~RunningIn(over), \A k \in DOMAIN over : over[k] # "running"
  PROVE  \A st2, reason2, report2, asks2 :
           st2 # "absent" /\ (st2 = "ended" <=> reason2 # "none") =>
             RowOK(st2, reason2, report2, asks2, over, ins)
BY Zenon DEF RowOK

\* end_work_item_finally, and reopen.
LEMMA EndedRow ==
  ASSUME NEW st, NEW reason, NEW report, NEW asks, NEW rs, NEW ins,
         RowOK(st, reason, report, asks, rs, ins), st # "absent",
         NEW reason2 \in {"stopped", "revoked"}, reason2 = "revoked" => ~RunningIn(rs)
  PROVE  RowOK("ended", reason2, report, asks, rs, ins)
BY DEF RowOK

LEMMA ReopenedRow ==
  ASSUME NEW st, NEW reason, NEW report, NEW asks, NEW rs, NEW ins,
         RowOK(st, reason, report, asks, rs, ins), st # "absent"
  PROVE  RowOK("open", "none", report, asks, rs, ins)
BY DEF RowOK

-----------------------------------------------------------------------------
(* What a step changes *)

SubType == [source : Sources \cup {Nobody},
            drop : {"none", "live", "idle", "superseded", "stopped", "revoked"}]
PcType == {"idle", "lookup", "summary", "reopen", "revoke", "add", "ordinary",
           "admit_first", "settle_refused", "due", "admit", "start", "turn", "settle", "done"}
TurnType == {"none", "starting", "open", "closed"}
OutcomeType == [report : Reports \cup {"none", "error"}, asks : BOOLEAN]
MessageType == [source : Sources \cup {Nobody}, author : Authors \cup {Nobody}]
StopType == [pc : {"idle", "end", "cancel", "done"}, item : Items \cup {Nobody},
             running : BOOLEAN, seq : Nat]
Reasons == {"none", "completed", "dropped", "stopped", "revoked"}

RowTypes ==
  /\ state \in [Items -> {"absent", "open", "ended"}]
  /\ end_reason \in [Items -> Reasons]
  /\ sender \in [Items -> Authors \cup {Nobody}]
  /\ last_report \in [Items -> Reports \cup {"none"}]
  /\ attention \in [Items -> BOOLEAN]
  /\ rounds \in [Items -> Seq(RoundStates)]
  /\ MaxRoundsPerHour > 0 => \A i \in Items : Len(rounds[i]) <= MaxRoundsPerHour
  /\ inputs \in [Items -> Seq(InputType)]
  /\ sub \in [Items -> SubType]
ThreadTypes ==
  /\ pc \in [Drivers -> PcType]
  /\ at \in [Drivers -> Items \cup {Nobody}]
  /\ seq \in [Drivers -> Nat]
  /\ turn \in [Drivers -> TurnType]
  /\ outcome \in [Drivers -> OutcomeType]
  /\ left \in [Items -> {"no", "held_back", "refused"}]
OtherTypes ==
  /\ message \in MessageType
  /\ stop \in [Stops -> StopType]
  /\ asked \subseteq Items \X Nat
  /\ taken \in 0..MaxMessages /\ faults \in 0..MaxFaults

LEMMA TypesApart == TypeOK <=> RowTypes /\ ThreadTypes /\ OtherTypes
BY Zenon DEF TypeOK, RowTypes, ThreadTypes, OtherTypes, SubType, PcType, TurnType, OutcomeType,
             MessageType, StopType, Reasons, RoundStates, InputType

SameRow(i) ==
  /\ state'[i] = state[i] /\ end_reason'[i] = end_reason[i]
  /\ last_report'[i] = last_report[i] /\ attention'[i] = attention[i]
  /\ rounds'[i] = rounds[i] /\ inputs'[i] = inputs[i]
SameThread(d) == pc'[d] = pc[d] /\ at'[d] = at[d] /\ seq'[d] = seq[d] /\ turn'[d] = turn[d]

LEMMA StepKeeps ==
  ASSUME Inv, RowTypes', ThreadTypes', OtherTypes', Apart',
         \A i \in Items : SameRow(i) \/ (ItemOK(i)' /\ state'[i] # "absent"),
         \A d \in Drivers : DriverOK(d)' \/
           (SameThread(d) /\ (pc[d] \in Holding => rounds'[at[d]] = rounds[at[d]])),
         \A s \in Stops : StopOK(s)' \/ stop'[s] = stop[s]
  PROVE  Inv'
<1>1. TypeOK'
  BY TypesApart, PTL
<1>2. ASSUME NEW i \in Items PROVE ItemOK(i)'
  BY <1>2, Zenon DEF Inv, ItemOK, SameRow
<1>3. ASSUME NEW i \in Items, state[i] # "absent" PROVE state'[i] # "absent"
  BY <1>3, Zenon DEF SameRow
<1>4. ASSUME NEW d \in Drivers PROVE DriverOK(d)'
  <2>1. DriverOK(d) /\ (pc[d] \in Holding => pc[d] \in AtItem)
    BY Zenon DEF Inv, AtItem
  <2> QED BY <1>3, <1>4, <2>1, Zenon DEF DriverOK, SameThread
<1>5. ASSUME NEW s \in Stops PROVE StopOK(s)'
  BY <1>3, <1>5, Zenon DEF Inv, StopOK
<1> QED BY <1>1, <1>2, <1>4, <1>5, Zenon DEF Inv

\* Nobody new holds a round, or one thread does whose item nobody held.
LEMMA ApartKept ==
  ASSUME Apart, \A d \in Drivers : pc'[d] \in Holding => pc[d] \in Holding /\ at'[d] = at[d]
  PROVE  Apart'
BY Zenon DEF Apart

LEMMA ApartNew ==
  ASSUME Apart, NEW d \in Drivers, \A e \in Drivers : e # d => pc'[e] = pc[e] /\ at'[e] = at[e],
         \A e \in Drivers : pc[e] \in Holding => at[e] # at'[d]
  PROVE  Apart'
BY Zenon DEF Apart

LEMMA Put ==
  ASSUME NEW D, NEW R, NEW f \in [D -> R], NEW x \in D, NEW v \in R,
         NEW g, g = [f EXCEPT ![x] = v]
  PROVE  g \in [D -> R] /\ g[x] = v /\ \A y \in D : y # x => g[y] = f[y]
BY Zenon

LEMMA MoveFacts ==
  ASSUME ThreadTypes, NEW d \in Drivers, NEW to \in PcType, pc' = [pc EXCEPT ![d] = to]
  PROVE  /\ pc' \in [Drivers -> PcType] /\ pc'[d] = to
         /\ \A e \in Drivers : e # d => pc'[e] = pc[e]
BY Put, Zenon DEF ThreadTypes

LEMMA BeginFacts ==
  ASSUME ThreadTypes, NEW d \in Drivers, NEW i \in Items, NEW k \in Nat, Begin(d, i, k)
  PROVE  /\ pc' \in [Drivers -> PcType] /\ at' \in [Drivers -> Items \cup {Nobody}]
         /\ seq' \in [Drivers -> Nat] /\ turn' \in [Drivers -> TurnType]
         /\ pc'[d] = "turn" /\ at'[d] = i /\ seq'[d] = k /\ turn'[d] = "starting"
         /\ \A e \in Drivers : e # d => SameThread(e)
<1>1. "turn" \in PcType /\ "starting" \in TurnType /\ i \in Items \cup {Nobody}
  BY Zenon DEF PcType, TurnType
<1>2. pc' \in [Drivers -> PcType] /\ pc'[d] = "turn" /\ \A e \in Drivers : e # d => pc'[e] = pc[e]
  BY <1>1, Put, Zenon DEF Begin, ThreadTypes
<1>3. /\ at' \in [Drivers -> Items \cup {Nobody}] /\ at'[d] = i
      /\ \A e \in Drivers : e # d => at'[e] = at[e]
  BY <1>1, Put, Zenon DEF Begin, ThreadTypes
<1>4. seq' \in [Drivers -> Nat] /\ seq'[d] = k /\ \A e \in Drivers : e # d => seq'[e] = seq[e]
  BY Put, Zenon DEF Begin, ThreadTypes
<1>5. /\ turn' \in [Drivers -> TurnType] /\ turn'[d] = "starting"
      /\ \A e \in Drivers : e # d => turn'[e] = turn[e]
  BY <1>1, Put, Zenon DEF Begin, ThreadTypes
<1> QED BY <1>2, <1>3, <1>4, <1>5, Zenon DEF SameThread

LEMMA FinishFacts ==
  ASSUME ThreadTypes, NEW d \in Drivers, Finish(d), turn' = turn, turn[d] = "none"
  PROVE  /\ pc' \in [Drivers -> PcType] /\ at' \in [Drivers -> Items \cup {Nobody}]
         /\ seq' \in [Drivers -> Nat]
         /\ pc'[d] \notin AtItem /\ DriverOK(d)'
         /\ \A e \in Drivers : e # d => SameThread(e)
<1>1. /\ Rest(d) \in PcType /\ Rest(d) \notin AtItem /\ Rest(d) \notin Holding
      /\ Rest(d) # "admit_first" /\ 0 \in Nat /\ Nobody \in Items \cup {Nobody}
  BY DEF Rest, PcType, AtItem, Holding
<1>2. pc' \in [Drivers -> PcType] /\ pc'[d] = Rest(d) /\ \A e \in Drivers : e # d => pc'[e] = pc[e]
  BY <1>1, Put, Zenon DEF Finish, ThreadTypes
<1>3. /\ at' \in [Drivers -> Items \cup {Nobody}] /\ \A e \in Drivers : e # d => at'[e] = at[e]
  BY <1>1, Put, Zenon DEF Finish, ThreadTypes
<1>4. seq' \in [Drivers -> Nat] /\ \A e \in Drivers : e # d => seq'[e] = seq[e]
  BY <1>1, Put, Zenon DEF Finish, ThreadTypes
<1> QED BY <1>1, <1>2, <1>3, <1>4, Zenon DEF SameThread, DriverOK

-----------------------------------------------------------------------------
(* Steps of a thread that leave the rows alone *)

Rows == <<state, end_reason, last_report, attention, rounds, inputs>>

LEMMA InvFacts ==
  ASSUME Inv
  PROVE  /\ RowTypes /\ ThreadTypes /\ OtherTypes /\ Apart
         /\ \A i \in Items : ItemOK(i)
         /\ \A d \in Drivers : DriverOK(d)
BY TypesApart, Zenon DEF Inv

LEMMA ThreadStep ==
  ASSUME Inv, NEW d \in Drivers, UNCHANGED Rows, RowTypes', ThreadTypes', OtherTypes', stop' = stop,
         \A e \in Drivers : e # d => SameThread(e), DriverOK(d)',
         pc'[d] \in Holding => pc[d] \in Holding /\ at'[d] = at[d]
  PROVE  Inv'
<1>1. \A i \in Items : SameRow(i)
  BY Zenon DEF Rows, SameRow
<1>2. Apart'
  BY InvFacts, ApartKept, Zenon DEF SameThread
<1>3. rounds' = rounds
  BY Zenon DEF Rows
<1> HIDE DEF Inv
<1> QED BY <1>1, <1>2, <1>3, StepKeeps, Zenon

\* A thread moves on at its item, or to where it is at none.
LEMMA MoveStep ==
  ASSUME Inv, NEW d \in Drivers, NEW to \in PcType, pc' = [pc EXCEPT ![d] = to],
         UNCHANGED Rows, RowTypes', OtherTypes', stop' = stop,
         UNCHANGED <<at, seq>>, turn' \in [Drivers -> TurnType],
         \A e \in Drivers : e # d => turn'[e] = turn[e], turn'[d] # "none" => to = "turn",
         outcome' \in [Drivers -> OutcomeType], left' \in [Items -> {"no", "held_back", "refused"}],
         to \in AtItem => pc[d] \in AtItem, to \in Holding => pc[d] \in Holding, to # "admit_first"
  PROVE  Inv'
<1>1. ThreadTypes /\ DriverOK(d)
  BY InvFacts, Zenon
<1>2. pc' \in [Drivers -> PcType] /\ pc'[d] = to /\ \A e \in Drivers : e # d => pc'[e] = pc[e]
  BY <1>1, MoveFacts, Zenon
<1>3. ThreadTypes'
  BY <1>1, <1>2, Zenon DEF ThreadTypes
<1>4. DriverOK(d)'
  BY <1>1, <1>2, Zenon DEF DriverOK, Rows
<1>5. \A e \in Drivers : e # d => SameThread(e)
  BY <1>2, Zenon DEF SameThread
<1> HIDE DEF Inv
<1> QED BY <1>2, <1>3, <1>4, <1>5, ThreadStep, Zenon

LEMMA FinishStep ==
  ASSUME Inv, NEW d \in Drivers, Finish(d), turn' = turn, pc[d] # "turn",
         UNCHANGED Rows, RowTypes', OtherTypes', stop' = stop,
         outcome' \in [Drivers -> OutcomeType], left' \in [Items -> {"no", "held_back", "refused"}]
  PROVE  Inv'
<1>1. ThreadTypes /\ DriverOK(d)
  BY InvFacts, Zenon
<1>2. turn[d] = "none"
  BY <1>1, Zenon DEF DriverOK
<1>3. /\ pc' \in [Drivers -> PcType] /\ at' \in [Drivers -> Items \cup {Nobody}]
      /\ seq' \in [Drivers -> Nat]
      /\ pc'[d] \notin AtItem /\ DriverOK(d)'
      /\ \A e \in Drivers : e # d => SameThread(e)
  BY <1>1, <1>2, FinishFacts, Zenon
<1>4. ThreadTypes'
  BY <1>1, <1>3, Zenon DEF ThreadTypes
<1>5. pc'[d] \notin Holding
  BY <1>3, Zenon DEF AtItem
<1> HIDE DEF Inv, Finish
<1> QED BY <1>3, <1>4, <1>5, ThreadStep, Zenon

LEMMA ErrorOutcome ==
  ASSUME NEW o \in [Drivers -> OutcomeType], NEW d \in Drivers,
         NEW p, p = [o EXCEPT ![d].report = "error"]
  PROVE  p \in [Drivers -> OutcomeType]
<1>1. [o[d] EXCEPT !.report = "error"] \in OutcomeType
  <2>1. o[d] \in OutcomeType
    OBVIOUS
  <2> QED BY <2>1 DEF OutcomeType
<1> QED BY <1>1, Put, Zenon

LEMMA FirstRoundStep == ASSUME Inv, NEW i \in Items, FirstRound(i) PROVE Inv'
<1>1. i \in Drivers /\ RowTypes /\ ThreadTypes /\ OtherTypes /\ DriverOK(i)
  BY InvFacts, Zenon DEF Drivers
<1>2. CASE FirstAdmitted(i)
  <2>1. /\ pc[i] = "admit_first" /\ Begin(i, i, 1)
        /\ UNCHANGED <<rows, outcome, left, message, stop, asked, taken, faults>>
    BY <1>2, Zenon DEF FirstAdmitted
  <2>2. 1 \in Nat /\ pc[i] \in Holding /\ pc[i] \in AtItem
    BY <2>1 DEF Holding, AtItem
  <2>3. /\ pc' \in [Drivers -> PcType] /\ at' \in [Drivers -> Items \cup {Nobody}]
        /\ seq' \in [Drivers -> Nat] /\ turn' \in [Drivers -> TurnType]
        /\ pc'[i] = "turn" /\ at'[i] = i /\ seq'[i] = 1 /\ turn'[i] = "starting"
        /\ \A e \in Drivers : e # i => SameThread(e)
    BY <1>1, <2>1, <2>2, BeginFacts, Zenon
  <2>4. RowTypes' /\ ThreadTypes' /\ OtherTypes' /\ UNCHANGED Rows
    BY <1>1, <2>1, <2>3, Zenon DEF RowTypes, ThreadTypes, OtherTypes, Rows, rows
  <2>5. DriverOK(i)' /\ at'[i] = at[i]
    <3>1. "turn" # "admit_first" /\ "turn" \in Holding /\ "turn" \in AtItem
      BY DEF Holding, AtItem
    <3> QED BY <1>1, <2>1, <2>2, <2>3, <2>4, <3>1, Zenon DEF DriverOK, Rows
  <2> HIDE DEF Inv
  <2> QED BY <1>1, <2>1, <2>2, <2>3, <2>4, <2>5, ThreadStep, Zenon
<1>3. CASE FirstRefused(i)
  <2>1. /\ pc[i] = "admit_first" /\ pc' = [pc EXCEPT ![i] = "settle_refused"]
        /\ outcome' = [outcome EXCEPT ![i].report = "error"]
        /\ UNCHANGED <<rows, at, seq, turn, left, message, stop, asked, taken, faults>>
    BY <1>3, Zenon DEF FirstRefused
  <2>2. /\ "settle_refused" \in PcType /\ "settle_refused" # "admit_first" /\ pc[i] # "turn"
        /\ pc[i] \in Holding /\ pc[i] \in AtItem
    BY <2>1 DEF Holding, AtItem, PcType
  <2>3. outcome' \in [Drivers -> OutcomeType]
    BY <1>1, <2>1, ErrorOutcome, Zenon DEF ThreadTypes
  <2>4. RowTypes' /\ OtherTypes' /\ UNCHANGED Rows
    BY <1>1, <2>1, Zenon DEF RowTypes, OtherTypes, Rows, rows
  <2>5. turn'[i] = "none"
    BY <1>1, <2>1, <2>2, Zenon DEF DriverOK
  <2> HIDE DEF Inv
  <2> QED BY <1>1, <2>1, <2>2, <2>3, <2>4, <2>5, MoveStep, Zenon DEF ThreadTypes
<1> QED BY <1>2, <1>3, Zenon DEF FirstRound

LEMMA ReceiveStep == ASSUME Inv, NEW s \in Sources, NEW a \in Authors, Receive(s, a) PROVE Inv'
<1> DEFINE to == IF Live(s) = {} THEN "ordinary" ELSE "lookup"
<1>1. /\ taken < MaxMessages /\ taken' = taken + 1 /\ pc[Loop] = "idle"
      /\ pc' = [pc EXCEPT ![Loop] = to] /\ message' = [source |-> s, author |-> a]
      /\ UNCHANGED <<rows, at, seq, turn, outcome, left, stop, asked, faults>>
  BY Zenon DEF Receive, At
<1>2. /\ to \in PcType /\ to \notin AtItem /\ to \notin Holding /\ to # "admit_first" /\ to # "turn"
      /\ pc[Loop] # "turn"
  BY <1>1 DEF PcType, AtItem, Holding
<1> HIDE DEF to
<1>3. Loop \in Drivers /\ RowTypes /\ ThreadTypes /\ OtherTypes /\ DriverOK(Loop)
  BY InvFacts, Zenon DEF Drivers
<1>4. message' \in MessageType /\ taken' \in 0..MaxMessages
  <2>1. message' \in MessageType
    BY <1>1, Zenon DEF MessageType
  <2>2. taken' \in 0..MaxMessages
    BY <1>1, <1>3, WorkItemsAssumption DEF OtherTypes
  <2> QED BY <2>1, <2>2, Zenon
<1>5. RowTypes' /\ OtherTypes' /\ UNCHANGED Rows
  BY <1>1, <1>3, <1>4, Zenon DEF RowTypes, OtherTypes, Rows, rows
<1>6. turn'[Loop] = "none"
  BY <1>1, <1>2, <1>3, Zenon DEF DriverOK
<1> HIDE DEF Inv
<1> QED BY <1>1, <1>2, <1>3, <1>5, <1>6, MoveStep, Zenon DEF ThreadTypes

\* The loop leaves the item a message led to: FallThrough, and where the
\* message is not the sender's.
LEMMA LeaveFacts ==
  ASSUME ThreadTypes, turn[Loop] = "none", pc' = [pc EXCEPT ![Loop] = "ordinary"],
         at' = [at EXCEPT ![Loop] = Nobody], UNCHANGED <<seq, turn, outcome, left>>
  PROVE  /\ ThreadTypes' /\ DriverOK(Loop)' /\ pc'[Loop] \notin Holding
         /\ \A e \in Drivers : e # Loop => SameThread(e)
<1>1. Loop \in Drivers
  BY Zenon DEF Drivers
<1>2. /\ "ordinary" \in PcType /\ "ordinary" \notin AtItem /\ "ordinary" \notin Holding
      /\ "ordinary" # "admit_first"
  BY DEF PcType, AtItem, Holding
<1>3. /\ pc' \in [Drivers -> PcType] /\ pc'[Loop] = "ordinary"
      /\ \A e \in Drivers : e # Loop => pc'[e] = pc[e]
  BY <1>1, <1>2, MoveFacts, Zenon
<1>4. /\ at' \in [Drivers -> Items \cup {Nobody}]
      /\ \A e \in Drivers : e # Loop => at'[e] = at[e]
  <2>1. Nobody \in Items \cup {Nobody}
    BY Zenon
  <2> QED BY <1>1, <2>1, Put, Zenon DEF ThreadTypes
<1>5. ThreadTypes'
  BY <1>1, <1>3, <1>4, Zenon DEF ThreadTypes
<1>6. DriverOK(Loop)'
  BY <1>1, <1>2, <1>3, Zenon DEF DriverOK
<1>7. \A e \in Drivers : e # Loop => SameThread(e)
  BY <1>3, <1>4, Zenon DEF SameThread
<1> QED BY <1>2, <1>3, <1>5, <1>6, <1>7, Zenon

LEMMA LeaveStep ==
  ASSUME Inv, pc[Loop] # "turn", pc' = [pc EXCEPT ![Loop] = "ordinary"],
         at' = [at EXCEPT ![Loop] = Nobody],
         UNCHANGED <<Rows, seq, turn, outcome, left, stop>>, RowTypes', OtherTypes'
  PROVE  Inv'
<1>1. Loop \in Drivers /\ ThreadTypes /\ DriverOK(Loop)
  BY InvFacts, Zenon DEF Drivers
<1>2. turn[Loop] = "none"
  BY <1>1, Zenon DEF DriverOK
<1>3. /\ ThreadTypes' /\ DriverOK(Loop)' /\ pc'[Loop] \notin Holding
      /\ \A e \in Drivers : e # Loop => SameThread(e)
  BY <1>1, <1>2, LeaveFacts, Zenon
<1> HIDE DEF Inv
<1> QED BY <1>1, <1>3, ThreadStep, Zenon

LEMMA SummaryStep == ASSUME Inv, Summary PROVE Inv'
<1>1. /\ pc[Loop] = "summary"
      /\ UNCHANGED <<rows, seq, turn, outcome, left, message, stop, asked, taken, faults>>
      /\ \/ \E to \in {"add", "reopen", "revoke"} : pc' = [pc EXCEPT ![Loop] = to] /\ at' = at
         \/ pc' = [pc EXCEPT ![Loop] = "ordinary"] /\ at' = [at EXCEPT ![Loop] = Nobody]
  BY Zenon DEF Summary, At
<1>2. Loop \in Drivers /\ RowTypes /\ ThreadTypes /\ OtherTypes /\ DriverOK(Loop)
  BY InvFacts, Zenon DEF Drivers
<1>3. RowTypes' /\ OtherTypes' /\ UNCHANGED Rows
  BY <1>1, <1>2, Zenon DEF RowTypes, OtherTypes, Rows, rows
<1>4. pc[Loop] # "turn" /\ pc[Loop] \in AtItem
  BY <1>1 DEF AtItem
<1>5. turn'[Loop] = "none"
  BY <1>1, <1>2, <1>4, Zenon DEF DriverOK
<1> HIDE DEF Inv
<1>6. ASSUME NEW to \in {"add", "reopen", "revoke"}, pc' = [pc EXCEPT ![Loop] = to], at' = at
      PROVE  Inv'
  <2>1. to \in PcType /\ to \notin Holding /\ to # "admit_first"
    BY <1>6 DEF PcType, Holding
  <2> QED BY <1>1, <1>2, <1>3, <1>4, <1>5, <1>6, <2>1, MoveStep, Zenon DEF ThreadTypes
<1>7. CASE pc' = [pc EXCEPT ![Loop] = "ordinary"] /\ at' = [at EXCEPT ![Loop] = Nobody]
  BY <1>1, <1>3, <1>4, <1>7, LeaveStep, Zenon
<1> QED BY <1>1, <1>6, <1>7, Zenon

LEMMA NoMessageType == NoMessage \in MessageType
BY Zenon DEF NoMessage, MessageType

LEMMA OrdinaryEndsStep == ASSUME Inv, OrdinaryEnds PROVE Inv'
<1>1. /\ pc[Loop] = "ordinary" /\ pc' = [pc EXCEPT ![Loop] = "idle"] /\ message' = NoMessage
      /\ UNCHANGED <<rows, at, seq, turn, outcome, left, stop, asked, taken, faults>>
  BY Zenon DEF OrdinaryEnds, At
<1>2. Loop \in Drivers /\ RowTypes /\ ThreadTypes /\ OtherTypes /\ DriverOK(Loop)
  BY InvFacts, Zenon DEF Drivers
<1>3. RowTypes' /\ OtherTypes' /\ UNCHANGED Rows
  BY <1>1, <1>2, NoMessageType, Zenon DEF RowTypes, OtherTypes, Rows, rows
<1>4. /\ pc[Loop] # "turn" /\ "idle" \in PcType /\ "idle" \notin AtItem /\ "idle" \notin Holding
      /\ "idle" # "admit_first"
  BY <1>1 DEF AtItem, Holding, PcType
<1>5. turn'[Loop] = "none"
  BY <1>1, <1>2, <1>4, Zenon DEF DriverOK
<1> HIDE DEF Inv
<1> QED BY <1>1, <1>2, <1>3, <1>4, <1>5, MoveStep, Zenon DEF ThreadTypes

Lefts == {"no", "held_back", "refused"}
LEMMA LeftFacts ==
  ASSUME ThreadTypes, NEW i \in Items, NEW v \in Lefts
  PROVE  left \in [Items -> Lefts] /\ [left EXCEPT ![i] = v] \in [Items -> Lefts]
BY Zenon DEF ThreadTypes, Lefts

\* round_due and turn admission.
LEMMA LookStep == ASSUME Inv, NEW d \in Drivers, LookAgain(d) \/ Admit(d) PROVE Inv'
<1>1. /\ pc[d] \in {"due", "admit"}
      /\ Finish(d) \/ \E to \in {"admit", "start"} : pc' = [pc EXCEPT ![d] = to] /\ UNCHANGED <<at, seq>>
      /\ left' \in {left, [left EXCEPT ![at[d]] = "held_back"]}
      /\ UNCHANGED <<rows, turn, outcome, message, stop, asked, taken, faults>>
  BY Zenon DEF LookAgain, Admit
<1>2. RowTypes /\ ThreadTypes /\ OtherTypes /\ DriverOK(d)
  BY InvFacts, Zenon
<1>3. RowTypes' /\ OtherTypes' /\ UNCHANGED Rows
  BY <1>1, <1>2, Zenon DEF RowTypes, OtherTypes, Rows, rows
<1>4. pc[d] # "turn" /\ pc[d] \in AtItem
  BY <1>1 DEF AtItem
<1>5. turn'[d] = "none" /\ at[d] \in Items
  BY <1>1, <1>2, <1>4, Zenon DEF DriverOK
<1>6. left' \in [Items -> {"no", "held_back", "refused"}]
  <2>1. "held_back" \in Lefts
    BY DEF Lefts
  <2> QED BY <1>1, <1>2, <1>5, <2>1, LeftFacts, Zenon DEF Lefts
<1> HIDE DEF Inv
<1>7. CASE Finish(d)
  BY <1>1, <1>2, <1>3, <1>4, <1>6, <1>7, FinishStep, Zenon DEF ThreadTypes
<1>8. ASSUME NEW to \in {"admit", "start"}, pc' = [pc EXCEPT ![d] = to], UNCHANGED <<at, seq>>
      PROVE  Inv'
  <2>1. to \in PcType /\ to \notin Holding /\ to # "admit_first"
    BY <1>8 DEF PcType, Holding
  <2> QED BY <1>1, <1>2, <1>3, <1>4, <1>5, <1>6, <1>8, <2>1, MoveStep, Zenon DEF ThreadTypes
<1> QED BY <1>1, <1>7, <1>8, Zenon

\* The turn of a round, up to its report.
LEMMA TurnGoesStep ==
  ASSUME Inv, NEW d \in Drivers, TurnRegisters(d) \/ TurnCloses(d)
  PROVE  Inv'
<1>1. /\ turn[d] # "none" /\ \E v \in {"open", "closed"} : turn' = [turn EXCEPT ![d] = v]
      /\ UNCHANGED <<rows, pc, at, seq, outcome, left, message, stop, asked, taken, faults>>
  BY Zenon DEF TurnRegisters, TurnCloses
<1>2. RowTypes /\ ThreadTypes /\ OtherTypes /\ DriverOK(d)
  BY InvFacts, Zenon
<1>3. RowTypes' /\ OtherTypes' /\ UNCHANGED Rows
  BY <1>1, <1>2, Zenon DEF RowTypes, OtherTypes, Rows, rows
<1>4. turn' \in [Drivers -> TurnType] /\ \A e \in Drivers : e # d => turn'[e] = turn[e]
  <2>1. PICK v \in {"open", "closed"} : turn' = [turn EXCEPT ![d] = v]
    BY <1>1, Zenon
  <2>2. v \in TurnType
    BY <2>1, Zenon DEF TurnType
  <2>3. turn \in [Drivers -> TurnType]
    BY <1>2, Zenon DEF ThreadTypes
  <2> QED BY <2>1, <2>2, <2>3, Put, Zenon
<1>5. ThreadTypes'
  BY <1>1, <1>2, <1>4, Zenon DEF ThreadTypes
<1>6. DriverOK(d)' /\ \A e \in Drivers : e # d => SameThread(e)
  BY <1>1, <1>2, <1>3, <1>4, Zenon DEF DriverOK, SameThread, Rows
<1> HIDE DEF Inv
<1> QED BY <1>1, <1>3, <1>5, <1>6, ThreadStep, Zenon

LEMMA TurnEndsStep == ASSUME Inv, NEW d \in Drivers, TurnEnds(d) PROVE Inv'
<1>1. /\ turn[d] # "none" /\ turn' = [turn EXCEPT ![d] = "none"]
      /\ pc' = [pc EXCEPT ![d] = "settle"]
      /\ \/ \E report \in Reports, asks \in BOOLEAN :
              outcome' = [outcome EXCEPT ![d] = [report |-> report, asks |-> asks]]
         \/ outcome' = [outcome EXCEPT ![d].report = "error"]
      /\ UNCHANGED <<rows, at, seq, left, message, stop, asked, taken, faults>>
  BY Zenon DEF TurnEnds
<1>2. RowTypes /\ ThreadTypes /\ OtherTypes /\ DriverOK(d)
  BY InvFacts, Zenon
<1>3. RowTypes' /\ OtherTypes' /\ UNCHANGED Rows
  BY <1>1, <1>2, Zenon DEF RowTypes, OtherTypes, Rows, rows
<1>4. /\ turn' \in [Drivers -> TurnType] /\ turn'[d] = "none"
      /\ \A e \in Drivers : e # d => turn'[e] = turn[e]
  <2>1. "none" \in TurnType
    BY DEF TurnType
  <2> QED BY <1>1, <1>2, <2>1, Put, Zenon DEF ThreadTypes
<1>5. outcome' \in [Drivers -> OutcomeType]
  <2>1. ASSUME NEW report \in Reports, NEW asks \in BOOLEAN,
               outcome' = [outcome EXCEPT ![d] = [report |-> report, asks |-> asks]]
        PROVE  outcome' \in [Drivers -> OutcomeType]
    <3>1. [report |-> report, asks |-> asks] \in OutcomeType
      BY Zenon DEF OutcomeType
    <3> QED BY <1>2, <2>1, <3>1, Put, Zenon DEF ThreadTypes
  <2>2. CASE outcome' = [outcome EXCEPT ![d].report = "error"]
    BY <1>2, <2>2, ErrorOutcome, Zenon DEF ThreadTypes
  <2> QED BY <1>1, <2>1, <2>2, Zenon
<1>6. /\ pc[d] \in AtItem /\ pc[d] \in Holding /\ "settle" \in PcType /\ "settle" # "admit_first"
  <2>1. pc[d] = "turn"
    BY <1>1, <1>2, Zenon DEF DriverOK
  <2> QED BY <2>1 DEF AtItem, Holding, PcType
<1> HIDE DEF Inv
<1> QED BY <1>1, <1>2, <1>3, <1>4, <1>5, <1>6, MoveStep, Zenon DEF ThreadTypes

\* A stop request moves on.
LEMMA StopMoves ==
  ASSUME Inv, UNCHANGED <<Rows, pc, at, seq, turn>>, RowTypes', ThreadTypes', OtherTypes',
         \A s \in Stops : StopOK(s)' \/ stop'[s] = stop[s]
  PROVE  Inv'
<1>1. \A i \in Items : SameRow(i)
  BY Zenon DEF Rows, SameRow
<1>2. Apart' /\ rounds' = rounds
  BY InvFacts, Zenon DEF Apart, Rows
<1>3. \A d \in Drivers : SameThread(d)
  BY Zenon DEF SameThread
<1> HIDE DEF Inv
<1> QED BY <1>1, <1>2, <1>3, StepKeeps, Zenon

LEMMA StopReadStep == ASSUME Inv, NEW s \in Stops, NEW i \in Items, StopRead(s, i) PROVE Inv'
<1> DEFINE went == IF end_reason[i] = "stopped" THEN "done" ELSE "end"
           req == [pc |-> went, item |-> i, running |-> Running(i), seq |-> Len(rounds[i])]
<1>1. /\ state[i] # "absent" /\ stop' = [stop EXCEPT ![s] = req]
      /\ UNCHANGED <<rows, drives, message, asked, taken, faults>>
  BY Zenon DEF StopRead
<1>2. RowTypes /\ ThreadTypes /\ OtherTypes
  BY InvFacts, Zenon
<1>3. req \in StopType
  <2>1. Len(rounds[i]) \in Nat
    <3>1. rounds[i] \in Seq(RoundStates)
      BY <1>2, Zenon DEF RowTypes
    <3> QED BY <3>1, Elem, Zenon
  <2>2. Running(i) \in BOOLEAN
    BY Zenon DEF Running
  <2> QED BY <2>1, <2>2, Zenon DEF StopType
<1>4. stop' \in [Stops -> StopType] /\ stop'[s] = req /\ \A t \in Stops : t # s => stop'[t] = stop[t]
  <2> HIDE DEF req
  <2> QED BY <1>1, <1>2, <1>3, Put, Zenon DEF OtherTypes
<1>5. StopOK(s)'
  BY <1>1, <1>4, Zenon DEF StopOK, rows
<1>6. /\ UNCHANGED <<Rows, pc, at, seq, turn>>
      /\ RowTypes' /\ ThreadTypes' /\ OtherTypes'
  BY <1>1, <1>2, <1>4, Zenon DEF RowTypes, ThreadTypes, OtherTypes, rows, drives, Rows
<1> HIDE DEF Inv, req
<1> QED BY <1>4, <1>5, <1>6, StopMoves, Zenon

StopPcs == {"idle", "end", "cancel", "done"}
LEMMA StopDone ==
  ASSUME stop \in [Stops -> StopType], NEW s \in Stops, NEW to \in StopPcs,
         stop' = [stop EXCEPT ![s].pc = to]
  PROVE  /\ stop' \in [Stops -> StopType] /\ stop'[s].pc = to /\ stop'[s].item = stop[s].item
         /\ \A t \in Stops : t # s => stop'[t] = stop[t]
<1> DEFINE req == [stop[s] EXCEPT !.pc = to]
<1>1. req \in StopType /\ req.pc = to /\ req.item = stop[s].item
  <2>1. stop[s] \in StopType
    BY Zenon
  <2> QED BY <2>1, Zenon DEF StopType, StopPcs
<1>2. stop' = [stop EXCEPT ![s] = req]
  BY Zenon
<1>3. stop' \in [Stops -> StopType] /\ stop'[s] = req /\ \A t \in Stops : t # s => stop'[t] = stop[t]
  <2> HIDE DEF req
  <2> QED BY <1>1, <1>2
<1> QED BY <1>1, <1>3, Zenon

LEMMA StopCancelStep == ASSUME Inv, NEW s \in Stops, StopCancel(s) PROVE Inv'
<1>1. /\ stop[s].pc = "cancel" /\ stop' = [stop EXCEPT ![s].pc = "done"]
      /\ asked' = asked \cup (IF stop[s].running /\ Reachable(stop[s].item, stop[s].seq)
                                THEN {<<stop[s].item, stop[s].seq>>} ELSE {})
      /\ UNCHANGED <<rows, drives, message, taken, faults>>
  BY Zenon DEF StopCancel
<1>2. RowTypes /\ ThreadTypes /\ OtherTypes
  BY InvFacts, Zenon
<1>3. StopOK(s)
  BY Zenon DEF Inv
<1>4. /\ stop' \in [Stops -> StopType] /\ stop'[s].pc = "done"
      /\ \A t \in Stops : t # s => stop'[t] = stop[t]
  <2>1. "done" \in StopPcs
    BY Zenon DEF StopPcs
  <2>2. stop \in [Stops -> StopType]
    BY <1>2, Zenon DEF OtherTypes
  <2>3. stop' = [stop EXCEPT ![s].pc = "done"]
    BY <1>1, Zenon
  <2> QED BY <2>1, <2>2, <2>3, StopDone, ZenonT(30)
<1>5. asked' \subseteq Items \X Nat
  <2>1. stop[s].item \in Items
    BY <1>1, <1>3, Zenon DEF StopOK
  <2>2. stop[s].seq \in Nat
    <3>1. stop[s] \in StopType
      BY <1>2, Zenon DEF OtherTypes
    <3> QED BY <3>1, Zenon DEF StopType
  <2>3. <<stop[s].item, stop[s].seq>> \in Items \X Nat
    BY <2>1, <2>2, Zenon
  <2> QED BY <1>1, <1>2, <2>3, Zenon DEF OtherTypes
<1>6. StopOK(s)'
  BY <1>4 DEF StopOK
<1>7. /\ UNCHANGED <<Rows, pc, at, seq, turn>>
      /\ RowTypes' /\ ThreadTypes' /\ OtherTypes'
  BY <1>1, <1>2, <1>4, <1>5, Zenon DEF RowTypes, ThreadTypes, OtherTypes, rows, drives, Rows
<1> HIDE DEF Inv
<1> QED BY <1>4, <1>6, <1>7, StopMoves, Zenon

LEMMA OneMoreFault ==
  ASSUME OtherTypes, faults < MaxFaults, faults' = faults + 1
  PROVE  faults' \in 0..MaxFaults /\ faults' # 0
BY WorkItemsAssumption DEF OtherTypes

LEMMA CrashStep == ASSUME Inv, Crash PROVE Inv'
<1>1. /\ faults < MaxFaults /\ faults' = faults + 1
      /\ pc' = [d \in Drivers |-> IF pc[d] = "idle" THEN "idle" ELSE Rest(d)]
      /\ at' = [d \in Drivers |-> Nobody]
      /\ seq' = [d \in Drivers |-> 0]
      /\ turn' = [d \in Drivers |-> "none"]
      /\ outcome' = [d \in Drivers |-> NoOutcome]
      /\ message' = NoMessage
      /\ stop' = [s \in Stops |-> IF stop[s].pc = "idle" THEN stop[s]
                                  ELSE [stop[s] EXCEPT !.pc = "done"]]
      /\ UNCHANGED <<rows, left, asked, taken>>
  BY Zenon DEF Crash
<1>2. RowTypes /\ ThreadTypes /\ OtherTypes
  BY InvFacts, Zenon
<1>3. ASSUME NEW d \in Drivers
      PROVE  /\ pc'[d] \in PcType /\ pc'[d] \notin AtItem /\ pc'[d] \notin Holding
             /\ pc'[d] # "admit_first" /\ turn'[d] = "none"
  <2>1. pc'[d] \in {"idle", "done"} /\ turn'[d] = "none"
    BY <1>1, Zenon DEF Rest
  <2> QED BY <2>1 DEF PcType, AtItem, Holding
<1>4. ThreadTypes'
  <2>1. "none" \in TurnType /\ NoOutcome \in OutcomeType /\ 0 \in Nat
    BY DEF TurnType, NoOutcome, OutcomeType
  <2>2. pc' \in [Drivers -> PcType]
    BY <1>1, <1>3, Zenon
  <2> QED BY <1>1, <1>2, <2>1, <2>2, Zenon DEF ThreadTypes
<1>5. ASSUME NEW s \in Stops PROVE stop'[s] \in StopType /\ StopOK(s)'
  <2>1. stop[s] \in StopType
    BY <1>2, Zenon DEF OtherTypes
  <2>2. CASE stop[s].pc = "idle"
    <3>1. stop'[s] = stop[s] /\ "idle" \notin {"end", "cancel"}
      BY <1>1, <2>2, Zenon
    <3> QED BY <2>1, <2>2, <3>1, Zenon DEF StopOK
  <2>3. CASE stop[s].pc # "idle"
    <3>1. stop'[s] = [stop[s] EXCEPT !.pc = "done"]
      BY <1>1, <2>3, Zenon
    <3>2. stop'[s] \in StopType /\ stop'[s].pc = "done" /\ "done" \notin {"end", "cancel"}
      BY <2>1, <3>1, Zenon DEF StopType
    <3> QED BY <3>2, Zenon DEF StopOK
  <2> QED BY <2>2, <2>3, Zenon
<1>6. OtherTypes' /\ RowTypes' /\ rounds' = rounds /\ \A i \in Items : SameRow(i)
  <2>1. stop' \in [Stops -> StopType]
    BY <1>1, <1>5, Zenon
  <2> QED BY <1>1, <1>2, <2>1, OneMoreFault, NoMessageType, Zenon DEF OtherTypes, RowTypes, rows, SameRow
<1>7. Apart'
  BY <1>3, Zenon DEF Apart
<1>8. \A d \in Drivers : DriverOK(d)'
  BY <1>3, Zenon DEF DriverOK
<1> HIDE DEF Inv
<1> QED BY <1>4, <1>5, <1>6, <1>7, <1>8, StepKeeps, Zenon

-----------------------------------------------------------------------------
(* Opening an item *)

LEMMA CreateRows ==
  ASSUME Inv, NEW i \in Items, NEW author \in Authors \cup {Nobody}, NEW owner \in SubType,
         CreateItem(i, author, owner)
  PROVE  /\ RowTypes' /\ ItemOK(i)' /\ state[i] = "absent" /\ state'[i] = "open"
         /\ RunningIn(rounds'[i]) /\ Len(rounds'[i]) = 1
         /\ \A j \in Items : j # i => SameRow(j)
         /\ UNCHANGED <<end_reason, last_report, attention, inputs>>
<1>1. /\ state[i] = "absent"
      /\ state' = [state EXCEPT ![i] = "open"]
      /\ sender' = [sender EXCEPT ![i] = author]
      /\ rounds' = [rounds EXCEPT ![i] = <<"running">>]
      /\ UNCHANGED <<end_reason, last_report, attention, inputs>>
  BY Zenon DEF CreateItem
<1>2. RowTypes /\ ItemOK(i)
  BY InvFacts, Zenon
<1>3. /\ <<"running">> \in Seq(RoundStates) /\ Len(<<"running">>) = 1
      /\ RunningIn(<<"running">>) /\ "open" \in {"absent", "open", "ended"}
  BY DEF RoundStates, RunningIn
<1>4. /\ state' \in [Items -> {"absent", "open", "ended"}] /\ state'[i] = "open"
      /\ \A j \in Items : j # i => state'[j] = state[j]
  BY <1>1, <1>2, <1>3, Put, Zenon DEF RowTypes
<1>5. sender' \in [Items -> Authors \cup {Nobody}]
  BY <1>1, <1>2, Put, Zenon DEF RowTypes
<1>6. /\ rounds' \in [Items -> Seq(RoundStates)] /\ rounds'[i] = <<"running">>
      /\ \A j \in Items : j # i => rounds'[j] = rounds[j]
  <2>1. rounds \in [Items -> Seq(RoundStates)]
    BY <1>2, Zenon DEF RowTypes
  <2> QED BY <1>1, <1>3, <2>1, Put, Zenon
<1>7. sub' \in [Items -> SubType]
  <2>1. ASSUME NEW j \in Items
        PROVE  sub[j] \in SubType /\ [sub[j] EXCEPT !.drop = "superseded"] \in SubType
    <3>1. sub[j] \in SubType
      BY <1>2, Zenon DEF RowTypes
    <3> QED BY <3>1, Zenon DEF SubType
  <2>2. sub' = [j \in Items |->
          CASE j = i -> owner
            [] j \in Superseded(i, owner.source) -> [sub[j] EXCEPT !.drop = "superseded"]
            [] OTHER -> sub[j]]
    BY Zenon DEF CreateItem
  <2>3. ASSUME NEW j \in Items PROVE sub'[j] \in SubType
    <3>1. j # i \/ j \notin Superseded(i, owner.source)
      BY Zenon DEF Superseded
    <3>2. CASE j = i
      BY <2>2, <3>1, <3>2, Zenon
    <3>3. CASE j # i /\ j \in Superseded(i, owner.source)
      BY <2>1, <2>2, <3>3, Zenon
    <3>4. CASE j # i /\ j \notin Superseded(i, owner.source)
      BY <2>1, <2>2, <3>4, Zenon
    <3> QED BY <3>2, <3>3, <3>4, Zenon
  <2> HIDE DEF SubType
  <2> QED BY <2>2, <2>3, Zenon
<1>8. MaxRoundsPerHour > 0 => \A j \in Items : Len(rounds'[j]) <= MaxRoundsPerHour
  <2>1. MaxRoundsPerHour > 0 => 1 <= MaxRoundsPerHour
    BY WorkItemsAssumption
  <2>2. MaxRoundsPerHour > 0 => \A j \in Items : Len(rounds[j]) <= MaxRoundsPerHour
    BY <1>2, Zenon DEF RowTypes
  <2> QED BY <1>3, <1>6, <2>1, <2>2, Zenon
<1>9. RowTypes'
  BY <1>1, <1>2, <1>4, <1>5, <1>6, <1>7, <1>8, Zenon DEF RowTypes
<1>10. ItemOK(i)'
  <2>1. /\ inputs[i] = << >> /\ end_reason[i] = "none" /\ last_report[i] = "none"
        /\ attention[i] = FALSE
    BY <1>1, <1>2, Zenon DEF ItemOK, RowOK
  <2> QED BY <1>1, <1>4, <1>6, <2>1, NewRow, Zenon DEF ItemOK
<1>11. \A j \in Items : j # i => SameRow(j)
  BY <1>1, <1>4, <1>6, Zenon DEF SameRow
<1> QED BY <1>1, <1>3, <1>4, <1>6, <1>9, <1>10, <1>11, Zenon

\* Its thread, if it has one, is at the first round, which nobody else holds.
LEMMA OpenStep ==
  ASSUME Inv, NEW i \in Items, RowTypes', ThreadTypes', OtherTypes', stop' = stop,
         ItemOK(i)', state[i] = "absent", state'[i] = "open",
         \A j \in Items : j # i => SameRow(j),
         \A e \in Drivers : e # i => SameThread(e),
         SameThread(i) \/ (at'[i] = i /\ DriverOK(i)')
  PROVE  Inv'
<1>1. i \in Drivers /\ Apart /\ \A e \in Drivers : DriverOK(e)
  BY InvFacts, Zenon DEF Drivers
<1>2. ASSUME NEW e \in Drivers, pc[e] \in Holding
      PROVE  at[e] \in Items /\ at[e] # i
  <2>1. pc[e] \in AtItem
    BY <1>2, Zenon DEF AtItem
  <2> QED BY <1>1, <2>1, Zenon DEF DriverOK
<1>3. Apart'
  <2>1. CASE SameThread(i)
    BY <1>1, <2>1, ApartKept, Zenon DEF SameThread
  <2>2. CASE at'[i] = i
    <3>1. \A e \in Drivers : e # i => pc'[e] = pc[e] /\ at'[e] = at[e]
      BY Zenon DEF SameThread
    <3> QED BY <1>1, <1>2, <2>2, <3>1, ApartNew, Zenon
  <2> QED BY <2>1, <2>2, Zenon
<1>4. \A j \in Items : SameRow(j) \/ (ItemOK(j)' /\ state'[j] # "absent")
  BY Zenon
<1>5. \A e \in Drivers : DriverOK(e)' \/
        (SameThread(e) /\ (pc[e] \in Holding => rounds'[at[e]] = rounds[at[e]]))
  BY <1>2, Zenon DEF SameRow
<1> HIDE DEF Inv
<1> QED BY <1>3, <1>4, <1>5, StepKeeps, Zenon

LEMMA NoSubType == NoSub \in SubType
BY Zenon DEF NoSub, SubType

LEMMA FirstThread ==
  ASSUME NEW i \in Items, at'[i] = i, seq'[i] = 1, state'[i] # "absent", RunningIn(rounds'[i]),
         Len(rounds'[i]) = 1, turn'[i] # "none" => pc'[i] = "turn"
  PROVE  DriverOK(i)'
BY Zenon DEF DriverOK

LEMMA OpenApiStep == ASSUME Inv, NEW i \in Items, OpenApi(i) PROVE Inv'
<1>1. /\ CreateItem(i, Nobody, NoSub)
      /\ \/ Begin(i, i, 1) /\ UNCHANGED faults
         \/ /\ faults < MaxFaults /\ faults' = faults + 1
            /\ UNCHANGED <<pc, at, seq, turn>>
      /\ UNCHANGED <<outcome, left, message, stop, asked, taken>>
  BY Zenon DEF OpenApi
<1>2. ThreadTypes /\ OtherTypes /\ i \in Drivers /\ 1 \in Nat
  BY InvFacts, Zenon DEF Drivers
<1>3. /\ RowTypes' /\ ItemOK(i)' /\ state[i] = "absent" /\ state'[i] = "open"
      /\ RunningIn(rounds'[i]) /\ Len(rounds'[i]) = 1
      /\ \A j \in Items : j # i => SameRow(j)
  BY <1>1, NoSubType, CreateRows, Zenon
<1>4. OtherTypes'
  BY <1>1, <1>2, OneMoreFault, Zenon DEF OtherTypes
<1>5. CASE Begin(i, i, 1)
  <2>1. /\ pc' \in [Drivers -> PcType] /\ at' \in [Drivers -> Items \cup {Nobody}]
        /\ seq' \in [Drivers -> Nat] /\ turn' \in [Drivers -> TurnType]
        /\ pc'[i] = "turn" /\ at'[i] = i /\ seq'[i] = 1
        /\ \A e \in Drivers : e # i => SameThread(e)
    BY <1>2, <1>5, BeginFacts, Zenon
  <2>2. ThreadTypes'
    BY <1>1, <1>2, <2>1, Zenon DEF ThreadTypes
  <2>3. DriverOK(i)'
    BY <1>3, <2>1, FirstThread, Zenon
  <2> HIDE DEF Inv
  <2> QED BY <1>1, <1>3, <1>4, <2>1, <2>2, <2>3, OpenStep, Zenon
<1>6. CASE UNCHANGED <<pc, at, seq, turn>>
  <2>1. ThreadTypes' /\ \A e \in Drivers : SameThread(e)
    BY <1>1, <1>2, <1>6, Zenon DEF ThreadTypes, SameThread
  <2> HIDE DEF Inv
  <2> QED BY <1>1, <1>2, <1>3, <1>4, <2>1, OpenStep, Zenon
<1> QED BY <1>1, <1>5, <1>6, Zenon

LEMMA OpenToolStep ==
  ASSUME Inv, NEW i \in Items, NEW subscribe \in BOOLEAN, OpenTool(i, subscribe)
  PROVE  Inv'
<1> DEFINE owner == IF subscribe THEN [source |-> message.source, drop |-> "live"] ELSE NoSub
<1>1. /\ CreateItem(i, message.author, owner)
      /\ \/ /\ pc' = [pc EXCEPT ![i] = "admit_first"]
            /\ at' = [at EXCEPT ![i] = i] /\ seq' = [seq EXCEPT ![i] = 1]
            /\ UNCHANGED faults
         \/ faults < MaxFaults /\ faults' = faults + 1 /\ UNCHANGED <<pc, at, seq>>
      /\ UNCHANGED <<turn, outcome, left, message, stop, asked, taken>>
  BY Zenon DEF OpenTool
<1>2. ThreadTypes /\ OtherTypes /\ i \in Drivers /\ 1 \in Nat /\ DriverOK(i)
  BY InvFacts, Zenon DEF Drivers
<1>3. owner \in SubType /\ message.author \in Authors \cup {Nobody}
  <2>1. message \in MessageType
    BY <1>2, Zenon DEF OtherTypes
  <2>2. message.source \in Sources \cup {Nobody} /\ message.author \in Authors \cup {Nobody}
    BY <2>1, Zenon DEF MessageType
  <2>3. [source |-> message.source, drop |-> "live"] \in SubType
    BY <2>2, Zenon DEF SubType
  <2> QED BY <2>2, <2>3, NoSubType, Zenon
<1> HIDE DEF owner
<1>4. /\ RowTypes' /\ ItemOK(i)' /\ state[i] = "absent" /\ state'[i] = "open"
      /\ RunningIn(rounds'[i]) /\ Len(rounds'[i]) = 1
      /\ \A j \in Items : j # i => SameRow(j)
  BY <1>1, <1>3, CreateRows, Zenon
<1>5. OtherTypes'
  BY <1>1, <1>2, OneMoreFault, Zenon DEF OtherTypes
<1>6. turn[i] = "none"
  <2>1. "turn" \in AtItem
    BY DEF AtItem, Holding
  <2> QED BY <1>2, <1>4, <2>1, Zenon DEF DriverOK
<1>7. ASSUME pc' = [pc EXCEPT ![i] = "admit_first"],
             at' = [at EXCEPT ![i] = i], seq' = [seq EXCEPT ![i] = 1]
      PROVE  Inv'
  <2>1. "admit_first" \in PcType /\ i \in Items \cup {Nobody}
    BY DEF PcType
  <2>2. pc' \in [Drivers -> PcType] /\ \A e \in Drivers : e # i => pc'[e] = pc[e]
    BY <1>2, <1>7, <2>1, MoveFacts, Zenon
  <2>3. /\ at' \in [Drivers -> Items \cup {Nobody}] /\ at'[i] = i
        /\ \A e \in Drivers : e # i => at'[e] = at[e]
    BY <1>2, <1>7, <2>1, Put, Zenon DEF ThreadTypes
  <2>4. seq' \in [Drivers -> Nat] /\ seq'[i] = 1 /\ \A e \in Drivers : e # i => seq'[e] = seq[e]
    BY <1>2, <1>7, Put, Zenon DEF ThreadTypes
  <2>5. ThreadTypes' /\ turn'[i] = "none" /\ \A e \in Drivers : e # i => SameThread(e)
    BY <1>1, <1>2, <1>6, <2>2, <2>3, <2>4, Zenon DEF ThreadTypes, SameThread
  <2>6. DriverOK(i)'
    BY <1>4, <2>3, <2>4, <2>5, FirstThread, Zenon
  <2> HIDE DEF Inv
  <2> QED BY <1>1, <1>4, <1>5, <2>3, <2>5, <2>6, OpenStep, Zenon
<1>8. CASE UNCHANGED <<pc, at, seq>>
  <2>1. ThreadTypes' /\ \A e \in Drivers : SameThread(e)
    BY <1>1, <1>2, <1>8, Zenon DEF ThreadTypes, SameThread
  <2> HIDE DEF Inv
  <2> QED BY <1>1, <1>2, <1>4, <1>5, <2>1, OpenStep, Zenon
<1> QED BY <1>1, <1>7, <1>8, Zenon

-----------------------------------------------------------------------------
(* Steps that change the rows of an item *)

\* A step that changes one item's rows but not its rounds, and one thread.
LEMMA RowStep ==
  ASSUME Inv, NEW i \in Items, NEW d \in Drivers, RowTypes', ThreadTypes', OtherTypes',
         ItemOK(i)', state'[i] # "absent", \A j \in Items : j # i => SameRow(j), rounds' = rounds,
         \A e \in Drivers : e # d => SameThread(e), SameThread(d) \/ DriverOK(d)',
         pc'[d] \in Holding => pc[d] \in Holding /\ at'[d] = at[d],
         \A s \in Stops : StopOK(s)' \/ stop'[s] = stop[s]
  PROVE  Inv'
<1>1. Apart'
  BY InvFacts, ApartKept, Zenon DEF SameThread
<1>2. \A j \in Items : SameRow(j) \/ (ItemOK(j)' /\ state'[j] # "absent")
  BY Zenon
<1>3. \A e \in Drivers : DriverOK(e)' \/
        (SameThread(e) /\ (pc[e] \in Holding => rounds'[at[e]] = rounds[at[e]]))
  BY Zenon
<1> HIDE DEF Inv
<1> QED BY <1>1, <1>2, <1>3, StepKeeps, Zenon

LEMMA RecordedType ==
  ASSUME RowTypes, NEW i \in Items, NEW person \in BOOLEAN
  PROVE  Recorded(i, person) \in InputType
<1>1. Len(rounds[i]) \in Nat
  <2>1. rounds[i] \in Seq(RoundStates)
    BY Zenon DEF RowTypes
  <2> QED BY <2>1, Elem, Zenon
<1>2. \A k \in Nat : /\ [person |-> person, state |-> "steered", round |-> k] \in InputType
                     /\ [person |-> person, state |-> "pending", round |-> k] \in InputType
  BY Zenon DEF InputType
<1>3. 0 \in Nat
  OBVIOUS
<1> HIDE DEF InputType
<1> QED BY <1>1, <1>2, <1>3, Zenon DEF Recorded

LEMMA InputRows ==
  ASSUME Inv, NEW i \in Items, state[i] = "open", NEW row \in InputType,
         inputs' = [inputs EXCEPT ![i] = Append(@, row)],
         UNCHANGED <<state, end_reason, sender, last_report, attention, rounds, sub>>
  PROVE  RowTypes' /\ ItemOK(i)' /\ \A j \in Items : j # i => SameRow(j)
<1>1. RowTypes /\ ItemOK(i)
  BY InvFacts, Zenon
<1> DEFINE more == Append(inputs[i], row)
<1> HIDE DEF InputType
<1>2. inputs \in [Items -> Seq(InputType)] /\ inputs[i] \in Seq(InputType)
  BY <1>1, Zenon DEF RowTypes
<1>3. state[i] # "absent"
  BY Zenon
<1>4. /\ more \in Seq(InputType)
      /\ RowOK(state[i], end_reason[i], last_report[i], attention[i], rounds[i], more)
  BY <1>1, <1>2, <1>3, InputRow, Zenon DEF ItemOK
<1>5. inputs' = [inputs EXCEPT ![i] = more]
  BY Zenon
<1> HIDE DEF more
<1>6. /\ inputs' \in [Items -> Seq(InputType)] /\ inputs'[i] = more
      /\ \A j \in Items : j # i => inputs'[j] = inputs[j]
  BY <1>2, <1>4, <1>5
<1>7. RowTypes'
  BY <1>1, <1>6, Zenon DEF RowTypes
<1>8. ItemOK(i)'
  BY <1>4, <1>6, Zenon DEF ItemOK
<1>9. \A j \in Items : j # i => SameRow(j)
  BY <1>6, Zenon DEF SameRow
<1> QED BY <1>7, <1>8, <1>9, Zenon

LEMMA AddOtherStep == ASSUME Inv, NEW i \in Items, AddOther(i) PROVE Inv'
<1> DEFINE row == Recorded(i, FALSE)
<1>1. /\ state[i] = "open" /\ inputs' = [inputs EXCEPT ![i] = Append(@, row)]
      /\ UNCHANGED <<state, end_reason, sender, last_report, attention, rounds, sub,
                     drives, message, stop, asked, taken, faults>>
  BY Zenon DEF AddOther
<1>2. RowTypes /\ ThreadTypes /\ OtherTypes /\ Loop \in Drivers
  BY InvFacts, Zenon DEF Drivers
<1>3. row \in InputType
  BY <1>2, RecordedType, Zenon
<1> HIDE DEF row
<1>4. RowTypes' /\ ItemOK(i)' /\ \A j \in Items : j # i => SameRow(j)
  BY <1>1, <1>3, InputRows, Zenon
<1>5. ThreadTypes' /\ OtherTypes' /\ \A e \in Drivers : SameThread(e)
  BY <1>1, <1>2, Zenon DEF ThreadTypes, OtherTypes, SameThread, drives
<1>6. state'[i] # "absent"
  BY <1>1, Zenon
<1> HIDE DEF Inv
<1> QED BY <1>1, <1>2, <1>4, <1>5, <1>6, RowStep, Zenon DEF SameThread

LEMMA AddInputStep == ASSUME Inv, AddInput PROVE Inv'
<1>1. pc[Loop] = "add"
  BY Zenon DEF AddInput
<1>2. RowTypes /\ ThreadTypes /\ OtherTypes /\ Loop \in Drivers /\ DriverOK(Loop) /\ Loop \notin Items
  BY InvFacts, WorkItemsAssumption, Zenon DEF Drivers
<1>3. /\ pc[Loop] \in AtItem /\ pc[Loop] # "turn" /\ "due" \in PcType /\ "due" \notin Holding
      /\ "due" # "admit_first" /\ "due" # "turn"
  BY <1>1 DEF AtItem, PcType, Holding
<1>4. PICK i \in Items : i = at[Loop]
  BY <1>2, <1>3, Zenon DEF DriverOK
<1> DEFINE row == Recorded(i, TRUE)
<1>5. row \in InputType /\ turn[Loop] = "none"
  BY <1>2, <1>3, RecordedType, Zenon DEF DriverOK
<1>6. /\ \/ /\ state[i] = "open"
             /\ inputs' = [inputs EXCEPT ![i] = Append(@, row)]
             /\ \/ Finish(Loop)
                \/ pc' = [pc EXCEPT ![Loop] = "due"] /\ UNCHANGED <<at, seq>>
             /\ left' = [left EXCEPT ![i] = "no"]
             /\ message' = NoMessage
          \/ /\ pc' = [pc EXCEPT ![Loop] = "ordinary"] /\ at' = [at EXCEPT ![Loop] = Nobody]
             /\ UNCHANGED <<inputs, seq, left, message>>
       /\ UNCHANGED <<state, end_reason, sender, last_report, attention, rounds, sub,
                      turn, outcome, stop, asked, taken, faults>>
  BY <1>4, Zenon DEF AddInput, FallThrough, At
<1> HIDE DEF Inv, row
<1>7. UNCHANGED <<state, end_reason, sender, last_report, attention, rounds, sub, turn, outcome, stop>>
  BY <1>6, Zenon
<1>8. UNCHANGED <<asked, taken, faults>>
  BY <1>6, Zenon
<1>9. ASSUME state[i] = "open", inputs' = [inputs EXCEPT ![i] = Append(@, row)],
             Finish(Loop) \/ (pc' = [pc EXCEPT ![Loop] = "due"] /\ UNCHANGED <<at, seq>>),
             left' = [left EXCEPT ![i] = "no"], message' = NoMessage
      PROVE  Inv'
  <2>1. RowTypes' /\ ItemOK(i)' /\ \A j \in Items : j # i => SameRow(j)
    <3>1. /\ state[i] = "open" /\ inputs' = [inputs EXCEPT ![i] = Append(@, row)]
          /\ UNCHANGED <<state, end_reason, sender, last_report, attention, rounds, sub>>
      BY <1>7, <1>9, Zenon
    <3> QED BY <1>4, <1>5, <3>1, InputRows, Zenon
  <2>6. rounds' = rounds /\ stop' = stop
    BY <1>7, Zenon
  <2>2. OtherTypes' /\ state'[i] # "absent"
    BY <1>7, <1>8, <1>2, <1>9, NoMessageType, Zenon DEF OtherTypes
  <2>3. left' \in [Items -> {"no", "held_back", "refused"}]
    <3>1. "no" \in Lefts
      BY DEF Lefts
    <3> QED BY <1>2, <1>4, <1>9, <3>1, LeftFacts, Zenon DEF Lefts
  <2>4. CASE Finish(Loop)
    <3>1. /\ pc' \in [Drivers -> PcType] /\ at' \in [Drivers -> Items \cup {Nobody}]
          /\ seq' \in [Drivers -> Nat]
          /\ pc'[Loop] \notin AtItem /\ DriverOK(Loop)'
          /\ \A e \in Drivers : e # Loop => SameThread(e)
      BY <1>2, <1>5, <1>7, <2>4, FinishFacts, Zenon
    <3>2. ThreadTypes'
      BY <1>7, <1>8, <1>2, <2>3, <3>1, Zenon DEF ThreadTypes
    <3>3. pc'[Loop] \notin Holding
      BY <3>1, Zenon DEF AtItem
    <3> QED BY <1>2, <1>4, <2>1, <2>2, <2>6, <3>1, <3>2, <3>3, RowStep, Zenon
  <2>5. CASE pc' = [pc EXCEPT ![Loop] = "due"] /\ UNCHANGED <<at, seq>>
    <3>1. /\ pc' \in [Drivers -> PcType] /\ pc'[Loop] = "due"
          /\ \A e \in Drivers : e # Loop => pc'[e] = pc[e]
      BY <1>2, <1>3, <2>5, MoveFacts, Zenon
    <3>2. ThreadTypes' /\ \A e \in Drivers : e # Loop => SameThread(e)
      BY <1>7, <1>8, <1>2, <2>3, <2>5, <3>1, Zenon DEF ThreadTypes, SameThread
    <3>3. DriverOK(Loop)'
      BY <1>7, <1>8, <1>2, <1>3, <1>4, <2>2, <2>5, <3>1, Zenon DEF DriverOK
    <3> QED BY <1>2, <1>3, <1>4, <2>1, <2>2, <2>6, <3>1, <3>2, <3>3, RowStep, Zenon
  <2> QED BY <1>9, <2>4, <2>5, Zenon
<1>10. ASSUME pc' = [pc EXCEPT ![Loop] = "ordinary"], at' = [at EXCEPT ![Loop] = Nobody],
             UNCHANGED <<inputs, seq, left, message>>
      PROVE  Inv'
  <2>1. UNCHANGED Rows /\ RowTypes' /\ OtherTypes'
    BY <1>7, <1>8, <1>2, <1>10, Zenon DEF RowTypes, OtherTypes, Rows
  <2> QED BY <1>7, <1>8, <1>3, <1>10, <2>1, LeaveStep, Zenon
<1> QED BY <1>6, <1>9, <1>10, Zenon

\* No item is owner of a conversation before it is opened.
Fresh == \A i \in Items : state[i] = "absent" => sub[i] = NoSub

LEMMA LookupStep == ASSUME Inv, Fresh, Lookup PROVE Inv'
<1>1. PICK idle \in SUBSET Live(message.source) :
        /\ sub' = [i \in Items |-> IF i \in idle THEN [sub[i] EXCEPT !.drop = "idle"] ELSE sub[i]]
        /\ \/ \E owner \in Live(message.source) :
                pc' = [pc EXCEPT ![Loop] = "summary"] /\ at' = [at EXCEPT ![Loop] = owner]
           \/ pc' = [pc EXCEPT ![Loop] = "ordinary"] /\ UNCHANGED at
  BY Zenon DEF Lookup, At
<1>2. /\ pc[Loop] = "lookup"
      /\ UNCHANGED <<state, end_reason, sender, last_report, attention, rounds, inputs,
                     seq, turn, outcome, left, message, stop, asked, taken, faults>>
  BY Zenon DEF Lookup, At
<1>3. RowTypes /\ ThreadTypes /\ OtherTypes /\ Loop \in Drivers /\ DriverOK(Loop) /\ Loop \notin Items
  BY InvFacts, WorkItemsAssumption, Zenon DEF Drivers
<1>4. RowTypes' /\ OtherTypes' /\ UNCHANGED Rows
  <2>1. ASSUME NEW i \in Items
        PROVE  sub[i] \in SubType /\ [sub[i] EXCEPT !.drop = "idle"] \in SubType
    <3>1. sub[i] \in SubType
      BY <1>3, Zenon DEF RowTypes
    <3> QED BY <3>1, Zenon DEF SubType
  <2>2. sub' \in [Items -> SubType]
    <3> HIDE DEF SubType
    <3> QED BY <1>1, <2>1, Zenon
  <2> QED BY <1>2, <1>3, <2>2, Zenon DEF RowTypes, OtherTypes, Rows
<1>5. /\ turn[Loop] = "none" /\ turn' = turn
      /\ "summary" \in PcType /\ "summary" \notin Holding /\ "summary" # "admit_first"
      /\ "ordinary" \in PcType /\ "ordinary" \notin AtItem /\ "ordinary" \notin Holding
      /\ "ordinary" # "admit_first"
  <2>1. turn[Loop] = "none" /\ turn' = turn
    BY <1>2, <1>3, Zenon DEF DriverOK
  <2> QED BY <2>1 DEF PcType, Holding, AtItem
<1> HIDE DEF Inv
<1>6. ASSUME NEW owner \in Live(message.source),
             pc' = [pc EXCEPT ![Loop] = "summary"], at' = [at EXCEPT ![Loop] = owner]
      PROVE  Inv'
  <2>1. owner \in Items /\ state[owner] # "absent"
    <3>1. owner \in Items /\ sub[owner].drop = "live"
      BY <1>6 DEF Live
    <3>2. NoSub.drop # "live"
      BY DEF NoSub
    <3> QED BY <3>1, <3>2, Zenon DEF Fresh
  <2>2. /\ pc' \in [Drivers -> PcType] /\ pc'[Loop] = "summary"
        /\ \A e \in Drivers : e # Loop => pc'[e] = pc[e]
    BY <1>3, <1>5, <1>6, MoveFacts, Zenon
  <2>3. /\ at' \in [Drivers -> Items \cup {Nobody}] /\ at'[Loop] = owner
        /\ \A e \in Drivers : e # Loop => at'[e] = at[e]
    <3>1. at \in [Drivers -> Items \cup {Nobody}] /\ owner \in Items \cup {Nobody}
      BY <1>3, <2>1, Zenon DEF ThreadTypes
    <3> QED BY <1>3, <1>6, <3>1, Put, Zenon
  <2>4. ThreadTypes' /\ \A e \in Drivers : e # Loop => SameThread(e)
    BY <1>2, <1>3, <2>2, <2>3, Zenon DEF ThreadTypes, SameThread
  <2>5. DriverOK(Loop)'
    BY <1>2, <1>3, <1>5, <2>1, <2>2, <2>3, Zenon DEF DriverOK
  <2> QED BY <1>2, <1>3, <1>4, <1>5, <2>2, <2>4, <2>5, ThreadStep, Zenon
<1>7. CASE pc' = [pc EXCEPT ![Loop] = "ordinary"] /\ UNCHANGED at
  BY <1>2, <1>3, <1>4, <1>5, <1>7, MoveStep, Zenon DEF ThreadTypes
<1> QED BY <1>1, <1>6, <1>7, Zenon

LEMMA ReopenStep == ASSUME Inv, Reopen PROVE Inv'
<1>1. pc[Loop] = "reopen"
  BY Zenon DEF Reopen
<1>2. RowTypes /\ ThreadTypes /\ OtherTypes /\ Loop \in Drivers /\ DriverOK(Loop) /\ Loop \notin Items
  BY InvFacts, WorkItemsAssumption, Zenon DEF Drivers
<1>3. /\ pc[Loop] \in AtItem /\ pc[Loop] # "turn" /\ "add" \in PcType /\ "add" \notin Holding
      /\ "add" # "admit_first"
  BY <1>1 DEF AtItem, PcType, Holding
<1>4. PICK i \in Items : i = at[Loop]
  BY <1>2, <1>3, Zenon DEF DriverOK
<1>5. ItemOK(i) /\ state[i] # "absent" /\ turn[Loop] = "none"
  BY <1>2, <1>3, <1>4, InvFacts, Zenon DEF DriverOK
<1>6. /\ \/ /\ pc' = [pc EXCEPT ![Loop] = "add"] /\ UNCHANGED at
            /\ state' = [state EXCEPT ![i] = "open"]
            /\ end_reason' = [end_reason EXCEPT ![i] = "none"]
         \/ /\ pc' = [pc EXCEPT ![Loop] = "ordinary"] /\ at' = [at EXCEPT ![Loop] = Nobody]
            /\ UNCHANGED <<state, end_reason>>
      /\ UNCHANGED <<sender, last_report, attention, rounds, inputs, sub,
                     seq, turn, outcome, left, message, stop, asked, taken, faults>>
  BY <1>4, Zenon DEF Reopen, FallThrough, At
<1>7. /\ UNCHANGED <<sender, last_report, attention, rounds, inputs, sub>>
      /\ UNCHANGED <<seq, turn, outcome, left, message, stop, asked, taken, faults>>
  BY <1>6, Zenon
<1>8. OtherTypes'
  BY <1>2, <1>7, Zenon DEF OtherTypes
<1> HIDE DEF Inv
<1>9. ASSUME pc' = [pc EXCEPT ![Loop] = "add"], UNCHANGED at,
             state' = [state EXCEPT ![i] = "open"], end_reason' = [end_reason EXCEPT ![i] = "none"]
      PROVE  Inv'
  <2>1. /\ state' \in [Items -> {"absent", "open", "ended"}] /\ state'[i] = "open"
        /\ \A j \in Items : j # i => state'[j] = state[j]
    <3>1. "open" \in {"absent", "open", "ended"}
      BY Zenon
    <3> QED BY <1>2, <1>9, <3>1, Put, Zenon DEF RowTypes
  <2>2. /\ end_reason' \in [Items -> Reasons] /\ end_reason'[i] = "none"
        /\ \A j \in Items : j # i => end_reason'[j] = end_reason[j]
    <3>1. "none" \in Reasons
      BY Zenon DEF Reasons
    <3> QED BY <1>2, <1>9, <3>1, Put, Zenon DEF RowTypes
  <2>3. RowTypes' /\ \A j \in Items : j # i => SameRow(j)
    BY <1>2, <1>7, <2>1, <2>2, Zenon DEF RowTypes, SameRow
  <2>4. ItemOK(i)' /\ state'[i] # "absent"
    <3>1. RowOK("open", "none", last_report[i], attention[i], rounds[i], inputs[i])
      BY <1>5, ReopenedRow, Zenon DEF ItemOK
    <3>2. "open" # "absent"
      BY Zenon
    <3> QED BY <1>7, <2>1, <2>2, <3>1, <3>2, Zenon DEF ItemOK
  <2>5. /\ pc' \in [Drivers -> PcType] /\ pc'[Loop] = "add"
        /\ \A e \in Drivers : e # Loop => pc'[e] = pc[e]
    BY <1>2, <1>3, <1>9, MoveFacts, Zenon
  <2>6. ThreadTypes' /\ \A e \in Drivers : e # Loop => SameThread(e)
    BY <1>2, <1>7, <1>9, <2>5, Zenon DEF ThreadTypes, SameThread
  <2>7. DriverOK(Loop)'
    BY <1>2, <1>3, <1>4, <1>5, <1>7, <1>9, <2>1, <2>5, Zenon DEF DriverOK
  <2>8. rounds' = rounds /\ stop' = stop
    BY <1>7, Zenon
  <2> QED BY <1>2, <1>3, <1>8, <2>3, <2>4, <2>5, <2>6, <2>7, <2>8, RowStep, Zenon
<1>10. ASSUME pc' = [pc EXCEPT ![Loop] = "ordinary"], at' = [at EXCEPT ![Loop] = Nobody],
              UNCHANGED <<state, end_reason>>
       PROVE  Inv'
  <2>1. UNCHANGED Rows /\ RowTypes'
    BY <1>2, <1>7, <1>10, Zenon DEF RowTypes, Rows
  <2> QED BY <1>3, <1>7, <1>8, <1>10, <2>1, LeaveStep, Zenon
<1> QED BY <1>6, <1>9, <1>10, Zenon

LEMMA EndRows ==
  ASSUME Inv, NEW i \in Items, state[i] # "absent", NEW reason \in {"stopped", "revoked"},
         reason = "revoked" => ~RunningIn(rounds[i]), EndFinally(i, reason)
  PROVE  /\ RowTypes' /\ ItemOK(i)' /\ state'[i] = "ended" /\ rounds' = rounds
         /\ \A j \in Items : j # i => SameRow(j)
<1>1. /\ state' = [state EXCEPT ![i] = "ended"]
      /\ end_reason' = [end_reason EXCEPT ![i] = reason]
      /\ sub' = [sub EXCEPT ![i].drop = IF @ = "live" THEN reason ELSE @]
      /\ UNCHANGED <<sender, last_report, attention, rounds, inputs>>
  BY Zenon DEF EndFinally
<1>2. RowTypes /\ ItemOK(i)
  BY InvFacts, Zenon
<1>3. /\ state' \in [Items -> {"absent", "open", "ended"}] /\ state'[i] = "ended"
      /\ \A j \in Items : j # i => state'[j] = state[j]
  <2>1. "ended" \in {"absent", "open", "ended"}
    BY Zenon
  <2> QED BY <1>1, <1>2, <2>1, Put, Zenon DEF RowTypes
<1>4. /\ end_reason' \in [Items -> Reasons] /\ end_reason'[i] = reason
      /\ \A j \in Items : j # i => end_reason'[j] = end_reason[j]
  <2>1. reason \in Reasons
    BY Zenon DEF Reasons
  <2> QED BY <1>1, <1>2, <2>1, Put, Zenon DEF RowTypes
<1>5. sub' \in [Items -> SubType]
  <2> DEFINE drop == IF sub[i].drop = "live" THEN reason ELSE sub[i].drop
  <2>1. sub \in [Items -> SubType] /\ sub[i] \in SubType
    BY <1>2, Zenon DEF RowTypes
  <2>2. [sub[i] EXCEPT !.drop = drop] \in SubType
    BY <2>1, Zenon DEF SubType
  <2>3. sub' = [sub EXCEPT ![i] = [sub[i] EXCEPT !.drop = drop]]
    BY <1>1
  <2> HIDE DEF SubType
  <2> QED BY <2>1, <2>2, <2>3, Put, Zenon
<1>6. RowTypes' /\ \A j \in Items : j # i => SameRow(j)
  BY <1>1, <1>2, <1>3, <1>4, <1>5, Zenon DEF RowTypes, SameRow
<1>7. ItemOK(i)'
  <2>1. RowOK("ended", reason, last_report[i], attention[i], rounds[i], inputs[i])
    BY <1>2, EndedRow, Zenon DEF ItemOK
  <2> QED BY <1>1, <1>3, <1>4, <2>1, Zenon DEF ItemOK
<1> QED BY <1>1, <1>3, <1>6, <1>7, Zenon

LEMMA RevokeStep == ASSUME Inv, Revoke PROVE Inv'
<1>1. pc[Loop] = "revoke"
  BY Zenon DEF Revoke, FallThrough, At
<1>2. RowTypes /\ ThreadTypes /\ OtherTypes /\ Loop \in Drivers /\ DriverOK(Loop)
  BY InvFacts, Zenon DEF Drivers
<1>3. pc[Loop] \in AtItem /\ pc[Loop] # "turn"
  BY <1>1 DEF AtItem
<1>4. PICK i \in Items : i = at[Loop]
  BY <1>2, <1>3, Zenon DEF DriverOK
<1>5. ItemOK(i) /\ state[i] # "absent" /\ turn[Loop] = "none"
  BY <1>2, <1>3, <1>4, InvFacts, Zenon DEF DriverOK
<1>6. /\ pc' = [pc EXCEPT ![Loop] = "ordinary"] /\ at' = [at EXCEPT ![Loop] = Nobody]
      /\ \/ end_reason[i] \in {"completed", "dropped"} /\ EndFinally(i, "revoked")
         \/ UNCHANGED rows
      /\ UNCHANGED <<seq, turn, outcome, left, message, stop, asked, taken, faults>>
  BY <1>4, Zenon DEF Revoke, FallThrough, At
<1>7. OtherTypes'
  BY <1>2, <1>6, Zenon DEF OtherTypes
<1>8. CASE UNCHANGED rows
  <2>1. UNCHANGED Rows /\ RowTypes'
    BY <1>2, <1>8, Zenon DEF RowTypes, Rows, rows
  <2> HIDE DEF Inv
  <2> QED BY <1>3, <1>6, <1>7, <2>1, LeaveStep, Zenon
<1>9. CASE end_reason[i] \in {"completed", "dropped"} /\ EndFinally(i, "revoked")
  <2>1. ~RunningIn(rounds[i])
    BY <1>5, <1>9, Zenon DEF ItemOK, RowOK
  <2>2. /\ RowTypes' /\ ItemOK(i)' /\ state'[i] = "ended" /\ rounds' = rounds
        /\ \A j \in Items : j # i => SameRow(j)
    <3>1. "revoked" \in {"stopped", "revoked"}
      BY Zenon
    <3> QED BY <1>5, <1>9, <2>1, <3>1, EndRows, Zenon
  <2>3. /\ ThreadTypes' /\ DriverOK(Loop)' /\ pc'[Loop] \notin Holding
        /\ \A e \in Drivers : e # Loop => SameThread(e)
    <3>1. /\ pc' = [pc EXCEPT ![Loop] = "ordinary"] /\ at' = [at EXCEPT ![Loop] = Nobody]
          /\ UNCHANGED <<seq, turn, outcome, left>>
      BY <1>6, Zenon
    <3> QED BY <1>2, <1>5, <3>1, LeaveFacts, Zenon
  <2>4. state'[i] # "absent" /\ stop' = stop
    BY <1>6, <2>2, Zenon
  <2> HIDE DEF Inv
  <2> QED BY <1>2, <1>7, <2>2, <2>3, <2>4, RowStep, Zenon
<1> QED BY <1>6, <1>8, <1>9, Zenon

LEMMA StopEndStep == ASSUME Inv, NEW s \in Stops, StopEnd(s) PROVE Inv'
<1>1. /\ stop[s].pc = "end"
      /\ \/ stop' = [stop EXCEPT ![s].pc = "done"] /\ UNCHANGED rows
         \/ EndFinally(stop[s].item, "stopped") /\ stop' = [stop EXCEPT ![s].pc = "cancel"]
      /\ UNCHANGED <<drives, message, asked, taken, faults>>
  BY Zenon DEF StopEnd
<1>2. RowTypes /\ ThreadTypes /\ OtherTypes /\ Loop \in Drivers
  BY InvFacts, Zenon DEF Drivers
<1>3. stop \in [Stops -> StopType]
  BY <1>2, Zenon DEF OtherTypes
<1>4. PICK i \in Items : i = stop[s].item /\ state[i] # "absent"
  <2>1. StopOK(s)
    BY Zenon DEF Inv
  <2> QED BY <1>1, <2>1, Zenon DEF StopOK
<1>5. ThreadTypes' /\ UNCHANGED <<pc, at, seq, turn>> /\ \A e \in Drivers : SameThread(e)
  BY <1>1, <1>2, Zenon DEF ThreadTypes, SameThread, drives
<1>6. ASSUME NEW to \in StopPcs, stop' = [stop EXCEPT ![s].pc = to]
      PROVE  /\ OtherTypes' /\ stop'[s].pc = to /\ stop'[s].item = i
             /\ \A t \in Stops : t # s => stop'[t] = stop[t]
  <2>1. /\ stop' \in [Stops -> StopType] /\ stop'[s].pc = to /\ stop'[s].item = stop[s].item
        /\ \A t \in Stops : t # s => stop'[t] = stop[t]
    BY <1>3, <1>6, StopDone, ZenonT(30)
  <2>2. /\ stop' \in [Stops -> StopType] /\ stop'[s].pc = to /\ stop'[s].item = i
        /\ \A t \in Stops : t # s => stop'[t] = stop[t]
    BY <1>4, <2>1, Zenon
  <2> QED BY <1>1, <1>2, <2>2, Zenon DEF OtherTypes
<1>7. "done" \in StopPcs /\ "cancel" \in StopPcs
  BY DEF StopPcs
<1>8. ASSUME stop' = [stop EXCEPT ![s].pc = "done"], UNCHANGED rows PROVE Inv'
  <2>1. /\ OtherTypes' /\ stop'[s].pc = "done" /\ \A t \in Stops : t # s => stop'[t] = stop[t]
    BY <1>6, <1>7, <1>8, Zenon
  <2>2. StopOK(s)'
    BY <2>1 DEF StopOK
  <2>3. UNCHANGED Rows /\ RowTypes'
    BY <1>2, <1>8, Zenon DEF RowTypes, Rows, rows
  <2> HIDE DEF Inv
  <2> QED BY <1>5, <2>1, <2>2, <2>3, StopMoves, Zenon
<1>9. ASSUME EndFinally(i, "stopped"), stop' = [stop EXCEPT ![s].pc = "cancel"] PROVE Inv'
  <2>1. OtherTypes' /\ stop'[s].item = i /\ \A t \in Stops : t # s => stop'[t] = stop[t]
    BY <1>6, <1>7, <1>9, Zenon
  <2>2. /\ RowTypes' /\ ItemOK(i)' /\ state'[i] = "ended" /\ rounds' = rounds
        /\ \A j \in Items : j # i => SameRow(j)
    <3>1. "stopped" \in {"stopped", "revoked"} /\ "stopped" # "revoked"
      BY Zenon
    <3> QED BY <1>4, <1>9, <3>1, EndRows, Zenon
  <2>3. state'[i] # "absent" /\ StopOK(s)'
    BY <2>1, <2>2, Zenon DEF StopOK
  <2> HIDE DEF Inv
  <2> QED BY <1>2, <1>5, <2>1, <2>2, <2>3, RowStep, Zenon DEF SameThread
<1> QED BY <1>1, <1>4, <1>8, <1>9, Zenon

-----------------------------------------------------------------------------
(* Starting and settling a round *)

\* The rows of an item change and a thread is at it whose round, if it had
\* or has one, nobody else holds.
LEMMA RoundStep ==
  ASSUME Inv, NEW i \in Items, NEW d \in Drivers, RowTypes', ThreadTypes', OtherTypes',
         ItemOK(i)', state'[i] # "absent", \A j \in Items : j # i => SameRow(j),
         \A e \in Drivers : e # d => SameThread(e), DriverOK(d)',
         \A e \in Drivers : e # d /\ pc[e] \in Holding => at[e] # i,
         pc'[d] \in Holding => at'[d] = i, stop' = stop
  PROVE  Inv'
<1>1. ASSUME NEW e \in Drivers, pc[e] \in Holding PROVE at[e] \in Items
  <2>1. pc[e] \in AtItem /\ DriverOK(e)
    BY <1>1, InvFacts, Zenon DEF AtItem
  <2> QED BY <2>1, Zenon DEF DriverOK
<1>2. Apart'
  BY InvFacts, Zenon DEF Apart, SameThread
<1>3. \A j \in Items : SameRow(j) \/ (ItemOK(j)' /\ state'[j] # "absent")
  BY Zenon
<1>4. \A e \in Drivers : DriverOK(e)' \/
        (SameThread(e) /\ (pc[e] \in Holding => rounds'[at[e]] = rounds[at[e]]))
  BY <1>1, Zenon DEF SameRow
<1> HIDE DEF Inv
<1> QED BY <1>2, <1>3, <1>4, StepKeeps, Zenon

LEMMA HolderRuns ==
  ASSUME Inv, NEW e \in Drivers, pc[e] \in Holding
  PROVE  /\ at[e] \in Items /\ state[at[e]] # "absent" /\ RunningIn(rounds[at[e]])
         /\ seq[e] = Len(rounds[at[e]]) /\ Len(rounds[at[e]]) \in DOMAIN rounds[at[e]]
         /\ rounds[at[e]][Len(rounds[at[e]])] = "running"
<1>1. pc[e] \in AtItem /\ DriverOK(e) /\ RowTypes
  BY InvFacts, Zenon DEF AtItem
<1>2. at[e] \in Items /\ RunningIn(rounds[at[e]]) /\ seq[e] = Len(rounds[at[e]])
  BY <1>1, Zenon DEF DriverOK
<1>3. rounds[at[e]] \in Seq(RoundStates)
  BY <1>1, <1>2, Zenon DEF RowTypes
<1>4. rounds[at[e]] # << >> => Len(rounds[at[e]]) \in DOMAIN rounds[at[e]]
  <2> HIDE DEF RoundStates
  <2> QED BY <1>3, Elem, Zenon
<1> QED BY <1>1, <1>2, <1>4, Zenon DEF RunningIn, DriverOK

LEMMA SettleRowsKeep ==
  ASSUME Inv, NEW i \in Items, state[i] # "absent", RunningIn(rounds[i]),
         NEW o \in OutcomeType, SettleRows(i, Len(rounds[i]), o)
  PROVE  /\ RowTypes' /\ ItemOK(i)' /\ state'[i] # "absent"
         /\ \A j \in Items : j # i => SameRow(j)
         /\ Len(rounds'[i]) = Len(rounds[i]) /\ inputs' = inputs /\ sub' = sub /\ Settled(i, o)
<1>1. RowTypes /\ ItemOK(i)
  BY InvFacts, Zenon
<1> DEFINE k == Len(rounds[i])
           v == IF o.report = "error" THEN "failed" ELSE "settled"
           over == [rounds[i] EXCEPT ![k] = v]
<1>2. /\ rounds' = [rounds EXCEPT ![i] = over]
      /\ Settled(i, o)
      /\ last_report' = IF o.report = "error" THEN last_report
                        ELSE [last_report EXCEPT ![i] = o.report]
      /\ attention' = [attention EXCEPT ![i] = @ \/ o.asks]
      /\ UNCHANGED <<sender, inputs, sub>>
  BY DEF SettleRows, RunningIn
<1>3. o.report \in Reports \cup {"none", "error"} /\ o.asks \in BOOLEAN
  BY Zenon DEF OutcomeType
<1>4. /\ state' \in [Items -> {"absent", "open", "ended"}] /\ end_reason' \in [Items -> Reasons]
      /\ state'[i] # "absent" /\ (state'[i] = "ended" <=> end_reason'[i] # "none")
      /\ \A j \in Items : j # i => state'[j] = state[j] /\ end_reason'[j] = end_reason[j]
  <2>1. state[i] = "ended" <=> end_reason[i] # "none"
    BY <1>1, Zenon DEF ItemOK, RowOK
  <2>2. state \in [Items -> {"absent", "open", "ended"}] /\ end_reason \in [Items -> Reasons]
    BY <1>1, Zenon DEF RowTypes
  <2>3. CASE UNCHANGED <<state, end_reason>>
    BY <2>1, <2>2, <2>3, Zenon
  <2>4. CASE /\ state' = [state EXCEPT ![i] = IF EndedBy(o.report) = "none" THEN "open" ELSE "ended"]
             /\ end_reason' = [end_reason EXCEPT ![i] = EndedBy(o.report)]
    <3> DEFINE st == IF EndedBy(o.report) = "none" THEN "open" ELSE "ended"
               re == EndedBy(o.report)
    <3>1. re \in Reasons
      BY DEF EndedBy, Reasons
    <3>2. st \in {"absent", "open", "ended"} /\ st # "absent" /\ (st = "ended" <=> re # "none")
      BY Zenon
    <3>3. state' = [state EXCEPT ![i] = st] /\ end_reason' = [end_reason EXCEPT ![i] = re]
      BY <2>4, Zenon
    <3> HIDE DEF st, re
    <3>4. /\ state' \in [Items -> {"absent", "open", "ended"}] /\ state'[i] = st
          /\ \A j \in Items : j # i => state'[j] = state[j]
      BY <2>2, <3>2, <3>3, Put, Zenon
    <3>5. /\ end_reason' \in [Items -> Reasons] /\ end_reason'[i] = re
          /\ \A j \in Items : j # i => end_reason'[j] = end_reason[j]
      BY <2>2, <3>1, <3>3, Put, Zenon
    <3> QED BY <3>2, <3>4, <3>5, Zenon
  <2> QED BY <1>2, <2>3, <2>4, Zenon DEF Settled
<1>5. /\ over \in Seq(RoundStates) /\ Len(over) = Len(rounds[i])
      /\ RowOK(state'[i], end_reason'[i], last_report'[i], attention'[i], over, inputs[i])
  <2>1. rounds[i] \in Seq(RoundStates)
    BY <1>1, Zenon DEF RowTypes
  <2>2. v \in RoundStates /\ v # "running"
    BY Zenon DEF RoundStates
  <2> HIDE DEF v, RoundStates
  <2>3. RowOK(state[i], end_reason[i], last_report[i], attention[i], rounds[i], inputs[i])
    BY <1>1, Zenon DEF ItemOK
  <2>4. state'[i] # "absent" /\ (state'[i] = "ended" <=> end_reason'[i] # "none")
    BY <1>4, Zenon
  <2>5. over = [rounds[i] EXCEPT ![Len(rounds[i])] = v]
    BY Zenon
  <2> HIDE DEF over, k
  <2>6. /\ over \in Seq(RoundStates) /\ Len(over) = Len(rounds[i])
        /\ ~RunningIn(over) /\ \A n \in DOMAIN over : over[n] # "running"
    <3>1. rounds[i] # << >> /\ \A n \in DOMAIN rounds[i] : rounds[i][n] = "running" => n = Len(rounds[i])
      BY <2>3, Zenon DEF RunningIn, RowOK
    <3> QED BY <2>1, <2>2, <2>5, <3>1, OverRounds, Zenon
  <2>7. \A st2, reason2, report2, asks2 :
          st2 # "absent" /\ (st2 = "ended" <=> reason2 # "none") =>
            RowOK(st2, reason2, report2, asks2, over, inputs[i])
    BY <2>3, <2>6, SettledRow, Zenon
  <2> QED BY <2>4, <2>6, <2>7, Zenon
<1> HIDE DEF over, v
<1>6. /\ rounds' \in [Items -> Seq(RoundStates)] /\ rounds'[i] = over
      /\ \A j \in Items : j # i => rounds'[j] = rounds[j]
  <2>1. rounds \in [Items -> Seq(RoundStates)]
    BY <1>1, Zenon DEF RowTypes
  <2> QED BY <1>2, <1>5, <2>1, Put, Zenon
<1>7. /\ last_report' \in [Items -> Reports \cup {"none"}]
      /\ \A j \in Items : j # i => last_report'[j] = last_report[j]
  <2>1. last_report \in [Items -> Reports \cup {"none"}]
    BY <1>1, Zenon DEF RowTypes
  <2>2. CASE o.report = "error"
    BY <1>2, <2>1, <2>2, Zenon
  <2>3. CASE o.report # "error"
    <3>1. o.report \in Reports \cup {"none"} /\ last_report' = [last_report EXCEPT ![i] = o.report]
      BY <1>2, <1>3, <2>3, Zenon
    <3> QED BY <2>1, <3>1, Put, Zenon
  <2> QED BY <2>2, <2>3, Zenon
<1>8. /\ attention' \in [Items -> BOOLEAN]
      /\ \A j \in Items : j # i => attention'[j] = attention[j]
  <2>1. attention \in [Items -> BOOLEAN] /\ attention' = [attention EXCEPT ![i] = attention[i] \/ o.asks]
    BY <1>1, <1>2, Zenon DEF RowTypes
  <2>2. (attention[i] \/ o.asks) \in BOOLEAN
    BY Zenon
  <2> QED BY <2>1, <2>2, Put, Zenon
<1>9. MaxRoundsPerHour > 0 => \A j \in Items : Len(rounds'[j]) <= MaxRoundsPerHour
  BY <1>1, <1>5, <1>6, Zenon DEF RowTypes
<1>10. RowTypes'
  BY <1>1, <1>2, <1>4, <1>6, <1>7, <1>8, <1>9, Zenon DEF RowTypes
<1>11. ItemOK(i)'
  BY <1>2, <1>5, <1>6, Zenon DEF ItemOK
<1>12. \A j \in Items : j # i => SameRow(j)
  BY <1>2, <1>4, <1>6, <1>7, <1>8, Zenon DEF SameRow
<1> QED BY <1>2, <1>4, <1>5, <1>6, <1>10, <1>11, <1>12, Zenon

LEMMA SettleStep == ASSUME Inv, NEW d \in Drivers, Settle(d) PROVE Inv'
<1>1. pc[d] \in {"settle", "settle_refused"}
  BY Zenon DEF Settle
<1>2. /\ pc[d] \in AtItem /\ pc[d] \in Holding /\ pc[d] # "turn" /\ "due" \in PcType
      /\ "due" \notin Holding /\ "due" # "admit_first" /\ "due" # "turn"
  BY <1>1 DEF AtItem, Holding, PcType
<1>3. ThreadTypes /\ RowTypes /\ OtherTypes /\ DriverOK(d) /\ Apart
  BY InvFacts, Zenon
<1>4. PICK i \in Items : i = at[d]
  BY <1>2, HolderRuns, Zenon
<1>5. /\ state[i] # "absent" /\ RunningIn(rounds[i]) /\ seq[d] = Len(rounds[i])
      /\ turn[d] = "none" /\ (d \in Items => i = d)
  BY <1>2, <1>3, <1>4, HolderRuns, Zenon DEF DriverOK
<1>6. /\ \/ pc' = [pc EXCEPT ![d] = "due"] /\ UNCHANGED <<at, seq>> /\ UNCHANGED left
         \/ Finish(d) /\ left' = [left EXCEPT ![i] = "refused"]
      /\ \/ SettleRows(i, Len(rounds[i]), outcome[d]) /\ UNCHANGED faults
         \/ faults < MaxFaults /\ faults' = faults + 1 /\ UNCHANGED rows
      /\ outcome' = [outcome EXCEPT ![d] = NoOutcome]
      /\ UNCHANGED <<turn, message, stop, asked, taken>>
  BY <1>4, <1>5, Zenon DEF Settle, AfterRound
<1>7. outcome[d] \in OutcomeType /\ outcome' \in [Drivers -> OutcomeType]
  <2>1. NoOutcome \in OutcomeType
    BY DEF NoOutcome, OutcomeType
  <2>2. outcome \in [Drivers -> OutcomeType] /\ outcome' = [outcome EXCEPT ![d] = NoOutcome]
    BY <1>3, <1>6, Zenon DEF ThreadTypes
  <2> QED BY <2>1, <2>2, Put, Zenon
<1>8. left' \in [Items -> {"no", "held_back", "refused"}]
  <2>1. "refused" \in Lefts
    BY DEF Lefts
  <2>2. left' = left \/ left' = [left EXCEPT ![i] = "refused"]
    BY <1>6, Zenon
  <2> QED BY <1>3, <2>1, <2>2, LeftFacts, Zenon DEF Lefts
<1>9. OtherTypes' /\ turn' = turn /\ stop' = stop
  <2>1. faults' = faults \/ (faults < MaxFaults /\ faults' = faults + 1)
    BY <1>6, Zenon
  <2>2. UNCHANGED <<turn, message, stop, asked, taken>>
    BY <1>6, Zenon
  <2> QED BY <1>3, <2>1, <2>2, OneMoreFault, Zenon DEF OtherTypes
<1>10. /\ RowTypes' /\ ItemOK(i)' /\ state'[i] # "absent"
       /\ \A j \in Items : j # i => SameRow(j)
  <2>1. CASE SettleRows(i, Len(rounds[i]), outcome[d])
    BY <1>5, <1>7, <2>1, SettleRowsKeep, Zenon
  <2>2. CASE UNCHANGED rows
    <3>1. ItemOK(i)
      BY InvFacts, Zenon
    <3> QED BY <1>3, <1>5, <2>2, <3>1, Zenon DEF RowTypes, ItemOK, SameRow, rows
  <2> QED BY <1>6, <2>1, <2>2, Zenon
<1>11. /\ ThreadTypes' /\ DriverOK(d)' /\ pc'[d] \notin Holding
       /\ \A e \in Drivers : e # d => SameThread(e)
  <2>1. CASE Finish(d)
    <3>1. /\ pc' \in [Drivers -> PcType] /\ at' \in [Drivers -> Items \cup {Nobody}]
          /\ seq' \in [Drivers -> Nat]
          /\ pc'[d] \notin AtItem /\ DriverOK(d)'
          /\ \A e \in Drivers : e # d => SameThread(e)
      BY <1>3, <1>5, <1>9, <2>1, FinishFacts, Zenon
    <3> QED BY <1>3, <1>7, <1>8, <1>9, <3>1, Zenon DEF ThreadTypes, AtItem
  <2>2. CASE pc' = [pc EXCEPT ![d] = "due"] /\ UNCHANGED <<at, seq>>
    <3>1. /\ pc' \in [Drivers -> PcType] /\ pc'[d] = "due"
          /\ \A e \in Drivers : e # d => pc'[e] = pc[e]
      BY <1>2, <1>3, <2>2, MoveFacts, Zenon
    <3>2. ThreadTypes' /\ \A e \in Drivers : e # d => SameThread(e)
      BY <1>3, <1>7, <1>8, <1>9, <2>2, <3>1, Zenon DEF ThreadTypes, SameThread
    <3>3. DriverOK(d)'
      BY <1>2, <1>4, <1>5, <1>9, <1>10, <2>2, <3>1, Zenon DEF DriverOK
    <3> QED BY <1>2, <3>1, <3>2, <3>3, Zenon
  <2> QED BY <1>6, <2>1, <2>2, Zenon
<1>12. \A e \in Drivers : e # d /\ pc[e] \in Holding => at[e] # i
  BY <1>2, <1>3, <1>4, Zenon DEF Apart
<1> HIDE DEF Inv
<1> QED BY <1>9, <1>10, <1>11, <1>12, RoundStep, Zenon

LEMMA RoundRows ==
  ASSUME Inv, NEW i \in Items, Due(i), Startable(i), NextRound(i)
  PROVE  /\ RowTypes' /\ ItemOK(i)' /\ state'[i] # "absent"
         /\ RunningIn(rounds'[i]) /\ Len(rounds'[i]) = Len(rounds[i]) + 1
         /\ \A j \in Items : j # i => SameRow(j)
<1>1. RowTypes /\ ItemOK(i)
  BY InvFacts, Zenon
<1>2. /\ rounds \in [Items -> Seq(RoundStates)] /\ rounds[i] \in Seq(RoundStates)
      /\ inputs \in [Items -> Seq(InputType)] /\ inputs[i] \in Seq(InputType)
      /\ attention \in [Items -> BOOLEAN] /\ attention[i] \in BOOLEAN
  <2> HIDE DEF RoundStates, InputType
  <2> QED BY <1>1, Zenon DEF RowTypes
<1> DEFINE n == Len(rounds[i])
           P == Pending(i)
           more == Append(rounds[i], "running")
           read == ReadFrom(inputs[i], P, n + 1)
           after == attention[i] /\ ~\E m \in P : inputs[i][m].person
<1>3. n \in Nat /\ n + 1 \in Nat
  <2>1. n \in Nat
    <3> HIDE DEF RoundStates
    <3> QED BY <1>2, Elem, Zenon
  <2> QED BY <2>1, Numbers, Zenon
<1>4. /\ rounds' = [rounds EXCEPT ![i] = more] /\ inputs' = [inputs EXCEPT ![i] = read]
      /\ attention' = [attention EXCEPT ![i] = after]
      /\ UNCHANGED <<state, end_reason, sender, last_report, sub>>
  BY Zenon DEF NextRound, PersonPending, ReadFrom
<1>5. more \in Seq(RoundStates) /\ Grown(rounds[i], more, n + 1)
  <2> HIDE DEF RoundStates
  <2> QED BY <1>2, GrownRounds, Zenon
<1>6. read \in Seq(InputType) /\ ReadFor(inputs[i], P, n + 1, read)
  <2> HIDE DEF InputType, P, n
  <2> QED BY <1>2, <1>3, ReadInputs, Zenon
<1>7. Wait(inputs[i], P, last_report[i], attention[i]) /\ after = FALSE
  BY Zenon DEF Wait, Due, Wanted, Held, Pending, PersonPending
<1>8. /\ state[i] = "open" /\ \A k \in DOMAIN rounds[i] : rounds[i][k] # "running"
      /\ RowOK("open", end_reason[i], last_report[i], attention[i], rounds[i], inputs[i])
  <2>1. state[i] = "open" /\ \A k \in DOMAIN rounds[i] : rounds[i][k] # "running"
    BY Zenon DEF Startable
  <2> QED BY <1>1, <2>1, Zenon DEF ItemOK
<1> HIDE DEF P, more, read, after
<1>9. RowOK("open", end_reason[i], last_report[i], after, more, read)
  <2>1. RowOK("open", end_reason[i], last_report[i], FALSE, more, read)
    BY <1>3, <1>5, <1>6, <1>7, <1>8, StartedRow, Zenon
  <2> QED BY <1>7, <2>1, Zenon
<1>10. after \in BOOLEAN
  BY <1>7, Zenon
<1>11. /\ rounds' \in [Items -> Seq(RoundStates)] /\ rounds'[i] = more
       /\ \A j \in Items : j # i => rounds'[j] = rounds[j]
  <2> HIDE DEF RoundStates
  <2> QED BY <1>2, <1>4, <1>5, Put, Zenon
<1>12. /\ inputs' \in [Items -> Seq(InputType)] /\ inputs'[i] = read
       /\ \A j \in Items : j # i => inputs'[j] = inputs[j]
  <2> HIDE DEF InputType
  <2> QED BY <1>2, <1>4, <1>6, Put, Zenon
<1>13. /\ attention' \in [Items -> BOOLEAN] /\ attention'[i] = after
       /\ \A j \in Items : j # i => attention'[j] = attention[j]
  BY <1>2, <1>4, <1>10, Put, Zenon
<1>14. MaxRoundsPerHour > 0 => \A j \in Items : Len(rounds'[j]) <= MaxRoundsPerHour
  <2>1. MaxRoundsPerHour > 0 => n + 1 <= MaxRoundsPerHour
    BY <1>3, WorkItemsAssumption DEF Due, HourlyCap
  <2> QED BY <1>1, <1>5, <1>11, <2>1, Zenon DEF RowTypes, Grown
<1>15. RowTypes'
  BY <1>1, <1>4, <1>11, <1>12, <1>13, <1>14, Zenon DEF RowTypes
<1>16. ItemOK(i)' /\ state'[i] # "absent"
  <2>1. "open" # "absent"
    BY Zenon
  <2> QED BY <1>4, <1>8, <1>9, <1>11, <1>12, <1>13, <2>1, Zenon DEF ItemOK
<1>17. RunningIn(rounds'[i]) /\ Len(rounds'[i]) = Len(rounds[i]) + 1
  BY <1>5, <1>11, Zenon DEF RunningIn, Grown
<1>18. \A j \in Items : j # i => SameRow(j)
  BY <1>4, <1>11, <1>12, <1>13, Zenon DEF SameRow
<1> QED BY <1>15, <1>16, <1>17, <1>18, Zenon

LEMMA StartRoundStep == ASSUME Inv, NEW d \in Drivers, StartRound(d) PROVE Inv'
<1>1. pc[d] = "start"
  BY Zenon DEF StartRound
<1>2. /\ pc[d] \in AtItem /\ pc[d] # "turn" /\ "turn" # "admit_first" /\ "turn" \in AtItem
  BY <1>1 DEF AtItem, Holding
<1>3. ThreadTypes /\ RowTypes /\ OtherTypes /\ DriverOK(d)
  BY InvFacts, Zenon
<1>4. PICK i \in Items : i = at[d]
  BY <1>2, <1>3, Zenon DEF DriverOK
<1>5. d \in Items => i = d
  BY <1>2, <1>3, <1>4, Zenon DEF DriverOK
<1>6. /\ \/ /\ Due(i) /\ Startable(i) /\ NextRound(i) /\ Begin(d, i, Len(rounds[i]) + 1)
            /\ left' = [left EXCEPT ![i] = "no"]
         \/ /\ Finish(d) /\ UNCHANGED <<rows, turn>>
            /\ left' \in {left, [left EXCEPT ![i] = "held_back"]}
      /\ UNCHANGED <<outcome, message, stop, asked, taken, faults>>
  BY <1>4, Zenon DEF StartRound
<1>7. UNCHANGED <<outcome, message, stop, asked, taken, faults>>
  BY <1>6, Zenon
<1>8. OtherTypes'
  BY <1>3, <1>7, Zenon DEF OtherTypes
<1>9. left' \in [Items -> {"no", "held_back", "refused"}]
  <2>1. "no" \in Lefts /\ "held_back" \in Lefts
    BY DEF Lefts
  <2>2. left' = left \/ left' = [left EXCEPT ![i] = "no"] \/ left' = [left EXCEPT ![i] = "held_back"]
    BY <1>6, Zenon
  <2> QED BY <1>3, <2>1, <2>2, LeftFacts, Zenon DEF Lefts
<1>10. CASE Finish(d) /\ UNCHANGED <<rows, turn>>
  <2>1. UNCHANGED Rows /\ RowTypes' /\ turn' = turn
    BY <1>3, <1>10, Zenon DEF RowTypes, Rows, rows
  <2> HIDE DEF Inv
  <2> QED BY <1>2, <1>3, <1>7, <1>8, <1>9, <1>10, <2>1, FinishStep, Zenon DEF ThreadTypes
<1>11. CASE Due(i) /\ Startable(i) /\ NextRound(i) /\ Begin(d, i, Len(rounds[i]) + 1)
  <2> DEFINE k == Len(rounds[i]) + 1
  <2>1. k \in Nat
    <3>1. rounds[i] \in Seq(RoundStates)
      BY <1>3, Zenon DEF RowTypes
    <3> HIDE DEF RoundStates
    <3> QED BY <3>1, Elem, Numbers, Zenon
  <2>2. /\ RowTypes' /\ ItemOK(i)' /\ state'[i] # "absent"
        /\ RunningIn(rounds'[i]) /\ Len(rounds'[i]) = k
        /\ \A j \in Items : j # i => SameRow(j)
    BY <1>11, RoundRows, Zenon
  <2>3. Begin(d, i, k)
    BY <1>11, Zenon
  <2>4. k = Len(rounds'[i])
    BY <2>2, Zenon
  <2> HIDE DEF k
  <2>5. /\ pc' \in [Drivers -> PcType] /\ at' \in [Drivers -> Items \cup {Nobody}]
        /\ seq' \in [Drivers -> Nat] /\ turn' \in [Drivers -> TurnType]
        /\ pc'[d] = "turn" /\ at'[d] = i /\ seq'[d] = k
        /\ \A e \in Drivers : e # d => SameThread(e)
    BY <1>3, <2>1, <2>3, BeginFacts, Zenon
  <2>6. ThreadTypes'
    BY <1>3, <1>7, <1>9, <2>5, Zenon DEF ThreadTypes
  <2>7. DriverOK(d)'
    BY <1>2, <1>5, <2>2, <2>4, <2>5, Zenon DEF DriverOK
  <2>8. \A e \in Drivers : e # d /\ pc[e] \in Holding => at[e] # i
    <3>1. \A m \in DOMAIN rounds[i] : rounds[i][m] # "running"
      BY <1>11, Zenon DEF Startable
    <3> QED BY <3>1, HolderRuns, Zenon
  <2>9. stop' = stop
    BY <1>7, Zenon
  <2> HIDE DEF Inv
  <2> QED BY <1>8, <2>2, <2>5, <2>6, <2>7, <2>8, <2>9, RoundStep, Zenon
<1> QED BY <1>6, <1>10, <1>11, Zenon

-----------------------------------------------------------------------------
(* The invariant holds *)

LEMMA InvInit == ASSUME Init PROVE Inv /\ Fresh
<1>1. /\ state = [i \in Items |-> "absent"] /\ end_reason = [i \in Items |-> "none"]
      /\ sender = [i \in Items |-> Nobody] /\ last_report = [i \in Items |-> "none"]
      /\ attention = [i \in Items |-> FALSE] /\ rounds = [i \in Items |-> << >>]
      /\ inputs = [i \in Items |-> << >>] /\ sub = [i \in Items |-> NoSub]
  BY Zenon DEF Init
<1>2. /\ pc = [d \in Drivers |-> "idle"] /\ at = [d \in Drivers |-> Nobody]
      /\ seq = [d \in Drivers |-> 0] /\ turn = [d \in Drivers |-> "none"]
      /\ outcome = [d \in Drivers |-> NoOutcome] /\ left = [i \in Items |-> "no"]
  BY Zenon DEF Init
<1>3. /\ message = NoMessage /\ asked = {} /\ taken = 0 /\ faults = 0
      /\ stop = [s \in Stops |-> [pc |-> "idle", item |-> Nobody, running |-> FALSE, seq |-> 0]]
  BY Zenon DEF Init
<1>4. RowTypes
  <2>1. << >> \in Seq(RoundStates) /\ << >> \in Seq(InputType) /\ Len(<< >>) = 0
    <3> HIDE DEF RoundStates, InputType
    <3> QED OBVIOUS
  <2>2. MaxRoundsPerHour > 0 => 0 <= MaxRoundsPerHour
    BY WorkItemsAssumption
  <2>3. "none" \in Reasons /\ "absent" \in {"absent", "open", "ended"}
    BY DEF Reasons
  <2>4. MaxRoundsPerHour > 0 => \A i \in Items : Len(rounds[i]) <= MaxRoundsPerHour
    BY <1>1, <2>1, <2>2, Zenon
  <2> QED BY <1>1, <2>1, <2>3, <2>4, NoSubType, Zenon DEF RowTypes
<1>5. ThreadTypes
  <2>1. "idle" \in PcType /\ "none" \in TurnType /\ NoOutcome \in OutcomeType /\ 0 \in Nat
    BY DEF PcType, TurnType, NoOutcome, OutcomeType
  <2> QED BY <1>2, <2>1, Zenon DEF ThreadTypes
<1>6. OtherTypes
  <2>1. [pc |-> "idle", item |-> Nobody, running |-> FALSE, seq |-> 0] \in StopType
    BY DEF StopType
  <2>2. 0 \in 0..MaxMessages /\ 0 \in 0..MaxFaults
    BY WorkItemsAssumption
  <2> QED BY <1>3, <2>1, <2>2, NoMessageType, Zenon DEF OtherTypes
<1>7. ASSUME NEW i \in Items PROVE ItemOK(i)
  <2>1. ~RunningIn(<< >>) /\ DOMAIN << >> = {} /\ 2..Len(<< >>) = {}
    BY DEF RunningIn
  <2>2. "absent" # "ended" /\ "none" \notin {"completed", "dropped", "revoked"}
    BY Zenon
  <2>3. RowOK("absent", "none", "none", FALSE, << >>, << >>)
    BY <2>1, <2>2, Zenon DEF RowOK
  <2> QED BY <1>1, <2>3, Zenon DEF ItemOK
<1>8. "idle" \notin AtItem /\ "idle" \notin Holding /\ "idle" # "admit_first"
  BY DEF AtItem, Holding
<1>9. (\A d \in Drivers : DriverOK(d)) /\ Apart
  BY <1>2, <1>8, Zenon DEF DriverOK, Apart
<1>10. \A s \in Stops : StopOK(s)
  BY <1>3 DEF StopOK
<1>11. Fresh
  BY <1>1 DEF Fresh, NoSub
<1> QED BY <1>4, <1>5, <1>6, <1>7, <1>9, <1>10, <1>11, TypesApart, Zenon DEF Inv

LEMMA InvStep == ASSUME Inv, Fresh, Next PROVE Inv'
<1> HIDE DEF Inv
<1>1. ASSUME NEW i \in Items, OpenApi(i) \/ FirstRound(i) \/ AddOther(i) PROVE Inv'
  BY <1>1, OpenApiStep, FirstRoundStep, AddOtherStep, Zenon
<1>2. ASSUME Route PROVE Inv'
  BY <1>2, LookupStep, SummaryStep, ReopenStep, RevokeStep, AddInputStep, OrdinaryEndsStep, Zenon
     DEF Route
<1>3. ASSUME NEW d \in Drivers, Drive(d) PROVE Inv'
  BY <1>3, LookStep, StartRoundStep, TurnGoesStep, TurnEndsStep, SettleStep, Zenon DEF Drive
<1>4. ASSUME NEW s \in Stops, (\E i \in Items : StopRead(s, i)) \/ StopEnd(s) \/ StopCancel(s)
      PROVE  Inv'
  BY <1>4, StopReadStep, StopEndStep, StopCancelStep, Zenon
<1> QED BY <1>1, <1>2, <1>3, <1>4, OpenToolStep, ReceiveStep, CrashStep, Zenon DEF Next

LEMMA InvStutters == ASSUME Inv, UNCHANGED vars PROVE Inv'
<1>1. RowTypes /\ ThreadTypes /\ OtherTypes
  BY InvFacts, Zenon
<1>2. /\ UNCHANGED <<Rows, pc, at, seq, turn>> /\ stop' = stop
      /\ RowTypes' /\ ThreadTypes' /\ OtherTypes'
  BY <1>1, Zenon DEF vars, rows, drives, Rows, RowTypes, ThreadTypes, OtherTypes
<1> HIDE DEF Inv
<1> QED BY <1>2, StopMoves, Zenon

-----------------------------------------------------------------------------
(* What a step does to the rows of an item *)

Final == {"stopped", "revoked"}
Own == {"completed", "dropped"}

Opened(i) ==
  state[i] = "absent" /\ ~AtOpenCap /\ state'[i] = "open" /\ end_reason'[i] = end_reason[i]
Reopened(i) ==
  /\ end_reason[i] \in Own /\ ~AtOpenCap /\ state'[i] = "open" /\ end_reason'[i] = "none"
  /\ pc[Loop] = "reopen" /\ at[Loop] = i
Ended(i) ==
  /\ state'[i] = "ended" /\ end_reason'[i] \in Final
  /\ end_reason[i] \in Final => end_reason'[i] = "stopped"
  /\ rounds'[i] = rounds[i] /\ inputs'[i] = inputs[i]
\* add_input, start_work_item_round, and settle_work_item_round of an item that
\* has not ended.
Went(i) ==
  /\ state[i] = "open" /\ state'[i] # "absent"
  /\ state'[i] = "open" => end_reason'[i] = end_reason[i]
\* settle_work_item_round of one that has ended finally.
Counted(i) ==
  /\ UNCHANGED <<state, end_reason>>
  /\ Len(rounds'[i]) = Len(rounds[i]) /\ inputs'[i] = inputs[i]
RowChange(i) == Opened(i) \/ Reopened(i) \/ Ended(i) \/ Went(i) \/ Counted(i)

OneRow ==
  \/ \A i \in Items : SameRow(i)
  \/ \E i \in Items : RowChange(i) /\ \A j \in Items : j # i => SameRow(j)

LEMMA Unchanged == ASSUME UNCHANGED Rows PROVE OneRow
BY Zenon DEF Rows, OneRow, SameRow

LEMMA OpenRow ==
  ASSUME Inv, NEW i \in Items, OpenApi(i) \/ \E subscribe \in BOOLEAN : OpenTool(i, subscribe)
  PROVE  OneRow
<1>1. PICK author, owner : CreateItem(i, author, owner)
  BY Zenon DEF OpenApi, OpenTool
<1>2. /\ state[i] = "absent" /\ ~AtOpenCap /\ state' = [state EXCEPT ![i] = "open"]
      /\ rounds' = [rounds EXCEPT ![i] = <<"running">>]
      /\ UNCHANGED <<end_reason, last_report, attention, inputs>>
  BY <1>1, Zenon DEF CreateItem
<1>3. state \in [Items -> {"absent", "open", "ended"}] /\ rounds \in [Items -> Seq(RoundStates)]
  BY InvFacts, Zenon DEF RowTypes
<1>4. state'[i] = "open" /\ \A j \in Items : j # i => state'[j] = state[j] /\ rounds'[j] = rounds[j]
  BY <1>2, <1>3, Zenon
<1> QED BY <1>2, <1>4, Zenon DEF OneRow, RowChange, Opened, SameRow

LEMMA AddRow == ASSUME Inv, AddInput \/ \E i \in Items : AddOther(i) PROVE OneRow
<1>1. CASE UNCHANGED Rows
  BY <1>1, Unchanged, Zenon
<1>2. ASSUME NEW i \in Items, NEW row, state[i] = "open",
             inputs' = [inputs EXCEPT ![i] = Append(@, row)],
             UNCHANGED <<state, end_reason, last_report, attention, rounds>>
      PROVE  OneRow
  <2>1. inputs \in [Items -> Seq(InputType)]
    BY InvFacts, Zenon DEF RowTypes
  <2>2. \A j \in Items : j # i => inputs'[j] = inputs[j]
    <3> HIDE DEF InputType
    <3> QED BY <1>2, <2>1
  <2>3. Went(i) /\ \A j \in Items : j # i => SameRow(j)
    BY <1>2, <2>2, Zenon DEF Went, SameRow
  <2> QED BY <2>3, Zenon DEF OneRow, RowChange
<1>3. ASSUME NEW i \in Items, AddOther(i) PROVE OneRow
  BY <1>2, <1>3, Zenon DEF AddOther
<1>4. ASSUME AddInput PROVE OneRow
  <2>1. at[Loop] \in Items
    <3>1. pc[Loop] = "add"
      BY <1>4, Zenon DEF AddInput
    <3>2. pc[Loop] \in AtItem
      BY <3>1 DEF AtItem
    <3>3. Loop \in Drivers
      BY Zenon DEF Drivers
    <3> QED BY <3>2, <3>3, InvFacts, Zenon DEF DriverOK
  <2>2. \/ /\ state[at[Loop]] = "open"
           /\ inputs' = [inputs EXCEPT ![at[Loop]] = Append(@, Recorded(at[Loop], TRUE))]
        \/ UNCHANGED inputs
    BY <1>4, Zenon DEF AddInput
  <2>3. UNCHANGED <<state, end_reason, last_report, attention, rounds>>
    BY <1>4, Zenon DEF AddInput
  <2>4. CASE UNCHANGED inputs
    BY <1>1, <2>3, <2>4, Zenon DEF Rows
  <2>5. CASE /\ state[at[Loop]] = "open"
             /\ inputs' = [inputs EXCEPT ![at[Loop]] = Append(@, Recorded(at[Loop], TRUE))]
    BY <1>2, <2>1, <2>3, <2>5, Zenon
  <2> QED BY <2>2, <2>4, <2>5, Zenon
<1> QED BY <1>3, <1>4, Zenon

LEMMA ReopenRow == ASSUME Inv, Reopen PROVE OneRow
<1>1. pc[Loop] = "reopen" /\ UNCHANGED <<last_report, attention, rounds, inputs>>
  BY Zenon DEF Reopen
<1>2. at[Loop] \in Items
  <2>1. pc[Loop] \in AtItem /\ Loop \in Drivers
    BY <1>1 DEF AtItem, Drivers
  <2> QED BY <2>1, InvFacts, Zenon DEF DriverOK
<1>3. PICK i \in Items : i = at[Loop]
  BY <1>2, Zenon
<1>4. \/ /\ ~AtOpenCap /\ end_reason[i] \in Own
         /\ state' = [state EXCEPT ![i] = "open"] /\ end_reason' = [end_reason EXCEPT ![i] = "none"]
      \/ UNCHANGED <<state, end_reason>>
  BY <1>3, Zenon DEF Reopen, Reopens, Own
<1>5. CASE UNCHANGED <<state, end_reason>>
  BY <1>1, <1>5, Unchanged, Zenon DEF Rows
<1>6. ASSUME ~AtOpenCap, end_reason[i] \in Own,
             state' = [state EXCEPT ![i] = "open"], end_reason' = [end_reason EXCEPT ![i] = "none"]
      PROVE  OneRow
  <2>1. state \in [Items -> {"absent", "open", "ended"}] /\ end_reason \in [Items -> Reasons]
    BY InvFacts, Zenon DEF RowTypes
  <2>2. /\ state'[i] = "open" /\ end_reason'[i] = "none"
        /\ \A j \in Items : j # i => state'[j] = state[j] /\ end_reason'[j] = end_reason[j]
    BY <1>6, <2>1, Zenon
  <2>3. Reopened(i) /\ \A j \in Items : j # i => SameRow(j)
    BY <1>1, <1>3, <1>6, <2>2, Zenon DEF Reopened, SameRow
  <2> QED BY <2>3, Zenon DEF OneRow, RowChange
<1> QED BY <1>4, <1>5, <1>6, Zenon

LEMMA EndRow ==
  ASSUME Inv, NEW i \in Items, NEW reason \in Final, EndFinally(i, reason),
         end_reason[i] \in Final => reason = "stopped"
  PROVE  OneRow
<1>1. /\ state' = [state EXCEPT ![i] = "ended"] /\ end_reason' = [end_reason EXCEPT ![i] = reason]
      /\ UNCHANGED <<last_report, attention, rounds, inputs>>
  BY Zenon DEF EndFinally
<1>2. state \in [Items -> {"absent", "open", "ended"}] /\ end_reason \in [Items -> Reasons]
  BY InvFacts, Zenon DEF RowTypes
<1>3. /\ state'[i] = "ended" /\ end_reason'[i] = reason
      /\ \A j \in Items : j # i => state'[j] = state[j] /\ end_reason'[j] = end_reason[j]
  BY <1>1, <1>2, Zenon
<1>4. Ended(i) /\ \A j \in Items : j # i => SameRow(j)
  BY <1>1, <1>3, Zenon DEF Ended, SameRow
<1> QED BY <1>4, Zenon DEF OneRow, RowChange

LEMMA RevokeRow == ASSUME Inv, Revoke PROVE OneRow
<1>1. at[Loop] \in Items
  <2>1. pc[Loop] = "revoke"
    BY Zenon DEF Revoke, FallThrough, At
  <2>2. pc[Loop] \in AtItem /\ Loop \in Drivers
    BY <2>1 DEF AtItem, Drivers
  <2> QED BY <2>2, InvFacts, Zenon DEF DriverOK
<1>2. PICK i \in Items : i = at[Loop]
  BY <1>1, Zenon
<1>3. \/ end_reason[i] \in {"completed", "dropped"} /\ EndFinally(i, "revoked")
      \/ UNCHANGED rows
  BY <1>2, Zenon DEF Revoke
<1>4. CASE UNCHANGED rows
  BY <1>4, Unchanged, Zenon DEF Rows, rows
<1>5. CASE end_reason[i] \in {"completed", "dropped"} /\ EndFinally(i, "revoked")
  <2>1. "revoked" \in Final /\ end_reason[i] \notin Final
    BY <1>5 DEF Final
  <2> QED BY <1>5, <2>1, EndRow, Zenon
<1> QED BY <1>3, <1>4, <1>5, Zenon

LEMMA StopRow == ASSUME Inv, NEW s \in Stops, StopEnd(s) PROVE OneRow
<1>1. stop[s].pc = "end" /\ StopOK(s)
  BY Zenon DEF StopEnd, Inv
<1>2. stop[s].item \in Items
  BY <1>1, Zenon DEF StopOK
<1>3. UNCHANGED rows \/ EndFinally(stop[s].item, "stopped")
  BY Zenon DEF StopEnd
<1>4. CASE UNCHANGED rows
  BY <1>4, Unchanged, Zenon DEF Rows, rows
<1>5. CASE EndFinally(stop[s].item, "stopped")
  <2>1. "stopped" \in Final
    BY DEF Final
  <2> QED BY <1>2, <1>5, <2>1, EndRow, Zenon
<1> QED BY <1>3, <1>4, <1>5, Zenon

LEMMA StartRow == ASSUME Inv, NEW d \in Drivers, StartRound(d) PROVE OneRow
<1>1. at[d] \in Items
  <2>1. pc[d] = "start"
    BY Zenon DEF StartRound
  <2>2. pc[d] \in AtItem
    BY <2>1 DEF AtItem
  <2> QED BY <2>2, InvFacts, Zenon DEF DriverOK
<1>2. UNCHANGED rows \/ (Due(at[d]) /\ Startable(at[d]) /\ NextRound(at[d]))
  BY Zenon DEF StartRound
<1>3. CASE UNCHANGED rows
  BY <1>3, Unchanged, Zenon DEF Rows, rows
<1>4. CASE Due(at[d]) /\ Startable(at[d]) /\ NextRound(at[d])
  <2>1. PICK i \in Items : i = at[d]
    BY <1>1, Zenon
  <2>2. \A j \in Items : j # i => SameRow(j)
    BY <1>4, <2>1, RoundRows, Zenon
  <2>3. Went(i)
    BY <1>4, <2>1, Zenon DEF Went, Startable, NextRound
  <2> QED BY <2>2, <2>3, Zenon DEF OneRow, RowChange
<1> QED BY <1>2, <1>3, <1>4, Zenon

\* A round that runs is one of an open item or of a stopped one.
LEMMA RunningRow ==
  ASSUME Inv, NEW i \in Items, RunningIn(rounds[i]), state[i] # "absent"
  PROVE  end_reason[i] = "stopped" \/ (end_reason[i] = "none" /\ state[i] = "open")
<1>1. /\ state[i] \in {"absent", "open", "ended"} /\ end_reason[i] \in Reasons
      /\ ItemOK(i)
  BY InvFacts, Zenon DEF RowTypes
<1>2. /\ state[i] = "ended" <=> end_reason[i] # "none"
      /\ end_reason[i] \notin {"completed", "dropped", "revoked"}
  BY <1>1, Zenon DEF ItemOK, RowOK
<1> QED BY <1>1, <1>2 DEF Reasons

LEMMA SettleRow == ASSUME Inv, NEW d \in Drivers, Settle(d) PROVE OneRow
<1>1. /\ at[d] \in Items /\ state[at[d]] # "absent" /\ RunningIn(rounds[at[d]])
      /\ seq[d] = Len(rounds[at[d]])
  <2>1. pc[d] \in {"settle", "settle_refused"}
    BY Zenon DEF Settle
  <2>2. pc[d] \in Holding
    BY <2>1 DEF Holding
  <2> QED BY <2>2, HolderRuns, Zenon
<1>2. PICK i \in Items : i = at[d]
  BY <1>1, Zenon
<1>3. UNCHANGED rows \/ SettleRows(i, Len(rounds[i]), outcome[d])
  BY <1>1, <1>2, Zenon DEF Settle
<1>4. CASE UNCHANGED rows
  BY <1>4, Unchanged, Zenon DEF Rows, rows
<1>5. CASE SettleRows(i, Len(rounds[i]), outcome[d])
  <2>1. outcome[d] \in OutcomeType
    BY InvFacts, Zenon DEF ThreadTypes
  <2>2. /\ \A j \in Items : j # i => SameRow(j)
        /\ Len(rounds'[i]) = Len(rounds[i]) /\ inputs' = inputs /\ Settled(i, outcome[d])
    BY <1>1, <1>2, <1>5, <2>1, SettleRowsKeep, Zenon
  <2>3. CASE end_reason[i] = "stopped"
    BY <2>2, <2>3, Zenon DEF OneRow, RowChange, Counted, Settled
  <2>4. CASE end_reason[i] = "none" /\ state[i] = "open"
    <3> DEFINE by == EndedBy(outcome[d].report)
    <3>1. /\ state' = [state EXCEPT ![i] = IF by = "none" THEN "open" ELSE "ended"]
          /\ end_reason' = [end_reason EXCEPT ![i] = by]
      BY <2>2, <2>4, Zenon DEF Settled
    <3>2. state \in [Items -> {"absent", "open", "ended"}] /\ end_reason \in [Items -> Reasons]
      BY InvFacts, Zenon DEF RowTypes
    <3> HIDE DEF by
    <3>3. /\ state'[i] = (IF by = "none" THEN "open" ELSE "ended") /\ end_reason'[i] = by
      BY <3>1, <3>2
    <3>4. Went(i)
      BY <2>4, <3>3, Zenon DEF Went
    <3> QED BY <2>2, <3>4, Zenon DEF OneRow, RowChange
  <2> QED BY <1>1, <1>2, <2>3, <2>4, RunningRow, Zenon
<1> QED BY <1>3, <1>4, <1>5, Zenon

LEMMA NextRow == ASSUME Inv, Next PROVE OneRow
<1> HIDE DEF Inv
<1>1. ASSUME NEW i \in Items, FirstRound(i) PROVE OneRow
  <2>1. UNCHANGED rows
    BY <1>1, Zenon DEF FirstRound, FirstAdmitted, FirstRefused
  <2> QED BY <2>1, Unchanged, Zenon DEF Rows, rows
<1>2. ASSUME Route PROVE OneRow
  <2>1. ASSUME Lookup \/ Summary \/ OrdinaryEnds PROVE OneRow
    <3>1. UNCHANGED Rows
      BY <2>1, Zenon DEF Lookup, Summary, OrdinaryEnds, rows, Rows
    <3> QED BY <3>1, Unchanged, Zenon
  <2> QED BY <1>2, <2>1, ReopenRow, RevokeRow, AddRow, Zenon DEF Route
<1>3. ASSUME NEW d \in Drivers, Drive(d) PROVE OneRow
  <2>1. ASSUME LookAgain(d) \/ Admit(d) \/ TurnRegisters(d) \/ TurnCloses(d) \/ TurnEnds(d)
        PROVE  OneRow
    <3>1. UNCHANGED rows
      BY <2>1, Zenon DEF LookAgain, Admit, TurnRegisters, TurnCloses, TurnEnds
    <3> QED BY <3>1, Unchanged, Zenon DEF Rows, rows
  <2> QED BY <1>3, <2>1, StartRow, SettleRow, Zenon DEF Drive
<1>4. ASSUME NEW s \in Stops, (\E i \in Items : StopRead(s, i)) \/ StopEnd(s) \/ StopCancel(s)
      PROVE  OneRow
  <2>1. ASSUME (\E i \in Items : StopRead(s, i)) \/ StopCancel(s) PROVE OneRow
    <3>1. UNCHANGED rows
      BY <2>1, Zenon DEF StopRead, StopCancel
    <3> QED BY <3>1, Unchanged, Zenon DEF Rows, rows
  <2> QED BY <1>4, <2>1, StopRow, Zenon
<1>5. ASSUME (\E s \in Sources, a \in Authors : Receive(s, a)) \/ Crash PROVE OneRow
  <2>1. UNCHANGED rows
    BY <1>5, Zenon DEF Receive, Crash
  <2> QED BY <2>1, Unchanged, Zenon DEF Rows, rows
<1> QED BY <1>1, <1>2, <1>3, <1>4, <1>5, OpenRow, AddRow, Zenon DEF Next

-----------------------------------------------------------------------------
(* Theorems that follow from the rows *)

LEMMA StaysOpened ==
  ASSUME Inv, Next, NEW i \in Items, state'[i] = "absent"
  PROVE  state[i] = "absent"
<1>1. SameRow(i) \/ RowChange(i)
  BY NextRow, Zenon DEF OneRow
<1>2. "absent" # "open" /\ "absent" # "ended"
  BY Zenon
<1> QED BY <1>1, <1>2, Zenon DEF RowChange, Opened, Reopened, Ended, Went, Counted, SameRow

\* Which steps change who follows a conversation.
SubscribingOpen(i) ==
  /\ pc[Loop] = "ordinary" /\ ~OwnerOpen(message.source)
  /\ CreateItem(i, message.author, [source |-> message.source, drop |-> "live"])
  /\ pc'[Loop] = pc[Loop] /\ UNCHANGED message
SubCases ==
  \/ sub' = sub
  \/ \E i \in Items, author \in Authors \cup {Nobody} : CreateItem(i, author, NoSub)
  \/ \E i \in Items : SubscribingOpen(i)
  \/ Lookup
  \/ \E i \in Items, reason \in Final : EndFinally(i, reason)

LEMMA SubStep == ASSUME Inv, Next PROVE SubCases
<1>1. ASSUME NEW i \in Items, OpenApi(i) PROVE SubCases
  BY <1>1, Zenon DEF OpenApi, SubCases
<1>2. ASSUME NEW i \in Items, NEW subscribe \in BOOLEAN, OpenTool(i, subscribe) PROVE SubCases
  <2>1. CASE subscribe = TRUE
    <3>1. /\ pc[Loop] = "ordinary" /\ ~OwnerOpen(message.source)
          /\ CreateItem(i, message.author, [source |-> message.source, drop |-> "live"])
          /\ UNCHANGED message
          /\ pc' = [pc EXCEPT ![i] = "admit_first"] \/ pc' = pc
      BY <1>2, <2>1, Zenon DEF OpenTool
    <3>2. pc'[Loop] = pc[Loop]
      <4>1. Loop # i /\ Loop \in Drivers /\ pc \in [Drivers -> PcType]
        BY InvFacts, WorkItemsAssumption, Zenon DEF Drivers, ThreadTypes
      <4> HIDE DEF PcType
      <4> QED BY <3>1, <4>1, Zenon
    <3> QED BY <3>1, <3>2, Zenon DEF SubCases, SubscribingOpen
  <2>2. CASE subscribe = FALSE
    <3>1. CreateItem(i, message.author, NoSub)
      BY <1>2, <2>2, Zenon DEF OpenTool
    <3>2. message.author \in Authors \cup {Nobody}
      <4>1. message \in MessageType
        BY InvFacts, Zenon DEF OtherTypes
      <4> QED BY <4>1, Zenon DEF MessageType
    <3> QED BY <3>1, <3>2, Zenon DEF SubCases
  <2> QED BY <2>1, <2>2, Zenon
<1>3. ASSUME NEW i \in Items, FirstRound(i) \/ AddOther(i) PROVE SubCases
  BY <1>3, Zenon DEF FirstRound, FirstAdmitted, FirstRefused, AddOther, SubCases, rows
<1>4. ASSUME Route PROVE SubCases
  <2>1. ASSUME Summary \/ Reopen \/ AddInput \/ OrdinaryEnds PROVE sub' = sub
    BY <2>1, Zenon DEF Summary, Reopen, AddInput, OrdinaryEnds, rows
  <2>2. ASSUME Revoke PROVE SubCases
    <3>1. at[Loop] \in Items
      <4>1. pc[Loop] = "revoke"
        BY <2>2, Zenon DEF Revoke, FallThrough, At
      <4>2. pc[Loop] \in AtItem /\ Loop \in Drivers
        BY <4>1 DEF AtItem, Drivers
      <4> QED BY <4>2, InvFacts, Zenon DEF DriverOK
    <3>2. EndFinally(at[Loop], "revoked") \/ UNCHANGED rows
      BY <2>2, Zenon DEF Revoke
    <3>3. "revoked" \in Final
      BY DEF Final
    <3>4. CASE UNCHANGED rows
      BY <3>4, Zenon DEF rows, SubCases
    <3>5. CASE EndFinally(at[Loop], "revoked")
      BY <3>1, <3>3, <3>5, Zenon DEF SubCases
    <3> QED BY <3>2, <3>4, <3>5, Zenon
  <2> QED BY <1>4, <2>1, <2>2, Zenon DEF Route, SubCases
<1>5. ASSUME NEW d \in Drivers, Drive(d) PROVE SubCases
  <2>1. ASSUME LookAgain(d) \/ Admit(d) \/ TurnRegisters(d) \/ TurnCloses(d) \/ TurnEnds(d)
        PROVE  sub' = sub
    BY <2>1, Zenon DEF LookAgain, Admit, TurnRegisters, TurnCloses, TurnEnds, rows
  <2>2. ASSUME StartRound(d) \/ Settle(d) PROVE sub' = sub
    BY <2>2, Zenon DEF StartRound, Settle, NextRound, SettleRows, rows
  <2> QED BY <1>5, <2>1, <2>2, Zenon DEF Drive, SubCases
<1>6. ASSUME NEW s \in Stops, (\E i \in Items : StopRead(s, i)) \/ StopEnd(s) \/ StopCancel(s)
      PROVE  SubCases
  <2>1. ASSUME (\E i \in Items : StopRead(s, i)) \/ StopCancel(s) PROVE sub' = sub
    BY <2>1, Zenon DEF StopRead, StopCancel, rows
  <2>2. ASSUME StopEnd(s) PROVE SubCases
    <3>1. stop[s].pc = "end" /\ StopOK(s)
      BY <2>2, Zenon DEF StopEnd, Inv
    <3>2. stop[s].item \in Items
      BY <3>1, Zenon DEF StopOK
    <3>3. UNCHANGED rows \/ EndFinally(stop[s].item, "stopped")
      BY <2>2, Zenon DEF StopEnd
    <3>4. "stopped" \in Final
      BY DEF Final
    <3>5. CASE UNCHANGED rows
      BY <3>5, Zenon DEF rows, SubCases
    <3>6. CASE EndFinally(stop[s].item, "stopped")
      BY <3>2, <3>4, <3>6, Zenon DEF SubCases
    <3> QED BY <3>3, <3>5, <3>6, Zenon
  <2> QED BY <1>6, <2>1, <2>2, Zenon DEF SubCases
<1>7. ASSUME (\E s \in Sources, a \in Authors : Receive(s, a)) \/ Crash PROVE SubCases
  BY <1>7, Zenon DEF Receive, Crash, rows, SubCases
<1> QED BY <1>1, <1>2, <1>3, <1>4, <1>5, <1>6, <1>7, Zenon DEF Next

\* What each does to a subscription.
CreatedSub(i, owner) ==
  /\ sub'[i] = owner
  /\ \A j \in Items : j # i /\ j \notin Live(owner.source) => sub'[j] = sub[j]
  /\ \A j \in Items : j # i /\ j \in Live(owner.source) =>
       sub'[j] = [sub[j] EXCEPT !.drop = "superseded"]

LEMMA CreateSub ==
  ASSUME NEW i \in Items, NEW author, NEW owner, CreateItem(i, author, owner)
  PROVE  CreatedSub(i, owner)
<1>1. sub' = [j \in Items |->
        CASE j = i -> owner
          [] j \in Superseded(i, owner.source) -> [sub[j] EXCEPT !.drop = "superseded"]
          [] OTHER -> sub[j]]
  BY Zenon DEF CreateItem
<1>2. i \notin Superseded(i, owner.source)
      /\ \A j \in Items : j # i => (j \in Superseded(i, owner.source) <=> j \in Live(owner.source))
  BY Zenon DEF Superseded
<1> QED BY <1>1, <1>2, Zenon DEF CreatedSub

LEMMA EndSub ==
  ASSUME sub \in [Items -> SubType], state \in [Items -> {"absent", "open", "ended"}],
         NEW i \in Items, NEW reason \in Final, EndFinally(i, reason)
  PROVE  /\ \A j \in Items : j # i => sub'[j] = sub[j]
         /\ sub'[i].drop # "live" /\ state'[i] = "ended"
<1> DEFINE drop == IF sub[i].drop = "live" THEN reason ELSE sub[i].drop
           new == [sub[i] EXCEPT !.drop = drop]
<1>1. sub' = [sub EXCEPT ![i] = new] /\ state' = [state EXCEPT ![i] = "ended"]
  BY DEF EndFinally
<1>2. new.drop # "live"
  <2>1. sub[i] \in SubType
    BY Zenon
  <2>2. new.drop = drop
    BY <2>1, Zenon DEF SubType
  <2>3. reason # "live"
    BY DEF Final
  <2> QED BY <2>2, <2>3, Zenon
<1> HIDE DEF new, SubType
<1> QED BY <1>1, <1>2, Zenon

LEMMA FreshStep == ASSUME Inv, Fresh, Next PROVE Fresh'
<1>1. sub \in [Items -> SubType] /\ state \in [Items -> {"absent", "open", "ended"}]
  BY InvFacts, Zenon DEF RowTypes
<1>2. SUFFICES ASSUME NEW j \in Items, state'[j] = "absent" PROVE sub'[j] = NoSub
  BY Zenon DEF Fresh
<1>3. sub[j] = NoSub /\ \A s : j \notin Live(s)
  <2>1. state[j] = "absent"
    BY <1>2, StaysOpened, Zenon
  <2>2. NoSub.drop # "live"
    BY DEF NoSub
  <2> QED BY <2>1, <2>2 DEF Fresh, Live
<1>4. ASSUME NEW i \in Items, NEW author, NEW owner, CreateItem(i, author, owner) PROVE sub'[j] = sub[j]
  <2>1. j # i
    <3>1. state'[i] = "open"
      BY <1>1, <1>4, Zenon DEF CreateItem
    <3> QED BY <1>2, <3>1, Zenon
  <2> QED BY <1>3, <1>4, <2>1, CreateSub, Zenon DEF CreatedSub
<1>5. ASSUME Lookup PROVE sub'[j] = sub[j]
  <2>1. PICK idle \in SUBSET Live(message.source) :
          sub' = [i \in Items |-> IF i \in idle THEN [sub[i] EXCEPT !.drop = "idle"] ELSE sub[i]]
    BY <1>5, Zenon DEF Lookup
  <2> QED BY <1>3, <2>1, Zenon
<1>6. ASSUME NEW i \in Items, NEW reason \in Final, EndFinally(i, reason) PROVE sub'[j] = sub[j]
  <2>1. j # i
    BY <1>1, <1>2, <1>6, EndSub, Zenon
  <2> QED BY <1>1, <1>6, <2>1, EndSub, Zenon
<1> QED BY <1>3, <1>4, <1>5, <1>6, SubStep, Zenon DEF SubCases, SubscribingOpen

\* The inductive invariant holds: what an item's rows have to do with each
\* other, and with the thread that has its running round (create_work_item,
\* start_work_item_round, settle_work_item_round, driver.rs).
THEOREM Invariant == Spec => [](Inv /\ Fresh)
<1>1. Init => Inv /\ Fresh
  BY InvInit
<1>2. Inv /\ Fresh /\ [Next]_vars => Inv' /\ Fresh'
  <2>1. ASSUME Inv, Fresh, UNCHANGED vars PROVE Inv' /\ Fresh'
    <3>1. Fresh'
      BY <2>1, Zenon DEF vars, rows, Fresh
    <3> QED BY <2>1, <3>1, InvStutters, Zenon
  <2> QED BY <2>1, InvStep, FreshStep, Zenon
<1> QED BY <1>1, <1>2, PTL DEF Spec

\* The rows, threads and requests keep their types, and no item exceeds its
\* rounds per hour (plan_round).
THEOREM TypeCorrect == Spec => []TypeOK
<1>1. Inv => TypeOK
  BY Zenon DEF Inv
<1> QED BY <1>1, Invariant, PTL

\* A running round means a person spoke since the report that held the item:
\* plan_round under the lock of start_work_item_round, and nothing between a
\* round's start and its settlement holds the item again.
THEOREM AlwaysHoldsReleased == Spec => []HoldsReleased
<1>1. ASSUME Inv PROVE HoldsReleased
  BY <1>1, InvFacts, Zenon DEF HoldsReleased, Running, ItemOK, RowOK, RunningIn, Reads
<1> QED BY <1>1, Invariant, PTL

\* A stop is final and a revocation can only become a stop, whatever the round
\* still running reports (settle_work_item_round, end_work_item_finally).
THEOREM AlwaysFinalEnds == Spec => FinalEnds
<1> DEFINE Step == \A i \in Items : end_reason[i] \in {"stopped", "revoked"} =>
             /\ state'[i] = "ended"
             /\ end_reason'[i] \in {end_reason[i], "stopped"}
             /\ Len(rounds'[i]) = Len(rounds[i])
             /\ Len(inputs'[i]) = Len(inputs[i])
<1>1. ASSUME Inv, Next PROVE Step
  <2>1. SUFFICES ASSUME NEW i \in Items, end_reason[i] \in Final
                 PROVE  /\ state'[i] = "ended"
                        /\ end_reason'[i] \in {end_reason[i], "stopped"}
                        /\ Len(rounds'[i]) = Len(rounds[i])
                        /\ Len(inputs'[i]) = Len(inputs[i])
    BY Zenon DEF Final
  <2>2. end_reason[i] # "none" /\ end_reason[i] \notin Own
    BY <2>1 DEF Final, Own
  <2>3. ItemOK(i)
    BY <1>1, InvFacts, Zenon
  <2>4. state[i] = "ended"
    BY <2>2, <2>3, Zenon DEF ItemOK, RowOK
  <2>5. SameRow(i) \/ Ended(i) \/ Counted(i)
    <3>1. SameRow(i) \/ RowChange(i)
      BY <1>1, NextRow, Zenon DEF OneRow
    <3>2. ~Opened(i) /\ ~Reopened(i) /\ ~Went(i)
      BY <2>2, <2>4, Zenon DEF Opened, Reopened, Went
    <3> QED BY <3>1, <3>2, Zenon DEF RowChange
  <2> QED BY <2>1, <2>4, <2>5, Zenon DEF SameRow, Ended, Counted
<1>2. Inv /\ [Next]_vars => [Step]_vars
  BY <1>1, Zenon
<1> QED BY <1>2, Invariant, PTL DEF Spec, FinalEnds

-----------------------------------------------------------------------------
(* Who owns a conversation *)

LEMMA DriveMoves ==
  ASSUME Inv, NEW d \in Drivers, Drive(d)
  PROVE  /\ pc'[d] \notin Routing /\ UNCHANGED message
         /\ \A e \in Drivers : e # d => pc'[e] = pc[e] /\ at'[e] = at[e]
<1>1. ThreadTypes /\ DriverOK(d)
  BY InvFacts, Zenon
<1>2. pc \in [Drivers -> PcType] /\ at \in [Drivers -> Items \cup {Nobody}]
  BY <1>1, Zenon DEF ThreadTypes
<1>3. ASSUME NEW to, pc' = [pc EXCEPT ![d] = to], at' = at \/ \E i : at' = [at EXCEPT ![d] = i]
      PROVE  pc'[d] = to /\ \A e \in Drivers : e # d => pc'[e] = pc[e] /\ at'[e] = at[e]
  <2> HIDE DEF PcType
  <2>1. pc'[d] = to /\ \A e \in Drivers : e # d => pc'[e] = pc[e]
    BY <1>2, <1>3, Zenon
  <2>2. \A e \in Drivers : e # d => at'[e] = at[e]
    BY <1>2, <1>3, Zenon
  <2> QED BY <2>1, <2>2, Zenon
<1>4. /\ "admit" \notin Routing /\ "start" \notin Routing /\ "turn" \notin Routing
      /\ "settle" \notin Routing /\ "due" \notin Routing /\ Rest(d) \notin Routing
  BY DEF Routing, Rest
<1>5. ASSUME Finish(d)
      PROVE  pc'[d] \notin Routing /\ \A e \in Drivers : e # d => pc'[e] = pc[e] /\ at'[e] = at[e]
  BY <1>3, <1>4, <1>5, Zenon DEF Finish
<1>6. ASSUME LookAgain(d) \/ Admit(d)
      PROVE  pc'[d] \notin Routing /\ \A e \in Drivers : e # d => pc'[e] = pc[e] /\ at'[e] = at[e]
  <2>1. Finish(d) \/ (at' = at /\ (pc' = [pc EXCEPT ![d] = "admit"] \/ pc' = [pc EXCEPT ![d] = "start"]))
    BY <1>6, Zenon DEF LookAgain, Admit
  <2> QED BY <1>3, <1>4, <1>5, <2>1, Zenon
<1>7. ASSUME StartRound(d)
      PROVE  pc'[d] \notin Routing /\ \A e \in Drivers : e # d => pc'[e] = pc[e] /\ at'[e] = at[e]
  <2>1. Finish(d) \/ (pc' = [pc EXCEPT ![d] = "turn"] /\ \E i : at' = [at EXCEPT ![d] = i])
    BY <1>7, Zenon DEF StartRound, Begin
  <2> QED BY <1>3, <1>4, <1>5, <2>1, Zenon
<1>8. ASSUME TurnRegisters(d) \/ TurnCloses(d)
      PROVE  pc'[d] \notin Routing /\ \A e \in Drivers : e # d => pc'[e] = pc[e] /\ at'[e] = at[e]
  <2>1. turn[d] # "none" /\ pc' = pc /\ at' = at
    BY <1>8, Zenon DEF TurnRegisters, TurnCloses
  <2> QED BY <1>1, <1>4, <2>1, Zenon DEF DriverOK
<1>9. ASSUME TurnEnds(d)
      PROVE  pc'[d] \notin Routing /\ \A e \in Drivers : e # d => pc'[e] = pc[e] /\ at'[e] = at[e]
  <2>1. pc' = [pc EXCEPT ![d] = "settle"] /\ at' = at
    BY <1>9, Zenon DEF TurnEnds
  <2> QED BY <1>3, <1>4, <2>1, Zenon
<1>10. ASSUME Settle(d)
      PROVE  pc'[d] \notin Routing /\ \A e \in Drivers : e # d => pc'[e] = pc[e] /\ at'[e] = at[e]
  <2>1. Finish(d) \/ (pc' = [pc EXCEPT ![d] = "due"] /\ at' = at)
    BY <1>10, Zenon DEF Settle, AfterRound
  <2> QED BY <1>3, <1>4, <1>5, <2>1, Zenon
<1>11. UNCHANGED message
  BY Zenon DEF Drive, LookAgain, Admit, StartRound, TurnRegisters, TurnCloses, TurnEnds, Settle
<1> QED BY <1>6, <1>7, <1>8, <1>9, <1>10, <1>11, Zenon DEF Drive

\* How the loop gets to where it routes a message.
LoopMove ==
  /\ pc'[Loop] \in Routing =>
       (pc[Loop] \in Routing /\ UNCHANGED message) \/ message'.source \in Sources
  /\ pc'[Loop] \in {"summary", "reopen"} =>
       (pc[Loop] \in {"summary", "reopen"} /\ at'[Loop] = at[Loop]) \/ Lookup

LEMMA LoopMoves == ASSUME Inv, Next PROVE LoopMove
<1>1. /\ Loop \in Drivers /\ Loop \notin Items /\ ThreadTypes
      /\ pc \in [Drivers -> PcType] /\ at \in [Drivers -> Items \cup {Nobody}]
  BY InvFacts, WorkItemsAssumption, Zenon DEF Drivers, ThreadTypes
<1>2. ASSUME pc'[Loop] = pc[Loop], at'[Loop] = at[Loop], UNCHANGED message PROVE LoopMove
  BY <1>2, Zenon DEF LoopMove
<1>3. ASSUME pc'[Loop] \notin Routing PROVE LoopMove
  <2>1. {"summary", "reopen"} \subseteq Routing
    BY DEF Routing
  <2> QED BY <1>3, <2>1, Zenon DEF LoopMove
<1>4. ASSUME NEW from \in Routing, NEW to, pc[Loop] = from, to \notin {"summary", "reopen"},
             pc' = [pc EXCEPT ![Loop] = to], UNCHANGED message
      PROVE  LoopMove
  <2> HIDE DEF PcType
  <2>1. pc'[Loop] = to
    BY <1>1, <1>4, Zenon
  <2> QED BY <1>4, <2>1, Zenon DEF LoopMove
<1>5. /\ "summary" \in Routing /\ "reopen" \in Routing /\ "revoke" \in Routing
      /\ "add" \in Routing /\ "lookup" \in Routing
      /\ "due" \notin Routing /\ Rest(Loop) \notin Routing /\ "idle" \notin Routing
  BY DEF Routing, Rest
<1>6. ASSUME NEW d \in Drivers, Drive(d) PROVE LoopMove
  BY <1>1, <1>2, <1>3, <1>6, DriveMoves, Zenon
<1>7. ASSUME NEW i \in Items, OpenApi(i) \/ FirstRound(i) \/ AddOther(i) PROVE LoopMove
  <2>1. /\ UNCHANGED message
        /\ \/ UNCHANGED <<pc, at>>
           \/ \E to : pc' = [pc EXCEPT ![i] = to] /\ (at' = at \/ at' = [at EXCEPT ![i] = i])
    BY <1>7, Zenon DEF OpenApi, FirstRound, FirstAdmitted, FirstRefused, AddOther, Begin, drives
  <2> HIDE DEF PcType
  <2>2. pc'[Loop] = pc[Loop] /\ at'[Loop] = at[Loop]
    BY <1>1, <2>1, Zenon
  <2> QED BY <1>2, <2>1, <2>2, Zenon
<1>8. ASSUME NEW i \in Items, NEW subscribe \in BOOLEAN, OpenTool(i, subscribe) PROVE LoopMove
  <2>1. /\ UNCHANGED message
        /\ \/ UNCHANGED <<pc, at>>
           \/ pc' = [pc EXCEPT ![i] = "admit_first"] /\ at' = [at EXCEPT ![i] = i]
    BY <1>8, Zenon DEF OpenTool
  <2> HIDE DEF PcType
  <2>2. pc'[Loop] = pc[Loop] /\ at'[Loop] = at[Loop]
    BY <1>1, <2>1, Zenon
  <2> QED BY <1>2, <2>1, <2>2, Zenon
<1>9. ASSUME NEW s \in Sources, NEW a \in Authors, Receive(s, a) PROVE LoopMove
  <2>1. /\ message' = [source |-> s, author |-> a]
        /\ pc' = [pc EXCEPT ![Loop] = IF Live(s) = {} THEN "ordinary" ELSE "lookup"]
    BY <1>9, Zenon DEF Receive, At
  <2>2. message'.source \in Sources
    BY <2>1, Zenon
  <2>3. pc'[Loop] \in {"ordinary", "lookup"}
    <3> HIDE DEF PcType
    <3> QED BY <1>1, <2>1, Zenon
  <2>4. pc'[Loop] \notin {"summary", "reopen"}
    BY <2>3, Zenon
  <2> QED BY <2>2, <2>4, Zenon DEF LoopMove
<1>10. ASSUME Lookup PROVE LoopMove
  <2>1. pc[Loop] = "lookup" /\ UNCHANGED message
    BY <1>10, Zenon DEF Lookup, At
  <2> QED BY <1>5, <1>10, <2>1, Zenon DEF LoopMove
<1>11. ASSUME Summary PROVE LoopMove
  <2>1. /\ pc[Loop] = "summary" /\ UNCHANGED message
        /\ \/ at' = at
           \/ pc' = [pc EXCEPT ![Loop] = "ordinary"]
    BY <1>11, Zenon DEF Summary, At
  <2>2. CASE at' = at
    BY <1>5, <2>1, <2>2, Zenon DEF LoopMove
  <2>3. CASE pc' = [pc EXCEPT ![Loop] = "ordinary"]
    BY <1>4, <1>5, <2>1, <2>3, Zenon
  <2> QED BY <2>1, <2>2, <2>3, Zenon
<1>12. ASSUME Reopen \/ Revoke PROVE LoopMove
  <2>1. /\ pc[Loop] \in {"reopen", "revoke"} /\ UNCHANGED message
        /\ pc' = [pc EXCEPT ![Loop] = "add"] \/ pc' = [pc EXCEPT ![Loop] = "ordinary"]
    BY <1>12, Zenon DEF Reopen, Revoke, FallThrough, At
  <2>2. pc[Loop] \in Routing
    BY <1>5, <2>1, Zenon
  <2> QED BY <1>4, <2>1, <2>2, Zenon
<1>13. ASSUME AddInput PROVE LoopMove
  <2>1. pc[Loop] = "add"
    BY <1>13, Zenon DEF AddInput
  <2>2. \/ pc' = [pc EXCEPT ![Loop] = Rest(Loop)]
        \/ pc' = [pc EXCEPT ![Loop] = "due"]
        \/ pc' = [pc EXCEPT ![Loop] = "ordinary"] /\ UNCHANGED message
    BY <1>13, Zenon DEF AddInput, Finish, FallThrough, At
  <2>3. ASSUME NEW to, to \notin Routing, pc' = [pc EXCEPT ![Loop] = to] PROVE LoopMove
    <3> HIDE DEF PcType
    <3>1. pc'[Loop] = to
      BY <1>1, <2>3, Zenon
    <3> QED BY <1>3, <2>3, <3>1, Zenon
  <2>4. CASE pc' = [pc EXCEPT ![Loop] = "ordinary"] /\ UNCHANGED message
    BY <1>4, <1>5, <2>1, <2>4, Zenon
  <2> QED BY <1>5, <2>2, <2>3, <2>4, Zenon
<1>14. ASSUME OrdinaryEnds PROVE LoopMove
  <2>1. pc' = [pc EXCEPT ![Loop] = "idle"]
    BY <1>14, Zenon DEF OrdinaryEnds, At
  <2> HIDE DEF PcType
  <2>2. pc'[Loop] = "idle"
    BY <1>1, <2>1, Zenon
  <2> QED BY <1>3, <1>5, <2>2, Zenon
<1>15. ASSUME NEW s \in Stops, (\E i \in Items : StopRead(s, i)) \/ StopEnd(s) \/ StopCancel(s)
       PROVE  LoopMove
  <2>1. UNCHANGED <<pc, at, message>>
    BY <1>15, Zenon DEF StopRead, StopEnd, StopCancel, drives
  <2> QED BY <1>2, <2>1, Zenon
<1>16. ASSUME Crash PROVE LoopMove
  <2>1. pc'[Loop] = "idle"
    BY <1>1, <1>16, Zenon DEF Crash, Rest
  <2> QED BY <1>3, <1>5, <2>1, Zenon
<1>17. ASSUME Route PROVE LoopMove
  BY <1>10, <1>11, <1>12, <1>13, <1>14, <1>17, Zenon DEF Route
<1> QED BY <1>6, <1>7, <1>8, <1>9, <1>15, <1>16, <1>17, Zenon DEF Next

LEMMA OwnersInit == ASSUME Init PROVE Owners
<1>1. /\ state = [i \in Items |-> "absent"] /\ sub = [i \in Items |-> NoSub]
      /\ pc = [d \in Drivers |-> "idle"] /\ NoSub.drop = "none" /\ Loop \in Drivers
  BY DEF Init, NoSub, Drivers
<1>2. "idle" \notin Routing /\ "idle" \notin {"summary", "reopen"}
  BY DEF Routing
<1> QED BY <1>1, <1>2, Zenon DEF Owners

\* A final end stays one.
LEMMA FinalStays ==
  ASSUME Inv, Next, NEW i \in Items, end_reason[i] \in Final
  PROVE  end_reason'[i] \in Final
<1>1. SameRow(i) \/ RowChange(i)
  BY NextRow, Zenon DEF OneRow
<1>2. end_reason[i] # "none" /\ end_reason[i] \notin Own /\ ItemOK(i)
  BY InvFacts DEF Final, Own
<1>3. state[i] = "ended"
  BY <1>2, Zenon DEF ItemOK, RowOK
<1> QED BY <1>1, <1>2, <1>3, Zenon DEF RowChange, Opened, Reopened, Ended, Went, Counted, SameRow

Kinds == {"none", "live", "idle"}
\* Most steps: no subscription changes.
LEMMA OwnersKept == ASSUME Inv, Fresh, Owners, Next, sub' = sub, ~Lookup PROVE Owners'
<1>1. LoopMove
  BY LoopMoves, Zenon
<1>2. pc'[Loop] \in Routing => message'.source \in Sources
  BY <1>1, Zenon DEF LoopMove, Owners
<1>3. ASSUME NEW i \in Items, state'[i] = "open" PROVE sub'[i].drop \in Kinds
  <2>1. SameRow(i) \/ RowChange(i)
    BY NextRow, Zenon DEF OneRow
  <2>2. state[i] = "open" => sub'[i].drop \in Kinds
    BY Zenon DEF Owners, Kinds
  <2>3. CASE state[i] = "absent"
    <3>1. sub[i] = NoSub /\ NoSub.drop \in Kinds
      BY <2>3 DEF Fresh, NoSub, Kinds
    <3> QED BY <3>1, Zenon
  <2>4. CASE Reopened(i)
    <3>1. pc[Loop] \in {"summary", "reopen"} /\ end_reason[i] \notin {"stopped", "revoked"} /\ at[Loop] = i
      BY <2>4 DEF Reopened, Own
    <3>2. sub[i].drop = "live"
      BY <3>1, Zenon DEF Owners
    <3> QED BY <3>2, Zenon DEF Kinds
  <2>5. ~Ended(i)
    BY <1>3, Zenon DEF Ended
  <2> QED BY <1>3, <2>1, <2>2, <2>3, <2>4, <2>5, Zenon DEF RowChange, Opened, Went, Counted, SameRow
<1>4. pc'[Loop] \in {"summary", "reopen"} =>
        sub'[at'[Loop]].drop = "live" \/ end_reason'[at'[Loop]] \in {"stopped", "revoked"}
  <2>1. SUFFICES ASSUME pc'[Loop] \in {"summary", "reopen"}
                 PROVE  sub'[at'[Loop]].drop = "live" \/ end_reason'[at'[Loop]] \in Final
    BY Zenon DEF Final
  <2>2. pc[Loop] \in {"summary", "reopen"} /\ at'[Loop] = at[Loop]
    BY <1>1, <2>1, Zenon DEF LoopMove
  <2>3. at[Loop] \in Items
    <3>1. pc[Loop] \in AtItem /\ Loop \in Drivers
      BY <2>2 DEF AtItem, Drivers
    <3> QED BY <3>1, InvFacts, Zenon DEF DriverOK
  <2>4. sub[at[Loop]].drop = "live" \/ end_reason[at[Loop]] \in Final
    BY <2>2, Zenon DEF Owners, Final
  <2> QED BY <2>2, <2>3, <2>4, FinalStays, Zenon
<1> QED BY <1>2, <1>3, <1>4, Zenon DEF Owners, Kinds

\* Nobody is live in no conversation.
LEMMA CreateWithout ==
  ASSUME Inv, Fresh, Owners, NEW i \in Items, NEW author \in Authors \cup {Nobody},
         CreateItem(i, author, NoSub)
  PROVE  sub' = sub
<1>1. NoSub.source = Nobody /\ Nobody \notin Sources
  BY WorkItemsAssumption, Zenon DEF NoSub
<1>2. \A j \in Items : j \notin Live(NoSub.source)
  <2>1. SUFFICES ASSUME NEW j \in Items, sub[j] = [source |-> Nobody, drop |-> "live"] PROVE FALSE
    BY <1>1, Zenon DEF Live
  <2>2. sub[j].drop = "live" /\ sub[j].source = Nobody
    BY <2>1
  <2> QED BY <1>1, <2>2, Zenon DEF Owners
<1>3. sub[i] = NoSub
  BY Zenon DEF Fresh, CreateItem
<1>4. \A j \in Items : sub'[j] = sub[j]
  <2>1. CreatedSub(i, NoSub)
    BY CreateSub, Zenon
  <2> HIDE DEF NoSub
  <2> QED BY <1>2, <1>3, <2>1, Zenon DEF CreatedSub
<1>5. sub \in [Items -> SubType] /\ sub' \in [Items -> SubType]
  <2>1. RowTypes /\ RowTypes'
    BY InvFacts, NoSubType, CreateRows, Zenon
  <2> QED BY <2>1, Zenon DEF RowTypes
<1> HIDE DEF SubType
<1> QED BY <1>4, <1>5

LEMMA OwnersOpen ==
  ASSUME Inv, Fresh, Owners, Next, NEW i \in Items, SubscribingOpen(i)
  PROVE  Owners'
<1> DEFINE src == message.source
           owner == [source |-> src, drop |-> "live"]
<1>1. /\ pc[Loop] = "ordinary" /\ pc'[Loop] = "ordinary" /\ ~OwnerOpen(src)
      /\ CreateItem(i, message.author, owner) /\ message' = message
  BY Zenon DEF SubscribingOpen
<1>2. /\ "ordinary" \in Routing /\ "ordinary" \notin {"summary", "reopen"}
      /\ owner.source = src /\ owner.drop = "live"
  BY DEF Routing
<1>3. src \in Sources
  BY <1>1, <1>2, Zenon DEF Owners
<1>4. /\ sub'[i] = owner
      /\ \A j \in Items : j # i /\ j \notin Live(src) => sub'[j] = sub[j]
      /\ \A j \in Items : j # i /\ j \in Live(src) => sub'[j] = [sub[j] EXCEPT !.drop = "superseded"]
  <2> HIDE DEF owner, src
  <2>1. CreatedSub(i, owner)
    BY <1>1, CreateSub, Zenon
  <2> QED BY <1>2, <2>1, Zenon DEF CreatedSub
<1>5. \A j \in Items : sub[j] \in SubType
  BY InvFacts, Zenon DEF RowTypes
<1>6. ASSUME NEW j \in Items, j # i, sub'[j].drop = "live"
      PROVE  sub'[j] = sub[j] /\ sub[j].source # src
  <2>1. j \notin Live(src)
    <3>1. ASSUME j \in Live(src) PROVE FALSE
      <4>1. sub'[j] = [sub[j] EXCEPT !.drop = "superseded"] /\ sub[j] \in SubType
        BY <1>4, <1>5, <1>6, <3>1, Zenon
      <4>2. sub'[j].drop = "superseded"
        BY <4>1 DEF SubType
      <4> QED BY <1>6, <4>2, Zenon
    <3> QED BY <3>1, Zenon
  <2>2. sub'[j] = sub[j]
    BY <1>4, <1>6, <2>1, Zenon
  <2>3. sub[j] \in SubType /\ sub[j].drop = "live"
    BY <1>5, <1>6, <2>2, Zenon
  <2>4. sub[j].source = src => sub[j] = owner
    BY <2>3 DEF SubType
  <2> QED BY <2>1, <2>2, <2>4, Zenon DEF Live
<1> HIDE DEF owner
<1>7. \A j \in Items : sub'[j].drop = "live" => sub'[j].source \in Sources
  BY <1>2, <1>3, <1>4, <1>6, Zenon DEF Owners
<1>8. \A j, k \in Items :
        sub'[j].drop = "live" /\ sub'[k].drop = "live" /\ sub'[j].source = sub'[k].source => j = k
  <2>1. SUFFICES ASSUME NEW j \in Items, NEW k \in Items, j # k, sub'[j].drop = "live",
                        sub'[k].drop = "live", sub'[j].source = sub'[k].source
                 PROVE  FALSE
    BY Zenon
  <2>2. CASE j # i /\ k # i
    <3>1. sub'[j] = sub[j] /\ sub'[k] = sub[k]
      BY <1>6, <2>1, <2>2, Zenon
    <3> QED BY <2>1, <3>1, Zenon DEF Owners
  <2>3. sub'[i].source = src
    BY <1>2, <1>4, Zenon
  <2>4. \A l \in Items : l # i /\ sub'[l].drop = "live" => sub'[l].source # src
    BY <1>6, Zenon
  <2> QED BY <2>1, <2>2, <2>3, <2>4, Zenon
<1>9. ASSUME NEW j \in Items, state'[j] = "open" PROVE sub'[j].drop \in {"none", "live", "idle"}
  <2>1. CASE j = i
    BY <1>2, <1>4, <2>1, Zenon
  <2>2. CASE j # i
    <3>1. state[j] = "open"
      <4>1. state \in [Items -> {"absent", "open", "ended"}]
        BY InvFacts, Zenon DEF RowTypes
      <4>2. state' = [state EXCEPT ![i] = "open"]
        BY <1>1, Zenon DEF CreateItem
      <4> QED BY <1>9, <2>2, <4>1, <4>2, Zenon
    <3>2. j \notin Live(src)
      BY <1>1, <3>1, Zenon DEF OwnerOpen, OpenItems
    <3>3. sub'[j] = sub[j]
      BY <1>4, <2>2, <3>2, Zenon
    <3> QED BY <3>1, <3>3, Zenon DEF Owners
  <2> QED BY <2>1, <2>2, Zenon
<1> QED BY <1>1, <1>2, <1>3, <1>7, <1>8, <1>9, Zenon DEF Owners

LEMMA OwnersLookup == ASSUME Inv, Owners, Lookup PROVE Owners'
<1>1. PICK idle \in SUBSET Live(message.source) :
        /\ sub' = [i \in Items |-> IF i \in idle THEN [sub[i] EXCEPT !.drop = "idle"] ELSE sub[i]]
        /\ \/ \E owner \in Live(message.source) \ idle :
                pc' = [pc EXCEPT ![Loop] = "summary"] /\ at' = [at EXCEPT ![Loop] = owner]
           \/ pc' = [pc EXCEPT ![Loop] = "ordinary"]
  BY Zenon DEF Lookup, At
<1>2. /\ pc[Loop] = "lookup" /\ message' = message /\ state' = state
  BY Zenon DEF Lookup, At
<1>3. /\ Loop \in Drivers /\ pc \in [Drivers -> PcType] /\ at \in [Drivers -> Items \cup {Nobody}]
      /\ \A i \in Items : sub[i] \in SubType
  BY InvFacts, Zenon DEF Drivers, ThreadTypes, RowTypes
<1>4. "lookup" \in Routing /\ "ordinary" \notin {"summary", "reopen"}
  BY DEF Routing
<1>5. ASSUME NEW i \in Items, i \in idle PROVE sub'[i].drop = "idle"
  <2>1. sub'[i] = [sub[i] EXCEPT !.drop = "idle"] /\ sub[i] \in SubType
    BY <1>1, <1>3, <1>5, Zenon
  <2> QED BY <2>1 DEF SubType
<1>6. \A i \in Items : i \notin idle => sub'[i] = sub[i]
  BY <1>1, Zenon
<1>7. \A i \in Items : sub'[i].drop = "live" => sub'[i] = sub[i]
  BY <1>5, <1>6, Zenon
<1>8. \A i \in Items : state'[i] = "open" => sub'[i].drop \in {"none", "live", "idle"}
  BY <1>2, <1>5, <1>6, Zenon DEF Owners
<1>9. message'.source \in Sources
  BY <1>2, <1>4, Zenon DEF Owners
<1>10. pc'[Loop] \in {"summary", "reopen"} => sub'[at'[Loop]].drop = "live"
  <2> HIDE DEF PcType
  <2>1. CASE pc' = [pc EXCEPT ![Loop] = "ordinary"]
    BY <1>3, <1>4, <2>1, Zenon
  <2>2. ASSUME NEW owner \in Live(message.source) \ idle, at' = [at EXCEPT ![Loop] = owner]
        PROVE  sub'[at'[Loop]].drop = "live"
    <3>1. at'[Loop] = owner
      BY <1>3, <2>2, Zenon
    <3>2. owner \in Items /\ sub[owner].drop = "live"
      BY <2>2 DEF Live
    <3> QED BY <1>6, <2>2, <3>1, <3>2, Zenon
  <2> QED BY <1>1, <2>1, <2>2, Zenon
<1>11. \A i, j \in Items :
         sub'[i].drop = "live" /\ sub'[j].drop = "live" /\ sub'[i].source = sub'[j].source => i = j
  BY <1>7, Zenon DEF Owners
<1>12. \A i \in Items : sub'[i].drop = "live" => sub'[i].source \in Sources
  BY <1>7, Zenon DEF Owners
<1> QED BY <1>8, <1>9, <1>10, <1>11, <1>12, Zenon DEF Owners

LEMMA OwnersEnd ==
  ASSUME Inv, Owners, Next, NEW i \in Items, NEW reason \in Final, EndFinally(i, reason), ~Lookup
  PROVE  Owners'
<1>1. sub \in [Items -> SubType] /\ state \in [Items -> {"absent", "open", "ended"}]
  BY InvFacts, Zenon DEF RowTypes
<1>2. /\ \A j \in Items : j # i => sub'[j] = sub[j]
      /\ sub'[i].drop # "live" /\ state'[i] = "ended"
  BY <1>1, EndSub, Zenon
<1>3. LoopMove
  BY LoopMoves, Zenon
<1>4. pc'[Loop] \in Routing => message'.source \in Sources
  BY <1>3, Zenon DEF LoopMove, Owners
<1>5. \A j \in Items : sub'[j].drop = "live" => j # i /\ sub'[j] = sub[j]
  BY <1>2, Zenon
<1>6. ASSUME NEW j \in Items, state'[j] = "open" PROVE sub'[j].drop \in {"none", "live", "idle"}
  <2>1. j # i
    BY <1>2, <1>6, Zenon
  <2>2. state[j] = "open"
    <3>1. state' = [state EXCEPT ![i] = "ended"]
      BY Zenon DEF EndFinally
    <3> QED BY <1>1, <1>6, <2>1, <3>1, Zenon
  <2> QED BY <1>2, <2>1, <2>2, Zenon DEF Owners
<1>7. pc'[Loop] \in {"summary", "reopen"} =>
        sub'[at'[Loop]].drop = "live" \/ end_reason'[at'[Loop]] \in {"stopped", "revoked"}
  <2>1. SUFFICES ASSUME pc'[Loop] \in {"summary", "reopen"}
                 PROVE  sub'[at'[Loop]].drop = "live" \/ end_reason'[at'[Loop]] \in Final
    BY Zenon DEF Final
  <2>2. pc[Loop] \in {"summary", "reopen"} /\ at'[Loop] = at[Loop]
    BY <1>3, <2>1, Zenon DEF LoopMove
  <2>3. at[Loop] \in Items
    <3>1. pc[Loop] \in AtItem /\ Loop \in Drivers
      BY <2>2 DEF AtItem, Drivers
    <3> QED BY <3>1, InvFacts, Zenon DEF DriverOK
  <2>4. sub[at[Loop]].drop = "live" \/ end_reason[at[Loop]] \in Final
    BY <2>2, Zenon DEF Owners, Final
  <2>5. end_reason'[i] = reason
    <3>1. end_reason \in [Items -> Reasons] /\ end_reason' = [end_reason EXCEPT ![i] = reason]
      BY InvFacts, Zenon DEF RowTypes, EndFinally
    <3> HIDE DEF Reasons
    <3> QED BY <3>1, Zenon
  <2>6. CASE at[Loop] = i
    BY <2>2, <2>5, <2>6, Zenon
  <2>7. CASE at[Loop] # i
    <3>1. sub'[at[Loop]] = sub[at[Loop]]
      BY <1>2, <2>3, <2>7, Zenon
    <3> QED BY <2>2, <2>3, <2>4, <3>1, FinalStays, Zenon
  <2> QED BY <2>6, <2>7, Zenon
<1> QED BY <1>4, <1>5, <1>6, <1>7, Zenon DEF Owners

LEMMA OwnersStep == ASSUME Inv, Fresh, Owners, Next PROVE Owners'
<1>1. CASE Lookup
  BY <1>1, OwnersLookup, Zenon
<1>2. CASE ~Lookup
  BY <1>2, SubStep, OwnersKept, CreateWithout, OwnersOpen, OwnersEnd, Zenon DEF SubCases
<1> QED BY <1>1, <1>2, Zenon

-----------------------------------------------------------------------------
(* No wake is lost *)

\* A person's input waits, and nobody is about to look.
Watching == {"add", "due", "admit", "start"}
Waiting(i) ==
  /\ state[i] = "open" /\ ~RunningIn(rounds[i]) /\ PersonPending(i) /\ faults = 0
  /\ \A d \in Drivers : at[d] = i => pc[d] \notin Watching
Wake == \A i \in Items : Waiting(i) => left[i] # "no"

\* A step that leaves the rows of an item alone and moves one thread, which
\* was not about to look at it.
LEMMA WakeOther ==
  ASSUME Wake, NEW j \in Items, Waiting(j)', NEW d \in Drivers,
         state'[j] = state[j], rounds'[j] = rounds[j], inputs'[j] = inputs[j],
         faults' = faults, left'[j] = left[j],
         \A e \in Drivers : e # d => pc'[e] = pc[e] /\ at'[e] = at[e],
         at[d] = j => pc[d] \notin Watching
  PROVE  left'[j] # "no"
<1>1. state[j] = "open" /\ ~RunningIn(rounds[j]) /\ PersonPending(j) /\ faults = 0
  BY Zenon DEF Waiting, PersonPending, Pending
<1>2. \A e \in Drivers : at[e] = j => pc[e] \notin Watching
  BY Zenon DEF Waiting
<1>3. Waiting(j)
  BY <1>1, <1>2, Zenon DEF Waiting
<1> QED BY <1>3, Zenon DEF Wake

\* Steps of one thread that is not about to look, and of none.
LEMMA WakeQuiet ==
  ASSUME Wake, NEW d \in Drivers, pc[d] \notin Watching,
         \A e \in Drivers : e # d => pc'[e] = pc[e] /\ at'[e] = at[e],
         UNCHANGED <<Rows, faults, left>>
  PROVE  Wake'
<1>1. UNCHANGED <<state, rounds, inputs, faults, left>>
  BY Zenon DEF Rows
<1>2. SUFFICES ASSUME NEW j \in Items, Waiting(j)' PROVE left'[j] # "no"
  BY Zenon DEF Wake
<1> QED BY <1>1, <1>2, WakeOther, Zenon

LEMMA NotWatching ==
  /\ "admit_first" \notin Watching /\ "turn" \notin Watching /\ "idle" \notin Watching
  /\ "lookup" \notin Watching /\ "summary" \notin Watching /\ "ordinary" \notin Watching
  /\ "reopen" \notin Watching /\ "revoke" \notin Watching /\ "settle" \notin Watching
  /\ "settle_refused" \notin Watching
BY DEF Watching

LEMMA Moved ==
  ASSUME ThreadTypes, NEW d \in Drivers, pc' = pc \/ \E to : pc' = [pc EXCEPT ![d] = to],
         at' = at \/ \E i : at' = [at EXCEPT ![d] = i]
  PROVE  \A e \in Drivers : e # d => pc'[e] = pc[e] /\ at'[e] = at[e]
<1>1. pc \in [Drivers -> PcType] /\ at \in [Drivers -> Items \cup {Nobody}]
  BY Zenon DEF ThreadTypes
<1> HIDE DEF PcType
<1>2. \A e \in Drivers : e # d => pc'[e] = pc[e]
  BY <1>1, Zenon
<1>3. \A e \in Drivers : e # d => at'[e] = at[e]
  BY <1>1, Zenon
<1> QED BY <1>2, <1>3, Zenon

LEMMA FaultySleep == ASSUME Inv, faults < MaxFaults, faults' = faults + 1 PROVE Wake'
<1>1. faults' # 0
  BY InvFacts, OneMoreFault, Zenon
<1> QED BY <1>1, Zenon DEF Wake, Waiting

LEMMA WakeFirst == ASSUME Inv, Wake, NEW i \in Items, FirstRound(i) PROVE Wake'
<1>1. /\ i \in Drivers /\ ThreadTypes
  BY InvFacts, Zenon DEF Drivers
<1>2. /\ pc[i] = "admit_first" /\ UNCHANGED <<rows, faults, left>>
      /\ \E to : pc' = [pc EXCEPT ![i] = to]
      /\ at' = at \/ at' = [at EXCEPT ![i] = i]
  BY Zenon DEF FirstRound, FirstAdmitted, FirstRefused, Begin
<1>3. UNCHANGED <<Rows, faults, left>> /\ pc[i] \notin Watching
  BY <1>2, NotWatching, Zenon DEF rows, Rows
<1>4. \A e \in Drivers : e # i => pc'[e] = pc[e] /\ at'[e] = at[e]
  BY <1>1, <1>2, Moved, Zenon
<1> QED BY <1>1, <1>3, <1>4, WakeQuiet, Zenon

LEMMA WakeOpen ==
  ASSUME Inv, Wake, NEW i \in Items, OpenApi(i) \/ \E subscribe \in BOOLEAN : OpenTool(i, subscribe)
  PROVE  Wake'
<1>1. i \in Drivers /\ ThreadTypes /\ RowTypes /\ DriverOK(i)
  BY InvFacts, Zenon DEF Drivers
<1>2. PICK author, owner : CreateItem(i, author, owner)
  BY Zenon DEF OpenApi, OpenTool
<1>3. /\ state[i] = "absent" /\ state' = [state EXCEPT ![i] = "open"]
      /\ rounds' = [rounds EXCEPT ![i] = <<"running">>] /\ inputs' = inputs
  BY <1>2, Zenon DEF CreateItem
<1>4. left' = left
  BY Zenon DEF OpenApi, OpenTool
<1>5. CASE faults < MaxFaults /\ faults' = faults + 1
  BY <1>5, FaultySleep, Zenon
<1>6. CASE /\ faults' = faults /\ \E to : pc' = [pc EXCEPT ![i] = to]
           /\ at' = [at EXCEPT ![i] = i]
  <2>1. \A e \in Drivers : e # i => pc'[e] = pc[e] /\ at'[e] = at[e]
    BY <1>1, <1>6, Moved, Zenon
  <2>2. SUFFICES ASSUME NEW j \in Items, Waiting(j)' PROVE left'[j] # "no"
    BY Zenon DEF Wake
  <2>3. /\ state \in [Items -> {"absent", "open", "ended"}] /\ rounds \in [Items -> Seq(RoundStates)]
    BY <1>1, Zenon DEF RowTypes
  <2>4. j # i
    <3>1. RunningIn(<<"running">>)
      BY DEF RunningIn
    <3>2. rounds'[i] = <<"running">>
      BY <1>3, <2>3, Zenon
    <3> QED BY <2>2, <3>1, <3>2, Zenon DEF Waiting
  <2>5. state'[j] = state[j] /\ rounds'[j] = rounds[j] /\ inputs'[j] = inputs[j]
    BY <1>3, <2>3, <2>4, Zenon
  <2>6. pc[i] \notin Watching
    <3>1. pc[i] \in Watching => pc[i] \in AtItem
      BY DEF Watching, AtItem
    <3> QED BY <1>1, <1>3, <3>1, Zenon DEF DriverOK
  <2> QED BY <1>1, <1>4, <1>6, <2>1, <2>2, <2>5, <2>6, WakeOther, Zenon
<1>7. \/ faults < MaxFaults /\ faults' = faults + 1
      \/ faults' = faults /\ (\E to : pc' = [pc EXCEPT ![i] = to]) /\ at' = [at EXCEPT ![i] = i]
  BY Zenon DEF OpenApi, OpenTool, Begin
<1> QED BY <1>5, <1>6, <1>7, Zenon

LEMMA WakeAddOther == ASSUME Inv, Wake, NEW i \in Items, AddOther(i) PROVE Wake'
<1> DEFINE row == Recorded(i, FALSE)
<1>1. /\ inputs' = [inputs EXCEPT ![i] = Append(@, row)]
      /\ UNCHANGED <<state, rounds, drives, faults>>
  BY Zenon DEF AddOther
<1>2. RowTypes /\ row.person = FALSE
  BY InvFacts, Zenon DEF Recorded
<1>3. row \in InputType /\ inputs \in [Items -> Seq(InputType)]
  BY <1>2, RecordedType, Zenon DEF RowTypes
<1> HIDE DEF row
<1>4. ASSUME NEW j \in Items, PersonPending(j)' PROVE PersonPending(j)
  <2>1. PICK k \in DOMAIN inputs'[j] : inputs'[j][k].state = "pending" /\ inputs'[j][k].person
    BY <1>4, Zenon DEF PersonPending, Pending
  <2>2. k \in DOMAIN inputs[j] /\ inputs'[j][k] = inputs[j][k]
    <3>1. CASE j # i
      <4> HIDE DEF InputType
      <4> QED BY <1>1, <1>3, <2>1, <3>1, Zenon
    <3>2. CASE j = i
      <4>1. inputs[i] \in Seq(InputType) /\ inputs'[i] = Append(inputs[i], row)
        <5> HIDE DEF InputType
        <5> QED BY <1>1, <1>3
      <4>2. /\ DOMAIN inputs'[i] = DOMAIN inputs[i] \cup {Len(inputs'[i])}
            /\ inputs'[i][Len(inputs'[i])] = row
            /\ \A m \in DOMAIN inputs[i] : inputs'[i][m] = inputs[i][m]
        <5> HIDE DEF InputType
        <5> QED BY <1>3, <4>1, Appended
      <4> QED BY <1>2, <2>1, <3>2, <4>2, Zenon
    <3> QED BY <3>1, <3>2, Zenon
  <2> QED BY <2>1, <2>2, Zenon DEF PersonPending, Pending
<1>5. UNCHANGED <<state, rounds, faults, pc, at, left>>
  BY <1>1, Zenon DEF drives
<1>6. \A j \in Items : Waiting(j)' => Waiting(j)
  BY <1>4, <1>5, Zenon DEF Waiting
<1> QED BY <1>5, <1>6, Zenon DEF Wake

LEMMA WakeRoute ==
  ASSUME Inv, Wake, Lookup \/ Summary \/ OrdinaryEnds \/ \E s \in Sources, a \in Authors : Receive(s, a)
  PROVE  Wake'
<1>1. Loop \in Drivers /\ ThreadTypes
  BY InvFacts, Zenon DEF Drivers
<1>2. UNCHANGED <<Rows, faults, left>>
  BY Zenon DEF Lookup, Summary, OrdinaryEnds, Receive, Rows, rows
<1>3. /\ pc[Loop] \in {"lookup", "summary", "ordinary", "idle"}
      /\ \E to : pc' = [pc EXCEPT ![Loop] = to]
      /\ at' = at \/ \E i : at' = [at EXCEPT ![Loop] = i]
  BY Zenon DEF Lookup, Summary, OrdinaryEnds, Receive, At
<1>4. pc[Loop] \notin Watching
  BY <1>3, NotWatching, Zenon
<1>5. \A e \in Drivers : e # Loop => pc'[e] = pc[e] /\ at'[e] = at[e]
  BY <1>1, <1>3, Moved, Zenon
<1> QED BY <1>1, <1>2, <1>4, <1>5, WakeQuiet, Zenon

LEMMA WakeReopen == ASSUME Inv, Wake, Reopen PROVE Wake'
<1>1. Loop \in Drivers /\ ThreadTypes /\ RowTypes
  BY InvFacts, Zenon DEF Drivers
<1>2. pc[Loop] = "reopen" /\ UNCHANGED <<rounds, inputs, left, faults, last_report, attention>>
  BY Zenon DEF Reopen
<1>3. pc[Loop] \notin Watching
  BY <1>2, NotWatching, Zenon
<1>4. /\ \E to : pc' = [pc EXCEPT ![Loop] = to]
      /\ at' = at \/ \E i : at' = [at EXCEPT ![Loop] = i]
  BY Zenon DEF Reopen, FallThrough, At
<1>5. \A e \in Drivers : e # Loop => pc'[e] = pc[e] /\ at'[e] = at[e]
  BY <1>1, <1>4, Moved, Zenon
<1>6. \/ UNCHANGED <<state, end_reason>>
      \/ state' = [state EXCEPT ![at[Loop]] = "open"] /\ pc' = [pc EXCEPT ![Loop] = "add"] /\ at' = at
  BY Zenon DEF Reopen, At
<1>7. CASE UNCHANGED <<state, end_reason>>
  <2>1. UNCHANGED <<Rows, faults, left>>
    BY <1>2, <1>7, Zenon DEF Rows
  <2> QED BY <1>1, <1>3, <1>5, <2>1, WakeQuiet, Zenon
<1>8. ASSUME state' = [state EXCEPT ![at[Loop]] = "open"], pc' = [pc EXCEPT ![Loop] = "add"], at' = at
      PROVE  Wake'
  <2>1. SUFFICES ASSUME NEW j \in Items, Waiting(j)' PROVE left'[j] # "no"
    BY Zenon DEF Wake
  <2>2. pc'[Loop] = "add" /\ "add" \in Watching
    <3>1. pc \in [Drivers -> PcType] /\ "add" \in Watching
      BY <1>1, Zenon DEF ThreadTypes, Watching
    <3> HIDE DEF PcType
    <3> QED BY <1>1, <1>8, <3>1, Zenon
  <2>3. j # at[Loop]
    BY <1>1, <1>8, <2>1, <2>2, Zenon DEF Waiting
  <2>4. state'[j] = state[j]
    BY <1>1, <1>8, <2>3, Zenon DEF RowTypes
  <2>5. rounds'[j] = rounds[j] /\ inputs'[j] = inputs[j] /\ faults' = faults /\ left'[j] = left[j]
    BY <1>2, Zenon
  <2> QED BY <1>1, <1>3, <1>5, <2>1, <2>4, <2>5, WakeOther, Zenon
<1> QED BY <1>6, <1>7, <1>8, Zenon

LEMMA WakeEnd ==
  ASSUME Inv, Wake, NEW i \in Items, NEW reason, EndFinally(i, reason), NEW d \in Drivers,
         UNCHANGED <<faults, left>>, pc[d] \notin Watching \/ UNCHANGED <<pc, at>>,
         \A e \in Drivers : e # d => pc'[e] = pc[e] /\ at'[e] = at[e]
  PROVE  Wake'
<1>1. state' = [state EXCEPT ![i] = "ended"] /\ UNCHANGED <<rounds, inputs>>
  BY Zenon DEF EndFinally
<1>2. state \in [Items -> {"absent", "open", "ended"}]
  BY InvFacts, Zenon DEF RowTypes
<1>3. SUFFICES ASSUME NEW j \in Items, Waiting(j)' PROVE left'[j] # "no"
  BY Zenon DEF Wake
<1>4. j # i
  <2>1. state'[i] = "ended"
    BY <1>1, <1>2, Zenon
  <2> QED BY <1>3, <2>1, Zenon DEF Waiting
<1>5. /\ state'[j] = state[j] /\ rounds'[j] = rounds[j] /\ inputs'[j] = inputs[j]
      /\ faults' = faults /\ left'[j] = left[j]
  BY <1>1, <1>2, <1>4, Zenon
<1>6. at[d] = j => pc[d] \notin Watching
  BY <1>3, Zenon DEF Waiting
<1> QED BY <1>3, <1>5, <1>6, WakeOther, Zenon

LEMMA WakeStop ==
  ASSUME Inv, Wake, NEW s \in Stops, (\E i \in Items : StopRead(s, i)) \/ StopEnd(s) \/ StopCancel(s)
  PROVE  Wake'
<1>1. Loop \in Drivers /\ StopOK(s)
  BY Zenon DEF Drivers, Inv
<1>2. UNCHANGED <<pc, at, left, faults>>
  BY Zenon DEF StopRead, StopEnd, StopCancel, drives
<1>3. UNCHANGED rows \/ (stop[s].pc = "end" /\ EndFinally(stop[s].item, "stopped"))
  BY Zenon DEF StopRead, StopEnd, StopCancel
<1>4. CASE UNCHANGED rows
  <2>1. UNCHANGED <<state, rounds, inputs>>
    BY <1>4, Zenon DEF rows
  <2>2. \A j \in Items : Waiting(j)' => Waiting(j)
    BY <1>2, <2>1, Zenon DEF Waiting, PersonPending, Pending
  <2> QED BY <1>2, <2>2, Zenon DEF Wake
<1>5. CASE stop[s].pc = "end" /\ EndFinally(stop[s].item, "stopped")
  <2>1. stop[s].item \in Items
    BY <1>1, <1>5, Zenon DEF StopOK
  <2>2. /\ \A e \in Drivers : e # Loop => pc'[e] = pc[e] /\ at'[e] = at[e]
        /\ UNCHANGED <<pc, at>> /\ UNCHANGED <<faults, left>>
    BY <1>2, Zenon
  <2> QED BY <1>1, <1>5, <2>1, <2>2, WakeEnd, Zenon
<1> QED BY <1>3, <1>4, <1>5, Zenon

LEMMA WakeRevoke == ASSUME Inv, Wake, Revoke PROVE Wake'
<1>1. Loop \in Drivers /\ ThreadTypes
  BY InvFacts, Zenon DEF Drivers
<1>2. /\ pc[Loop] = "revoke" /\ pc' = [pc EXCEPT ![Loop] = "ordinary"]
      /\ at' = [at EXCEPT ![Loop] = Nobody] /\ UNCHANGED <<faults, left>>
      /\ UNCHANGED rows \/ EndFinally(at[Loop], "revoked")
  BY Zenon DEF Revoke, FallThrough, At
<1>3. pc[Loop] \notin Watching
  BY <1>2, NotWatching, Zenon
<1>4. \A e \in Drivers : e # Loop => pc'[e] = pc[e] /\ at'[e] = at[e]
  BY <1>1, <1>2, Moved, Zenon
<1>5. CASE UNCHANGED rows
  <2>1. UNCHANGED <<Rows, faults, left>>
    BY <1>2, <1>5, Zenon DEF rows, Rows
  <2> QED BY <1>1, <1>3, <1>4, <2>1, WakeQuiet, Zenon
<1>6. CASE EndFinally(at[Loop], "revoked")
  <2>1. at[Loop] \in Items
    <3>1. pc[Loop] \in AtItem
      BY <1>2 DEF AtItem
    <3> QED BY <1>1, <3>1, InvFacts, Zenon DEF DriverOK
  <2>2. UNCHANGED <<faults, left>>
    BY <1>2, Zenon
  <2> QED BY <1>1, <1>3, <1>4, <1>6, <2>1, <2>2, WakeEnd, Zenon
<1> QED BY <1>2, <1>5, <1>6, Zenon

LEMMA WakeAdd == ASSUME Inv, Wake, AddInput PROVE Wake'
<1> DEFINE row == Recorded(at[Loop], TRUE)
<1>1. Loop \in Drivers /\ ThreadTypes /\ RowTypes
  BY InvFacts, Zenon DEF Drivers
<1>2. PICK i \in Items : i = at[Loop]
  <2>1. pc[Loop] = "add"
    BY Zenon DEF AddInput
  <2>2. pc[Loop] \in AtItem
    BY <2>1 DEF AtItem
  <2> QED BY <1>1, <2>2, InvFacts, Zenon DEF DriverOK
<1>3. /\ UNCHANGED <<state, rounds, faults>>
      /\ \/ /\ inputs' = [inputs EXCEPT ![i] = Append(@, row)] /\ left' = [left EXCEPT ![i] = "no"]
            /\ \/ row.state = "steered" /\ Finish(Loop)
               \/ row.state # "steered" /\ pc' = [pc EXCEPT ![Loop] = "due"] /\ at' = at
         \/ state[i] # "open" /\ UNCHANGED <<inputs, left>> /\ FallThrough("add")
  BY <1>2, Zenon DEF AddInput
<1>4. row.state = "steered" => RunningIn(rounds[i])
  BY <1>2, Zenon DEF Recorded, Running, RunningIn
<1> HIDE DEF row
<1>5. \A e \in Drivers : e # Loop => pc'[e] = pc[e] /\ at'[e] = at[e]
  <2>1. /\ \E to : pc' = [pc EXCEPT ![Loop] = to]
        /\ at' = at \/ \E x : at' = [at EXCEPT ![Loop] = x]
    BY <1>3, Zenon DEF Finish, FallThrough, At
  <2> QED BY <1>1, <2>1, Moved, Zenon
<1>6. SUFFICES ASSUME NEW j \in Items, Waiting(j)' PROVE left'[j] # "no"
  BY Zenon DEF Wake
<1>7. j # i
  <2>1. CASE row.state = "steered" \/ state[i] # "open"
    BY <1>3, <1>4, <1>6, <2>1, Zenon DEF Waiting
  <2>2. CASE pc' = [pc EXCEPT ![Loop] = "due"] /\ at' = at
    <3>1. pc \in [Drivers -> PcType] /\ "due" \in Watching
      BY <1>1, Zenon DEF ThreadTypes, Watching
    <3> HIDE DEF PcType
    <3>2. pc'[Loop] = "due"
      BY <1>1, <2>2, <3>1, Zenon
    <3> QED BY <1>1, <1>2, <1>6, <2>2, <3>1, <3>2, Zenon DEF Waiting
  <2> QED BY <1>3, <2>1, <2>2, Zenon
<1>8. inputs'[j] = inputs[j] /\ left'[j] = left[j]
  <2>1. inputs \in [Items -> Seq(InputType)] /\ DOMAIN left = Items
    BY <1>1, Zenon DEF RowTypes, ThreadTypes
  <2> HIDE DEF InputType
  <2> QED BY <1>3, <1>7, <2>1, Zenon
<1>9. state'[j] = state[j] /\ rounds'[j] = rounds[j] /\ faults' = faults /\ at[Loop] # j
  BY <1>2, <1>3, <1>7, Zenon
<1> QED BY <1>1, <1>5, <1>6, <1>8, <1>9, WakeOther, Zenon

\* A drive moves one thread at one item: what is left to show is about the
\* item itself.
LEMMA WakeDrive ==
  ASSUME Inv, Wake, NEW d \in Drivers, Drive(d), faults' = faults,
         NEW i \in Items, at[d] = i,
         \A j \in Items : j # i => /\ state'[j] = state[j] /\ rounds'[j] = rounds[j]
                                   /\ inputs'[j] = inputs[j] /\ left'[j] = left[j],
         Waiting(i)' => left'[i] # "no"
  PROVE  Wake'
<1>1. \A e \in Drivers : e # d => pc'[e] = pc[e] /\ at'[e] = at[e]
  BY DriveMoves, Zenon
<1>2. SUFFICES ASSUME NEW j \in Items, Waiting(j)', j # i PROVE left'[j] # "no"
  BY Zenon DEF Wake
<1> QED BY <1>1, <1>2, WakeOther, Zenon

\* A person's input that waits is reason enough for a round.
LEMMA WaitingWanted ==
  ASSUME NEW i \in Items, state[i] = "open", ~RunningIn(rounds[i]), PersonPending(i)
  PROVE  Wanted(i)
BY Zenon DEF Wanted, Running, RunningIn, PersonPending

LEMMA WakeLook == ASSUME Inv, Wake, NEW d \in Drivers, LookAgain(d) PROVE Wake'
<1>1. ThreadTypes /\ Drive(d) /\ pc[d] = "due"
  BY InvFacts, Zenon DEF Drive, LookAgain
<1>2. PICK i \in Items : i = at[d]
  <2>1. pc[d] \in AtItem
    BY <1>1 DEF AtItem
  <2> QED BY <2>1, InvFacts, Zenon DEF DriverOK
<1>3. /\ UNCHANGED <<state, rounds, inputs, faults>>
      /\ Due(i) => pc' = [pc EXCEPT ![d] = "admit"] /\ at' = at
      /\ left' = IF Wanted(i) /\ HourlyCap(i) THEN [left EXCEPT ![i] = "held_back"] ELSE left
  BY <1>2, Zenon DEF LookAgain, rows
<1>4. left \in [Items -> {"no", "held_back", "refused"}] /\ pc \in [Drivers -> PcType]
  BY <1>1, Zenon DEF ThreadTypes
<1>5. \A j \in Items : j # i => left'[j] = left[j]
  BY <1>3, <1>4, Zenon
<1>6. ASSUME Waiting(i)' PROVE left'[i] # "no"
  <2>1. Wanted(i)
    <3>1. state[i] = "open" /\ ~RunningIn(rounds[i]) /\ PersonPending(i)
      BY <1>3, <1>6, Zenon DEF Waiting, PersonPending, Pending
    <3> QED BY <3>1, WaitingWanted, Zenon
  <2>2. ~Due(i)
    <3> HIDE DEF PcType
    <3>1. "admit" \in Watching
      BY DEF Watching
    <3>2. SUFFICES ASSUME Due(i) PROVE FALSE
      OBVIOUS
    <3>3. pc'[d] = "admit" /\ at'[d] = i
      BY <1>2, <1>3, <1>4, <3>2, Zenon
    <3> QED BY <1>6, <3>1, <3>3, Zenon DEF Waiting
  <2>3. left'[i] = "held_back"
    BY <1>3, <1>4, <2>1, <2>2, Zenon DEF Due
  <2> QED BY <2>3
<1>7. \A j \in Items : j # i => /\ state'[j] = state[j] /\ rounds'[j] = rounds[j]
                                /\ inputs'[j] = inputs[j] /\ left'[j] = left[j]
  BY <1>3, <1>5, Zenon
<1>8. faults' = faults
  BY <1>3, Zenon
<1> QED BY <1>1, <1>2, <1>6, <1>7, <1>8, WakeDrive, Zenon

LEMMA WakeAdmit == ASSUME Inv, Wake, NEW d \in Drivers, Admit(d) PROVE Wake'
<1>1. ThreadTypes /\ Drive(d) /\ pc[d] = "admit"
  BY InvFacts, Zenon DEF Drive, Admit
<1>2. PICK i \in Items : i = at[d]
  <2>1. pc[d] \in AtItem
    BY <1>1 DEF AtItem
  <2> QED BY <2>1, InvFacts, Zenon DEF DriverOK
<1>3. /\ UNCHANGED <<state, rounds, inputs, faults>>
      /\ \/ pc' = [pc EXCEPT ![d] = "start"] /\ at' = at /\ left' = left
         \/ left' = [left EXCEPT ![i] = "held_back"]
  BY <1>2, Zenon DEF Admit, rows
<1>4. left \in [Items -> {"no", "held_back", "refused"}] /\ pc \in [Drivers -> PcType]
  BY <1>1, Zenon DEF ThreadTypes
<1>5. \A j \in Items : j # i => left'[j] = left[j]
  BY <1>3, <1>4, Zenon
<1>6. ASSUME Waiting(i)' PROVE left'[i] # "no"
  <2>1. CASE pc' = [pc EXCEPT ![d] = "start"] /\ at' = at
    <3> HIDE DEF PcType
    <3>1. "start" \in Watching
      BY DEF Watching
    <3>2. pc'[d] = "start" /\ at'[d] = i
      BY <1>2, <1>4, <2>1, Zenon
    <3> QED BY <1>6, <3>1, <3>2, Zenon DEF Waiting
  <2>2. CASE left' = [left EXCEPT ![i] = "held_back"]
    <3>1. left'[i] = "held_back"
      BY <1>4, <2>2, Zenon
    <3> QED BY <3>1
  <2> QED BY <1>3, <2>1, <2>2, Zenon
<1>7. \A j \in Items : j # i => /\ state'[j] = state[j] /\ rounds'[j] = rounds[j]
                                /\ inputs'[j] = inputs[j] /\ left'[j] = left[j]
  BY <1>3, <1>5, Zenon
<1>8. faults' = faults
  BY <1>3, Zenon
<1> QED BY <1>1, <1>2, <1>6, <1>7, <1>8, WakeDrive, Zenon

LEMMA WakeStart == ASSUME Inv, Wake, NEW d \in Drivers, StartRound(d) PROVE Wake'
<1>1. ThreadTypes /\ RowTypes /\ Drive(d) /\ pc[d] = "start"
  BY InvFacts, Zenon DEF Drive, StartRound
<1>2. PICK i \in Items : i = at[d]
  <2>1. pc[d] \in AtItem
    BY <1>1 DEF AtItem
  <2> QED BY <2>1, InvFacts, Zenon DEF DriverOK
<1>3. /\ UNCHANGED <<state, faults>>
      /\ \/ /\ rounds' = [rounds EXCEPT ![i] = Append(@, "running")]
            /\ \E v : inputs' = [inputs EXCEPT ![i] = v]
            /\ left' = [left EXCEPT ![i] = "no"]
         \/ /\ UNCHANGED <<rounds, inputs>>
            /\ left' = IF Wanted(i) THEN [left EXCEPT ![i] = "held_back"] ELSE left
  BY <1>2, Zenon DEF StartRound, NextRound, rows
<1>4. /\ left \in [Items -> {"no", "held_back", "refused"}]
      /\ rounds \in [Items -> Seq(RoundStates)] /\ inputs \in [Items -> Seq(InputType)]
  BY <1>1, Zenon DEF ThreadTypes, RowTypes
<1> HIDE DEF InputType, RoundStates
<1>5. \A j \in Items : j # i => left'[j] = left[j]
  BY <1>3, <1>4, Zenon
<1>6. \A j \in Items : j # i => rounds'[j] = rounds[j] /\ inputs'[j] = inputs[j]
  BY <1>3, <1>4, Zenon
<1>7. ASSUME Waiting(i)' PROVE left'[i] # "no"
  <2>1. CASE rounds' = [rounds EXCEPT ![i] = Append(@, "running")]
    <3>1. rounds[i] \in Seq(RoundStates) /\ rounds'[i] = Append(rounds[i], "running")
      BY <1>4, <2>1
    <3>2. "running" \in RoundStates
      BY DEF RoundStates
    <3>3. RunningIn(rounds'[i])
      BY <3>1, <3>2, Appended DEF RunningIn
    <3> QED BY <1>7, <3>3, Zenon DEF Waiting
  <2>2. CASE /\ UNCHANGED <<rounds, inputs>>
             /\ left' = IF Wanted(i) THEN [left EXCEPT ![i] = "held_back"] ELSE left
    <3>1. state[i] = "open" /\ ~RunningIn(rounds[i]) /\ PersonPending(i)
      BY <1>3, <1>7, <2>2, Zenon DEF Waiting, PersonPending, Pending
    <3>2. Wanted(i)
      BY <3>1, WaitingWanted, Zenon
    <3>3. left'[i] = "held_back"
      BY <1>4, <2>2, <3>2, Zenon
    <3> QED BY <3>3
  <2> QED BY <1>3, <2>1, <2>2, Zenon
<1>8. \A j \in Items : j # i => /\ state'[j] = state[j] /\ rounds'[j] = rounds[j]
                                /\ inputs'[j] = inputs[j] /\ left'[j] = left[j]
  BY <1>3, <1>5, <1>6, Zenon
<1>9. faults' = faults
  BY <1>3, Zenon
<1> QED BY <1>1, <1>2, <1>7, <1>8, <1>9, WakeDrive, Zenon

LEMMA WakeTurn ==
  ASSUME Inv, Wake, NEW d \in Drivers, TurnRegisters(d) \/ TurnCloses(d) \/ TurnEnds(d)
  PROVE  Wake'
<1>1. Drive(d) /\ DriverOK(d) /\ turn[d] # "none"
  BY InvFacts, Zenon DEF Drive, TurnRegisters, TurnCloses, TurnEnds
<1>2. pc[d] \notin Watching
  BY <1>1, NotWatching, Zenon DEF DriverOK
<1>3. UNCHANGED <<Rows, faults, left>>
  BY Zenon DEF TurnRegisters, TurnCloses, TurnEnds, rows, Rows
<1>4. \A e \in Drivers : e # d => pc'[e] = pc[e] /\ at'[e] = at[e]
  BY <1>1, DriveMoves, Zenon
<1> QED BY <1>2, <1>3, <1>4, WakeQuiet, Zenon

LEMMA WakeSettle == ASSUME Inv, Wake, NEW d \in Drivers, Settle(d) PROVE Wake'
<1>1. ThreadTypes /\ RowTypes /\ Drive(d) /\ pc[d] \in {"settle", "settle_refused"}
  BY InvFacts, Zenon DEF Drive, Settle
<1>2. PICK i \in Items : i = at[d]
  <2>1. pc[d] \in AtItem
    BY <1>1 DEF AtItem, Holding
  <2> QED BY <2>1, InvFacts, Zenon DEF DriverOK
<1>3. CASE faults < MaxFaults /\ faults' = faults + 1
  BY <1>3, FaultySleep, Zenon
<1>4. ASSUME SettleRows(i, seq[d], outcome[d]), faults' = faults PROVE Wake'
  <2>1. /\ \E v : rounds' = [rounds EXCEPT ![i] = v] \/ rounds' = rounds
        /\ state' = state \/ \E v : state' = [state EXCEPT ![i] = v]
        /\ inputs' = inputs
    BY <1>4, Zenon DEF SettleRows, Settled, rows
  <2>2. \/ pc' = [pc EXCEPT ![d] = "due"] /\ at' = at /\ left' = left
        \/ left' = [left EXCEPT ![i] = "refused"]
    BY <1>2, Zenon DEF Settle, AfterRound
  <2>3. /\ left \in [Items -> {"no", "held_back", "refused"}] /\ pc \in [Drivers -> PcType]
        /\ rounds \in [Items -> Seq(RoundStates)]
        /\ state \in [Items -> {"absent", "open", "ended"}]
    BY <1>1, Zenon DEF ThreadTypes, RowTypes
  <2> HIDE DEF RoundStates, PcType
  <2>4. \A j \in Items : j # i => left'[j] = left[j]
    BY <2>2, <2>3, Zenon
  <2>5. \A j \in Items : j # i => rounds'[j] = rounds[j] /\ state'[j] = state[j]
    BY <2>1, <2>3, Zenon
  <2>6. ASSUME Waiting(i)' PROVE left'[i] # "no"
    <3>1. CASE pc' = [pc EXCEPT ![d] = "due"] /\ at' = at
      <4>1. "due" \in Watching
        BY DEF Watching
      <4>2. pc'[d] = "due" /\ at'[d] = i
        BY <1>2, <2>3, <3>1, Zenon
      <4> QED BY <2>6, <4>1, <4>2, Zenon DEF Waiting
    <3>2. CASE left' = [left EXCEPT ![i] = "refused"]
      <4>1. left'[i] = "refused"
        BY <2>3, <3>2, Zenon
      <4> QED BY <4>1
    <3> QED BY <2>2, <3>1, <3>2, Zenon
  <2>7. \A j \in Items : j # i => /\ state'[j] = state[j] /\ rounds'[j] = rounds[j]
                                  /\ inputs'[j] = inputs[j] /\ left'[j] = left[j]
    BY <2>1, <2>4, <2>5, Zenon
  <2> QED BY <1>1, <1>2, <1>4, <2>6, <2>7, WakeDrive, Zenon
<1>5. \/ faults < MaxFaults /\ faults' = faults + 1
      \/ SettleRows(i, seq[d], outcome[d]) /\ faults' = faults
  BY <1>2, Zenon DEF Settle
<1> QED BY <1>3, <1>4, <1>5, Zenon

LEMMA WakeInit == ASSUME Init PROVE Wake
<1>1. \A i \in Items : state[i] = "absent"
  BY Zenon DEF Init
<1> QED BY <1>1 DEF Wake, Waiting

LEMMA WakeStep == ASSUME Inv, Wake, Next PROVE Wake'
<1> HIDE DEF Inv, Wake
<1>1. CASE \E i \in Items : OpenApi(i) \/ FirstRound(i) \/ AddOther(i)
  BY <1>1, WakeOpen, WakeFirst, WakeAddOther, Zenon
<1>2. CASE \E i \in Items, subscribe \in BOOLEAN : OpenTool(i, subscribe)
  BY <1>2, WakeOpen, Zenon
<1>3. CASE \E s \in Sources, a \in Authors : Receive(s, a)
  BY <1>3, WakeRoute, Zenon
<1>4. CASE Route
  BY <1>4, WakeRoute, WakeReopen, WakeRevoke, WakeAdd, Zenon DEF Route
<1>5. CASE \E d \in Drivers : Drive(d)
  BY <1>5, WakeLook, WakeAdmit, WakeStart, WakeTurn, WakeSettle, Zenon DEF Drive
<1>6. CASE \E s \in Stops : (\E i \in Items : StopRead(s, i)) \/ StopEnd(s) \/ StopCancel(s)
  BY <1>6, WakeStop, Zenon
<1>7. CASE Crash
  BY <1>7, FaultySleep, Zenon DEF Crash
<1> QED BY <1>1, <1>2, <1>3, <1>4, <1>5, <1>6, <1>7, Zenon DEF Next

LEMMA WakeStutters == ASSUME Wake, UNCHANGED vars PROVE Wake'
<1>1. UNCHANGED <<state, rounds, inputs, faults, pc, at, left>>
  BY Zenon DEF vars, rows, drives
<1>2. \A i \in Items : Waiting(i)' => Waiting(i)
  BY <1>1, Zenon DEF Waiting, PersonPending, Pending
<1> QED BY <1>1, <1>2, Zenon DEF Wake

LEMMA WakeIsNotLost == ASSUME Wake PROVE WakeNotLost
<1>1. \A i \in Items : Unseen(i) => Waiting(i)
  BY Zenon DEF Unseen, Waiting, Wanted, Running, RunningIn, Watching
<1> QED BY <1>1, Zenon DEF Wake, WakeNotLost

\* No wake is lost, however the rounds of an item, the messages to it, its
\* stops and its reopening interleave: a person's input that waits at an open
\* item has a thread about to look, or its last drive was held back (drive,
\* add_input, start_round).
THEOREM AlwaysWakeNotLost == Spec => []WakeNotLost
<1>1. Init => Wake
  BY WakeInit
<1>2. Inv /\ Wake /\ [Next]_vars => Wake'
  BY WakeStep, WakeStutters
<1>3. Wake => WakeNotLost
  BY WakeIsNotLost
<1>4. Spec => []Inv
  BY Invariant, PTL
<1> QED BY <1>1, <1>2, <1>3, <1>4, PTL DEF Spec

-----------------------------------------------------------------------------
(* What is counted *)

Sets == INSTANCE FiniteSetTheorems

LEMMA SameSets ==
  ASSUME NEW S
  PROVE  Sets!Cardinality(S) = Cardinality(S) /\ (Sets!IsFiniteSet(S) <=> IsFiniteSet(S))
<1>1. Sets!Cardinality(S) = Cardinality(S)
  BY DEF Sets!Cardinality, Cardinality
<1>2. Sets!IsFiniteSet(S) <=> IsFiniteSet(S)
  BY DEF Sets!IsFiniteSet, IsFiniteSet
<1> QED BY <1>1, <1>2, Zenon

LEMMA Counting ==
  /\ IsFiniteSet({}) /\ Cardinality({}) = 0
  /\ \A S, x : IsFiniteSet(S) =>
       /\ Cardinality(S) \in Nat
       /\ IsFiniteSet(S \cup {x})
       /\ Cardinality(S \cup {x}) \in {Cardinality(S), Cardinality(S) + 1}
       /\ IsFiniteSet(S \ {x})
       /\ x \in S => Cardinality(S \ {x}) = Cardinality(S) - 1
<1>1. Sets!IsFiniteSet({}) /\ Sets!Cardinality({}) = 0
  BY Sets!FS_EmptySet, Zenon
<1>2. ASSUME NEW S, NEW x, Sets!IsFiniteSet(S)
      PROVE  /\ Sets!Cardinality(S) \in Nat
             /\ Sets!IsFiniteSet(S \cup {x})
             /\ Sets!Cardinality(S \cup {x}) \in {Sets!Cardinality(S), Sets!Cardinality(S) + 1}
             /\ Sets!IsFiniteSet(S \ {x})
             /\ x \in S => Sets!Cardinality(S \ {x}) = Sets!Cardinality(S) - 1
  <2>1. Sets!Cardinality(S) \in Nat
    BY <1>2, Sets!FS_CardinalityType, Zenon
  <2>2. /\ Sets!IsFiniteSet(S \cup {x})
        /\ Sets!Cardinality(S \cup {x}) \in {Sets!Cardinality(S), Sets!Cardinality(S) + 1}
    BY <1>2, Sets!FS_AddElement, Zenon
  <2>3. /\ Sets!IsFiniteSet(S \ {x})
        /\ x \in S => Sets!Cardinality(S \ {x}) = Sets!Cardinality(S) - 1
    BY <1>2, Sets!FS_RemoveElement, Zenon
  <2> QED BY <2>1, <2>2, <2>3, Zenon
<1> QED BY <1>1, <1>2, SameSets, Zenon

LEMMA AtMostOne == ASSUME NEW S, \A x, y \in S : x = y PROVE Cardinality(S) <= 1
<1>1. CASE S = {}
  <2>1. Cardinality(S) = 0
    BY <1>1, Counting, Zenon
  <2> QED BY <2>1
<1>2. ASSUME NEW x \in S PROVE Cardinality(S) <= 1
  <2>1. S = {} \cup {x}
    OBVIOUS
  <2>2. Cardinality(S) \in {Cardinality({}), Cardinality({}) + 1} /\ Cardinality({}) = 0
    BY <2>1, Counting, Zenon
  <2> QED BY <2>2
<1> QED BY <1>1, <1>2, Zenon

\* One round of an item at a time, and none for nothing: only its last round
\* can be running, one thread has its turn, and every round after the first
\* reads an input of its own, whatever two wakes look at meanwhile
\* (start_work_item_round, settle_work_item_round, start_round).
THEOREM AlwaysOneRoundAtATime == Spec => []OneRoundAtATime
<1>1. Inv => OneRoundAtATime
  <2>1. SUFFICES ASSUME Inv, NEW i \in Items
                 PROVE  /\ \A k \in DOMAIN rounds[i] : rounds[i][k] = "running" => k = Len(rounds[i])
                        /\ end_reason[i] \in {"completed", "dropped", "revoked"} => ~Running(i)
                        /\ Cardinality({d \in Drivers : at[d] = i /\ turn[d] # "none"}) <= 1
                        /\ \A k \in 2..Len(rounds[i]) :
                             \E n \in DOMAIN inputs[i] :
                               inputs[i][n].state = "consumed" /\ inputs[i][n].round = k
    BY Zenon DEF OneRoundAtATime
  <2>2. /\ \A k \in DOMAIN rounds[i] : rounds[i][k] = "running" => k = Len(rounds[i])
        /\ end_reason[i] \in {"completed", "dropped", "revoked"} => ~Running(i)
        /\ \A k \in 2..Len(rounds[i]) : \E n \in DOMAIN inputs[i] : Reads(inputs[i][n], k)
    <3>1. ItemOK(i)
      BY <2>1, InvFacts, Zenon
    <3> QED BY <3>1, Zenon DEF ItemOK, RowOK, Running, RunningIn
  <2>3. Cardinality({d \in Drivers : at[d] = i /\ turn[d] # "none"}) <= 1
    <3>1. "turn" \in Holding
      BY DEF Holding
    <3>2. \A d, e \in {x \in Drivers : at[x] = i /\ turn[x] # "none"} : d = e
      <4>1. \A d \in Drivers : turn[d] # "none" => pc[d] \in Holding
        BY <2>1, <3>1, InvFacts, Zenon DEF DriverOK
      <4>2. Apart
        BY <2>1, InvFacts, Zenon
      <4> QED BY <4>1, <4>2, Zenon DEF Apart
    <3> QED BY <3>2, AtMostOne, Zenon
  <2> QED BY <2>2, <2>3, Zenon DEF Reads
<1> QED BY <1>1, Invariant, PTL

\* A conversation has one live owner, and an item open in it is never
\* replaced, although ended items lose theirs to a new one and reopen later
\* (create_work_item_with_owner, reopen).
THEOREM AlwaysOneOwner == Spec => []OneOwner
<1>1. Init => Owners
  BY OwnersInit
<1>2. Inv /\ Fresh /\ Owners /\ [Next]_vars => Owners'
  <2>1. ASSUME Owners, UNCHANGED vars PROVE Owners'
    <3>1. UNCHANGED <<state, end_reason, sub, pc, at, message>>
      BY <2>1, Zenon DEF vars, rows, drives
    <3> QED BY <2>1, <3>1, Zenon DEF Owners
  <2> QED BY <2>1, OwnersStep
<1>3. Owners => OneOwner
  <2>1. SUFFICES ASSUME Owners, NEW s \in Sources PROVE Cardinality(Live(s)) <= 1
    BY DEF Owners, OneOwner
  <2>2. \A i \in Live(s) : i \in Items /\ sub[i].drop = "live" /\ sub[i].source = s
    BY DEF Live
  <2>3. \A i, j \in Live(s) : i = j
    BY <2>1, <2>2, Zenon DEF Owners
  <2> QED BY <2>3, AtMostOne, Zenon
<1> QED BY <1>1, <1>2, <1>3, Invariant, PTL DEF Spec

\* How many items are open.
Capped == IsFiniteSet(OpenItems) /\ CapRespected

LEMMA CappedInit == ASSUME Init PROVE Capped
<1>1. \A i \in Items : state[i] = "absent"
  BY Zenon DEF Init
<1>2. OpenItems = {}
  BY <1>1 DEF OpenItems
<1>3. IsFiniteSet(OpenItems) /\ Cardinality(OpenItems) = 0
  BY <1>2, Counting, Zenon
<1>4. MaxOpenItems \in Nat
  BY WorkItemsAssumption
<1> QED BY <1>3, <1>4 DEF Capped, CapRespected

\* One more open item is within the cap that was not reached.
LEMMA CappedMore ==
  ASSUME Capped, ~AtOpenCap, NEW i, OpenItems' = OpenItems \cup {i} PROVE Capped'
<1>1. /\ IsFiniteSet(OpenItems') /\ Cardinality(OpenItems) \in Nat
      /\ Cardinality(OpenItems') \in {Cardinality(OpenItems), Cardinality(OpenItems) + 1}
  BY Counting, ZenonT(30) DEF Capped
<1>2. MaxOpenItems \in Nat
  BY WorkItemsAssumption
<1>3. MaxOpenItems > 0 => ~(Cardinality(OpenItems) >= MaxOpenItems)
  BY Zenon DEF AtOpenCap
<1>4. MaxOpenItems > 0 => Cardinality(OpenItems') <= MaxOpenItems
  <2> HIDE DEF OpenItems
  <2> QED BY <1>1, <1>2, <1>3
<1> QED BY <1>1, <1>4, Zenon DEF Capped, CapRespected

LEMMA CappedLess ==
  ASSUME Capped, NEW i, OpenItems' = OpenItems \ {i} PROVE Capped'
<1>1. CASE i \in OpenItems
  <2>1. /\ IsFiniteSet(OpenItems') /\ Cardinality(OpenItems) \in Nat
        /\ Cardinality(OpenItems') = Cardinality(OpenItems) - 1
    BY <1>1, Counting, ZenonT(30) DEF Capped
  <2>2. MaxOpenItems \in Nat
    BY WorkItemsAssumption
  <2>3. MaxOpenItems > 0 => Cardinality(OpenItems) <= MaxOpenItems
    BY Zenon DEF Capped, CapRespected
  <2>4. MaxOpenItems > 0 => Cardinality(OpenItems') <= MaxOpenItems
    <3> HIDE DEF OpenItems
    <3> QED BY <2>1, <2>2, <2>3
  <2> QED BY <2>1, <2>4, Zenon DEF Capped, CapRespected
<1>2. CASE i \notin OpenItems
  <2>1. OpenItems' = OpenItems
    BY <1>2, Zenon
  <2> QED BY <2>1, Zenon DEF Capped, CapRespected
<1> QED BY <1>1, <1>2, Zenon

LEMMA CappedStep == ASSUME Inv, Capped, Next PROVE Capped'
<1>1. OneRow
  BY NextRow, Zenon
<1>2. CASE \A i \in Items : SameRow(i)
  <2>1. OpenItems' = OpenItems
    BY <1>2, Zenon DEF SameRow, OpenItems
  <2> QED BY <2>1, Zenon DEF Capped, CapRespected
<1>3. ASSUME NEW i \in Items, RowChange(i), \A j \in Items : j # i => SameRow(j)
      PROVE  Capped'
  <2>1. \A j \in Items : j # i => state'[j] = state[j]
    BY <1>3, Zenon DEF SameRow
  <2>2. CASE state'[i] = "open"
    <3>1. OpenItems' = OpenItems \cup {i}
      BY <2>1, <2>2 DEF OpenItems
    <3>2. ~AtOpenCap \/ state'[i] = state[i]
      BY <1>3, <2>2 DEF RowChange, Opened, Reopened, Ended, Went, Counted
    <3>3. CASE state'[i] = state[i]
      <4>1. OpenItems' = OpenItems
        BY <2>1, <3>3 DEF OpenItems
      <4> QED BY <4>1, Zenon DEF Capped, CapRespected
    <3> QED BY <3>1, <3>2, <3>3, CappedMore, Zenon
  <2>3. CASE state'[i] # "open"
    <3>1. OpenItems' = OpenItems \ {i}
      BY <2>1, <2>3 DEF OpenItems
    <3> QED BY <3>1, CappedLess, Zenon
  <2> QED BY <2>2, <2>3, Zenon
<1> QED BY <1>1, <1>2, <1>3, Zenon DEF OneRow

\* Never more items open than maxOpenItems allows, however opening, reopening
\* and the rounds' own endings interleave (the count and the insert or update
\* are under one hold of the writer lock).
THEOREM AlwaysCapRespected == Spec => []CapRespected
<1>1. Init => Capped
  BY CappedInit
<1>2. Inv /\ Capped /\ [Next]_vars => Capped'
  <2>1. ASSUME Capped, UNCHANGED vars PROVE Capped'
    <3>1. UNCHANGED state
      BY <2>1, Zenon DEF vars, rows
    <3>2. OpenItems' = OpenItems
      BY <3>1, Zenon DEF OpenItems
    <3> QED BY <2>1, <3>2, Zenon DEF Capped, CapRespected
  <2> QED BY <2>1, CappedStep
<1>3. Capped => CapRespected
  BY DEF Capped
<1>4. Spec => []Inv
  BY Invariant, PTL
<1> QED BY <1>1, <1>2, <1>3, <1>4, PTL DEF Spec
=============================================================================
