-------------------------------- MODULE Turn --------------------------------
(***************************************************************************)
(* What the chat promises of a running turn to everyone outside it: one    *)
(* attempt at a time holds a turn, and a message sent to a turn is refused *)
(* or becomes that turn's, which reads it before its model answers.        *)
(* Nothing here knows of registries, locks, inboxes that close or threads  *)
(* that look up a turn and act on it later: ActiveTurns has those, and     *)
(* implements this.                                                        *)
(***************************************************************************)
CONSTANTS
  Attempts, Nobody,  \* the attempts; none of them
  TurnKey,           \* the turn each is at
  Messages

VARIABLES
  holders,   \* the attempts that hold their turn
  fate,      \* each message: undecided, refused, or the turn's it was sent to
  waiting,   \* messages each attempt has still to read
  seen,      \* messages it has read
  answered   \* attempts whose model answered

vars == <<holders, fate, waiting, seen, answered>>

Undecided == [state |-> "undecided", turn |-> Nobody]
Refused == [state |-> "refused", turn |-> Nobody]
Accepted(a) == [state |-> "accepted", turn |-> a]

Init ==
  /\ holders = {}
  /\ fate = [m \in Messages |-> Undecided]
  /\ waiting = [a \in Attempts |-> {}]
  /\ seen = [a \in Attempts |-> {}]
  /\ answered = {}

Hold(a) ==
  /\ \A b \in holders : TurnKey[b] # TurnKey[a]
  /\ holders' = holders \cup {a}
  /\ UNCHANGED <<fate, waiting, seen, answered>>

LetGo(a) ==
  /\ holders' = holders \ {a}
  /\ UNCHANGED <<fate, waiting, seen, answered>>

Refuse(m) ==
  /\ fate[m] = Undecided
  /\ fate' = [fate EXCEPT ![m] = Refused]
  /\ UNCHANGED <<holders, waiting, seen, answered>>

\* Never one that has answered.
Accept(m, a) ==
  /\ fate[m] = Undecided /\ a \notin answered
  /\ fate' = [fate EXCEPT ![m] = Accepted(a)]
  /\ waiting' = [waiting EXCEPT ![a] = @ \cup {m}]
  /\ UNCHANGED <<holders, seen, answered>>

Read(a) ==
  /\ a \notin answered
  /\ seen' = [seen EXCEPT ![a] = @ \cup waiting[a]]
  /\ waiting' = [waiting EXCEPT ![a] = {}]
  /\ UNCHANGED <<holders, fate, answered>>

Answer(a) ==
  /\ waiting[a] = {} /\ a \notin answered
  /\ answered' = answered \cup {a}
  /\ UNCHANGED <<holders, fate, waiting, seen>>

Next ==
  \/ \E a \in Attempts : Hold(a) \/ LetGo(a) \/ Read(a) \/ Answer(a)
  \/ \E m \in Messages : Refuse(m) \/ \E a \in Attempts : Accept(m, a)

Spec == Init /\ [][Next]_vars
=============================================================================
