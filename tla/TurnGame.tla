------------------------------ MODULE TurnGame ------------------------------
(***************************************************************************)
(* What a turn-based game promises the players of a channel, whatever its  *)
(* rules: who may join and when, who holds the turn, whom it passes to and *)
(* when the game is over.  The modules of the games show that they         *)
(* implement this specification.                                           *)
(***************************************************************************)
EXTENDS GameF

CONSTANT MaySkip  \* a move may skip one player

VARIABLES
  players,   \* who takes part
  started,   \* the cards are dealt
  current,   \* whose turn it is
  forwards   \* the direction of play

vars == <<players, started, current, forwards>>

TypeOK ==
  /\ players \subseteq User
  /\ started \in BOOLEAN
  /\ current \in User \cup {NoUser}
  /\ forwards \in BOOLEAN

Init ==
  /\ players = {}
  /\ started = FALSE
  /\ current = NoUser
  /\ forwards = TRUE

-----------------------------------------------------------------------------

\* A lobby takes anyone, once.
Join(u) ==
  /\ ~started
  /\ u \notin players
  /\ players' = players \cup {u}
  /\ UNCHANGED <<started, current, forwards>>

LeaveLobby(u) ==
  /\ ~started
  /\ u \in players
  /\ players' = players \ {u}
  /\ UNCHANGED <<started, current, forwards>>

\* Enough players start; the deal may already finish some of them.
Start ==
  /\ ~started
  /\ Cardinality(players) >= MIN_PLAYERS
  /\ started' = TRUE
  /\ players' \in SUBSET players
  /\ current' \in players'
  /\ UNCHANGED forwards

\* Whose turn it can be after u's move, among the players S in direction f: u
\* again, the neighbour, or the one after if a player may be skipped.
Successors(S, u, f) ==
  LET next == Neighbour(S, u, f)
  IN  {u, next} \cup IF MaySkip THEN {Neighbour(S, next, f)} ELSE {}

\* A move, or a player who leaves: the remaining players keep the order, and
\* the turn stays or passes on in it.  Nobody is added, and a player leaves
\* only a game that stays playable.
Turn ==
  /\ started
  /\ players' \in SUBSET players
  /\ players' # players => Cardinality(players') >= MIN_PLAYERS
  /\ forwards' \in BOOLEAN
  /\ current' \in players' \cap Successors(players', current, forwards')
  /\ UNCHANGED started

\* The game is over, or the bot left the channel: nothing is left of it.
End ==
  /\ players' = {}
  /\ started' = FALSE
  /\ current' = NoUser
  /\ forwards' = TRUE

Next ==
  \/ \E u \in User : Join(u) \/ LeaveLobby(u)
  \/ Start
  \/ Turn
  \/ End

Spec == Init /\ [][Next]_vars
=============================================================================
