------------------------------- MODULE GameF -------------------------------
(***************************************************************************)
(* The base class of the turn-based games (src/core/framework_game.h), as  *)
(* operators on a game.  A game is a record with at least the fields       *)
(*                                                                         *)
(*    players       m_players, a std::set of user pointers                 *)
(*    has_started   the cards are dealt                                    *)
(*    current       whose turn it is, NoUser before the start              *)
(*    dir_forwards  the direction of play                                  *)
(*                                                                         *)
(* and each concrete game adds its own.  A handler of a game calls several *)
(* of these operations in a row, which is why they are functions from game *)
(* to game rather than actions.                                            *)
(***************************************************************************)
EXTENDS Integers, FiniteSets

CONSTANTS
  User,        \* the users of the channel, by the address of their UserInstance
  MaxAddr,     \* the largest address
  MIN_PLAYERS  \* the constructor's min_players

ASSUME UserAssumption == MaxAddr \in Nat /\ User \subseteq 1..MaxAddr
ASSUME MinAssumption == MIN_PLAYERS \in Nat \ {0}

\* nullptr
NoUser == 0

-----------------------------------------------------------------------------
(* std::set iterates by address, so the order of play is the order of the  *)
(* addresses, and it wraps around at both ends.                            *)

Least(S) == CHOOSE u \in S : \A v \in S : u =< v

Greatest(S) == CHOOSE u \in S : \A v \in S : v =< u

NextIn(S, u) ==
  LET above == {v \in S : v > u} IN Least(IF above = {} THEN S ELSE above)

PrevIn(S, u) ==
  LET below == {v \in S : v < u} IN Greatest(IF below = {} THEN S ELSE below)

\* The neighbour of u in the direction of play.
Neighbour(S, u, forwards) == IF forwards THEN NextIn(S, u) ELSE PrevIn(S, u)

-----------------------------------------------------------------------------

TurnNext(g) ==
  [g EXCEPT !.current = IF g.players = {} THEN NoUser
                        ELSE Neighbour(g.players, g.current, g.dir_forwards)]

\* Mutant: a removed player keeps the turn.
RemoveWithTurn(g, u) == [g EXCEPT !.players = @ \ {u}]

\* The turn is passed on before the player is erased, so that a removed
\* current player hands over to a neighbour.
RemovePlayer(g, u) ==
  IF u \notin g.players THEN g
  ELSE LET h == IF u = g.current THEN TurnNext(g) ELSE g
       IN  [h EXCEPT !.players = @ \ {u}]

MayAdd(g, u) == ~g.has_started /\ u \notin g.players

AddPlayer(g, u) == [g EXCEPT !.players = @ \cup {u}]

MayStart(g) == ~g.has_started /\ Cardinality(g.players) >= MIN_PLAYERS

\* The lot falls on `first`.
StartWith(g, first) == [g EXCEPT !.has_started = TRUE, !.current = first]

HasTurn(g, u) == u \in g.players /\ g.has_started /\ g.current = u

\* Every game's processGameUpdate: a game that has started and has too few
\* players left is deleted, and so is a lobby everyone left.
ProcessGameUpdate(g, none) ==
  IF Cardinality(g.players) >= MIN_PLAYERS THEN g
  ELSE IF g.has_started \/ g.players = {} THEN none ELSE g

\* What every game promises of its players and its turn: nobody holds the turn
\* in a lobby, and a running game's turn belongs to one of its players.  The
\* games read current->nickname without a test wherever this holds.
CurrentOK(g) ==
  /\ g.players \subseteq User
  /\ IF g.has_started THEN g.current \in g.players ELSE g.current = NoUser
=============================================================================
