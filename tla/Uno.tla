-------------------------------- MODULE Uno --------------------------------
(***************************************************************************)
(* The UNO game of one channel (src/modules/nbm_superior_uno.cpp), without *)
(* the account check a ranked game makes before it lets a player join.     *)
(*                                                                         *)
(* The deck is endless: drawCards makes up every card at random.  So a     *)
(* hand is the number of its cards, and which card it is shows when it is  *)
(* played.  That forgets two facts of the deal only: no more than two of   *)
(* the cards dealt are wild, and the player who won the lot holds a card   *)
(* like the first top card.                                                *)
(***************************************************************************)
EXTENDS GameF

CONSTANTS
  Color,     \* Card::SUITS without black
  Face,      \* Card::FACES, the numbers and those of Special
  ModeSet,   \* sets of modes a game can be started with
  DEALT,     \* cards dealt to a player (11)
  MAX_HAND,  \* bound of the checks: cards a player draws up to
  MAX_DRAW   \* bound of the checks: the largest penalty to draw

Special == {"D2", "R", "S", "W", "WD4"}
Wild == {"W", "WD4"}

\* enum UnoMode
Mode == {"STACK_D2", "STACK_WD4", "UPGRADE", "WD4_REV", "RANKED"}

\* A game needs UNO_MIN_PLAYERS, and a hand as dealt is within the bound.
ASSUME UnoAssumption ==
  /\ ModeSet \subseteq SUBSET Mode /\ ModeSet # {}
  /\ MIN_PLAYERS = 2
  /\ DEALT \in Nat \ {0} /\ MAX_HAND \in Nat /\ DEALT =< MAX_HAND /\ MAX_DRAW \in Nat

VARIABLES
  game,
  wins,   \* by player, m_wins counted since the last deal
  losses  \* by player, m_losses counted since the last deal

vars == <<game, wins, losses>>

\* No card lies on top before the deal.
NoCard == [suit |-> "", face |-> ""]

TopCard == [suit : Color, face : Face]

Game ==
  [players         : SUBSET User,
   has_started     : BOOLEAN,
   current         : User \cup {NoUser},
   dir_forwards    : BOOLEAN,
   hand            : [User -> 0..MAX_HAND],
   top_card        : TopCard \cup {NoCard},
   draw_count      : 0..MAX_DRAW,
   modes           : ModeSet \cup {{}},
   initial_players : 0..MaxAddr]

\* A channel without a game.
NoGame ==
  [players         |-> {},
   has_started     |-> FALSE,
   current         |-> NoUser,
   dir_forwards    |-> TRUE,
   hand            |-> [u \in User |-> 0],
   top_card        |-> NoCard,
   draw_count      |-> 0,
   modes           |-> {},
   initial_players |-> 0]

Zero == [u \in User |-> 0]

-----------------------------------------------------------------------------
(* Helpers of the handlers                                                 *)

Remove(g, u) == [RemovePlayer(g, u) EXCEPT !.hand[u] = 0]

\* removePlayer takes a player without cards for a winner.
Finishes(g, u) ==
  /\ u \in g.players /\ g.has_started /\ g.hand[u] = 0
  /\ "RANKED" \in g.modes

\* UnoPlayer::win counts a win of u if nobody has left or finished before.
WinsOf(g, u) ==
  IF Finishes(g, u) /\ g.initial_players = Cardinality(g.players) THEN {u} ELSE {}

\* Mutant: everyone who has not finished yet loses.
LossesOfAll(g, u) == IF Finishes(g, u) THEN g.players \ {u} ELSE {}

\* ... and a loss of the player who is left when only one is.
LossesOf(g, u) ==
  IF Finishes(g, u) /\ Cardinality(g.players) = MIN_PLAYERS
  THEN g.players \ {u} ELSE {}

\* m_wins and m_losses when u is removed from the game g.
Count(g, u) ==
  /\ wins' = [p \in User |-> IF p \in WinsOf(g, u) THEN wins[p] + 1 ELSE wins[p]]
  /\ losses' = [p \in User |-> IF p \in LossesOf(g, u) THEN losses[p] + 1 ELSE losses[p]]

\* Mutant: the penalty is forgotten when one card has been drawn.
DrawOne(g, u) == [g EXCEPT !.hand[u] = @ + 1, !.draw_count = 0]

\* drawCards of cmd_draw
DrawCards(g, u) ==
  [g EXCEPT !.hand[u] = @ + (IF g.draw_count > 1 THEN g.draw_count ELSE 1),
            !.draw_count = 0]

\* Whether the card may lie on the top card while there is a penalty to draw.
Answers(g, face) ==
  \/ face = "D2"  /\ g.top_card.face = "D2"  /\ "STACK_D2" \in g.modes
  \/ face = "WD4" /\ g.top_card.face = "WD4" /\ "STACK_WD4" \in g.modes
  \/ face = "WD4" /\ g.top_card.face = "D2"  /\ "UPGRADE" \in g.modes
  \/ face = "R"   /\ g.top_card.face = "WD4" /\ "WD4_REV" \in g.modes

\* Mutant: the card need not be in the hand.
NotHeld(g, u, card) ==
  /\ \/ card.suit = g.top_card.suit
     \/ card.face = g.top_card.face
     \/ card.face \in Wild
  /\ g.draw_count > 0 => Answers(g, card.face)

\* Mutant: a penalty can be answered with any card that matches the top card.
MatchOnly(g, u, card) ==
  /\ \/ card.suit = g.top_card.suit
     \/ card.face = g.top_card.face
     \/ card.face \in Wild
  /\ g.hand[u] > 0

\* Whether u may play the card; a wild card gets the colour u asks for.
MayPlay(g, u, card) ==
  /\ \/ card.suit = g.top_card.suit
     \/ card.face = g.top_card.face
     \/ card.face \in Wild
  /\ g.hand[u] > 0
  /\ g.draw_count > 0 => Answers(g, card.face)

Penalty(face) == CASE face = "D2" -> 2 [] face = "WD4" -> 4 [] OTHER -> 0

\* The card is put on top, takes effect on the penalty and the direction.
Put(g, u, card) ==
  [g EXCEPT !.top_card = card,
            !.hand[u] = @ - 1,
            !.draw_count = @ + Penalty(card.face),
            !.dir_forwards = IF card.face = "R" THEN ~@ ELSE @]

\* The next player is passed over.  "R" acts as "S" for two players - unless
\* it reverses the draw stack, says the code, but the face it looks at is that
\* of the "R" just played.
Skips(g, face) ==
  \/ face = "S"
  \/ face = "R" /\ g.top_card.face # "WD4" /\ Cardinality(g.players) = 2

\* The card's player draws the penalty at once.
AutoDraws(g, face) ==
  \/ face = "D2"  /\ "STACK_D2" \notin g.modes
  \/ face = "WD4" /\ "STACK_WD4" \notin g.modes
  \/ face = "R"   /\ g.top_card.face = "WD4"

\* Mutant: a skip passes over two players.
TurnAfterTwo(g, face) ==
  IF Skips(g, face) THEN TurnNext(TurnNext(TurnNext(g))) ELSE TurnNext(g)

\* The turn passes on.
TurnAfter(g, face) ==
  IF Skips(g, face) THEN TurnNext(TurnNext(g)) ELSE TurnNext(g)

\* Mutant: a player without cards stays.
DoneNever(g, u) == FALSE

\* A player without cards is done, except when it is their turn again.
Done(g, u) == g.hand[u] = 0 /\ g.current # u

\* The end of cmd_play is a call of cmd_draw for the player of the card, which
\* checks that it is their turn.
AutoDrawn(g, u, face) ==
  IF AutoDraws(g, face) /\ HasTurn(g, u) THEN TurnNext(DrawCards(g, u)) ELSE g

-----------------------------------------------------------------------------
(* Handlers                                                                *)

Init == game = NoGame /\ wins = Zero /\ losses = Zero

\* cmd_join of a user the game's modes admit.  The first player sets the modes.
Join(u) ==
  /\ MayAdd(game, u)
  /\ \E modes \in IF game.players = {} THEN ModeSet ELSE {game.modes} :
       game' = [AddPlayer(game, u) EXCEPT !.modes = modes]
  /\ UNCHANGED <<wins, losses>>

\* onUserLeave: the user leaves the channel, or plays cmd_leave.  The game is
\* updated even if the user takes no part in it.
Leave(u) ==
  /\ game' = ProcessGameUpdate(Remove(game, u), NoGame)
  /\ Count(game, u)

\* onChannelLeave, and the end of the process: games are kept in memory only.
Forget ==
  /\ game.players # {}
  /\ game' = NoGame
  /\ UNCHANGED <<wins, losses>>

\* cmd_deal: the top card looks like a card of the player who won the lot,
\* but not a wild one.
Deal(u) ==
  /\ u \in game.players /\ MayStart(game)
  /\ \E first \in game.players, color \in Color, face \in Face \ Wild :
       game' = [StartWith(game, first) EXCEPT
                 !.hand = [p \in User |-> IF p \in game.players THEN DEALT ELSE 0],
                 !.top_card = [suit |-> color, face |-> face],
                 !.initial_players = Cardinality(game.players)]
  /\ wins' = Zero
  /\ losses' = Zero

\* cmd_play
Play(u) ==
  /\ HasTurn(game, u)
  /\ \E color \in Color, face \in Face :
       LET card   == [suit |-> color, face |-> face]
           put    == Put(game, u, card)
           turned == TurnAfter(put, face)
           ends   == Done(turned, u)
           after  == ProcessGameUpdate(IF ends THEN Remove(turned, u) ELSE turned, NoGame)
       IN  /\ MayPlay(game, u, card)
           /\ put.draw_count =< MAX_DRAW
           /\ game' = AutoDrawn(after, u, face)
           /\ IF ends THEN Count(turned, u) ELSE UNCHANGED <<wins, losses>>

\* cmd_draw
Draw(u) ==
  /\ HasTurn(game, u)
  /\ DrawCards(game, u).hand[u] =< MAX_HAND
  /\ game' = TurnNext(DrawCards(game, u))
  /\ UNCHANGED <<wins, losses>>

Next ==
  \/ \E u \in User :
       \/ Join(u)
       \/ Leave(u)
       \/ Deal(u)
       \/ Play(u)
       \/ Draw(u)
  \/ Forget

Spec == Init /\ [][Next]_vars

-----------------------------------------------------------------------------
(* Properties                                                              *)

TypeOK ==
  /\ game \in Game
  /\ wins \in [User -> Nat]
  /\ losses \in [User -> Nat]

\* A player without cards is in a running game only as long as it is their turn
\* and there is one other player: the comment "except when it's again their
\* turn (last card = skip)" has no other case, and removePlayer may take every
\* player without cards for a winner.
EmptyHandHasTurn ==
  game.has_started =>
    \A u \in game.players :
      game.hand[u] = 0 => u = game.current /\ Cardinality(game.players) = 2

\* A game counts at most one win and one loss, and not of the same player
\* (UnoPlayer::win is called for everyone who finishes).
OneWinOneLoss ==
  /\ \A u, v \in User : wins[u] > 0 /\ wins[v] > 0 => u = v /\ wins[u] = 1
  /\ \A u, v \in User : losses[u] > 0 /\ losses[v] > 0 => u = v /\ losses[u] = 1
  /\ \A u \in User : wins[u] = 0 \/ losses[u] = 0

\* A penalty lies under the card that made it or under the "R" that reversed
\* it, so cmd_play, which only sees the top card, can tell what answers it.
PenaltyShows ==
  game.draw_count > 0 =>
    \/ game.top_card.face \in {"D2", "WD4"}
    \/ game.top_card.face = "R" /\ "WD4_REV" \in game.modes

\* A penalty can grow or pass on, but within a game it goes only when the player
\* whose turn it is draws all of it.
PenaltyIsDrawn ==
  [][game.has_started /\ game'.has_started /\ game'.draw_count < game.draw_count =>
       /\ game'.draw_count = 0
       /\ game'.hand[game.current] = game.hand[game.current] + game.draw_count]_vars

\* The comment on an "R" that answers a "WD4": "do not skip when reversing the
\* draw stack ("no u!")".  The penalty goes back to somebody else.
ReverseSendsBack ==
  [][game.has_started /\ game.top_card.face = "WD4" /\ game.draw_count > 0
     /\ game'.has_started /\ game'.top_card.face = "R"
     => game'.current # game.current]_vars

\* UNO as a turn-based game: a move may pass over one player.
AsTurnGame ==
  INSTANCE TurnGame WITH
    players <- game.players, started <- game.has_started,
    current <- game.current, forwards <- game.dir_forwards, MaySkip <- TRUE

\* Every handler of UNO is a step the framework promises.
ImplementsTurnGame == AsTurnGame!Spec
=============================================================================
