------------------------------ MODULE LiarGame ------------------------------
(***************************************************************************)
(* The liar game of one channel (src/modules/nbm_liar_game.cpp).  Players  *)
(* put cards face down on a stack and claim they are of the main face; the *)
(* next player adds to the stack or checks it.  Four cards of a face are   *)
(* discarded, and who has no cards left wins.                              *)
(*                                                                         *)
(* A hand is a bag of faces: indices into a hand only select cards, and    *)
(* cmd_cards only shuffles.  The stack is two bags, the cards of the last  *)
(* cmd_add (`top`, stack_last of them) and those under it (`below`).       *)
(***************************************************************************)
EXTENDS GameF, FiniteSetsExt, Functions

CONSTANTS
  Face,   \* LPlayer::FACES
  Queen,  \* the face with three cards, which cannot be the main face
  NoFace  \* no main face (nullptr)

ASSUME FaceAssumption ==
  IsFiniteSet(Face) /\ Queen \in Face /\ NoFace \notin Face

VARIABLE game

vars == game

Hand == [Face -> Nat]

\* No more than four cards of a face exist.
FewCards == [Face -> 0..4]

NoCards == [f \in Face |-> 0]

Game ==
  [players      : SUBSET User,
   has_started  : BOOLEAN,
   current      : User \cup {NoUser},
   dir_forwards : {TRUE},
   hand         : [User -> Hand],
   below        : Hand,
   top          : Hand,
   main_face    : (Face \ {Queen}) \cup {NoFace}]

Copies(f) == IF f = Queen THEN 3 ELSE 4

Size(bag) == SumFunction(bag)

Plus(a, b) == [f \in Face |-> a[f] + b[f]]
Minus(a, b) == [f \in Face |-> a[f] - b[f]]

\* A channel without a game.  A new LGame equals it but for its first player.
NoGame ==
  [players      |-> {},
   has_started  |-> FALSE,
   current      |-> NoUser,
   dir_forwards |-> TRUE,
   hand         |-> [u \in User |-> NoCards],
   below        |-> NoCards,
   top          |-> NoCards,
   main_face    |-> NoFace]

Stack(g) == Plus(g.below, g.top)

-----------------------------------------------------------------------------
(* Helpers of the handlers                                                 *)

\* removePlayer deletes the player's LPlayer, and the cards with it.
Remove(g, u) == [RemovePlayer(g, u) EXCEPT !.hand[u] = NoCards]

\* getPrevPlayer.  The game never changes the direction of play.
PrevPlayer(g) == PrevIn(g.players, g.current)

\* Mutant: four cards are not yet enough.
DiscardFive(h) == [f \in Face |-> IF h[f] > 4 THEN 0 ELSE h[f]]

\* The hand without the faces of which it has all four.
Discard(h) == [f \in Face |-> IF h[f] >= 4 THEN 0 ELSE h[f]]

\* Mutant: only a discard makes a winner.
WinByDiscard(g, u, played_card) ==
  LET left == Discard(g.hand[u])
  IN  IF u \notin g.players THEN g
      ELSE IF left = NoCards /\ g.hand[u] # NoCards THEN Remove(g, u)
      ELSE [g EXCEPT !.hand[u] = left]

\* updateCardsWin: discard, and remove a player without cards - unless the
\* hand was empty before and its last cards were only just played.
UpdateCardsWin(g, u, played_card) ==
  LET left == Discard(g.hand[u])
      wins == left = NoCards /\ (g.hand[u] = NoCards => ~played_card)
  IN  IF u \notin g.players THEN g
      ELSE IF wins THEN Remove(g, u)
      ELSE [g EXCEPT !.hand[u] = left]

\* Mutant: the turn is passed on once by the handler and once for the winner.
PassTwice(before, after, u) == TurnNext(TurnNext(after))

\* cmd_add passes the turn on unless the removal of a winner did so.
PassOn(before, after, u) ==
  IF u \in before.players \ after.players THEN after ELSE TurnNext(after)

\* Mutant: the loser takes the last cards only.
TakeTop(g, u) ==
  [g EXCEPT !.hand[u] = Plus(@, g.top),
            !.below = NoCards, !.top = NoCards, !.main_face = NoFace]

\* Mutant: the stack is copied to the loser's hand, and only the last cards go.
TakeCopy(g, u) ==
  [g EXCEPT !.hand[u] = Plus(@, Stack(g)),
            !.top = NoCards, !.main_face = NoFace]

\* cmd_check: the loser takes the stack.
TakeStack(g, u) ==
  [g EXCEPT !.hand[u] = Plus(@, Stack(g)),
            !.below = NoCards, !.top = NoCards, !.main_face = NoFace]

\* The size of u's hand when the deck is dealt round to the players, starting
\* at the one with the least address.
DealtTo(S, u) ==
  LET deck == MapThenSumSet(Copies, Face)
      rank == Cardinality({v \in S : v < u})
      n    == Cardinality(S)
  IN  Cardinality({k \in 0..deck - 1 : k % n = rank})

\* How many cards of the face f the players S have in their hands.
InHands(hand, S, f) == SumFunctionOnSet([u \in S |-> hand[u][f]], S)

\* Every way to deal the whole deck to the players S.
Deals(S) ==
  {d \in [S -> FewCards] :
    /\ \A u \in S : Size(d[u]) = DealtTo(S, u)
    /\ \A f \in Face : InHands(d, S, f) = Copies(f)}

-----------------------------------------------------------------------------
(* Handlers                                                                *)

Init == game = NoGame

\* cmd_join
Join(u) ==
  /\ MayAdd(game, u)
  /\ game' = AddPlayer(game, u)

\* onUserLeave: the user leaves the channel, or plays cmd_leave in a running
\* game.  The game is updated even if the user takes no part in it.
Leave(u) == game' = ProcessGameUpdate(Remove(game, u), NoGame)

\* onChannelLeave, and the end of the process: games are kept in memory only.
Forget ==
  /\ game.players # {}
  /\ game' = NoGame

\* The game after the deal d when `first` won the lot, when the hands of `visited` were
\* looked at for four of a kind and the players of `out` have won.
Dealt(g, first, d, visited, out) ==
  [StartWith(g, first) EXCEPT
    !.players = g.players \ out,
    !.hand = [p \in User |->
               IF p \in g.players \ out
               THEN IF p \in visited THEN Discard(d[p]) ELSE d[p]
               ELSE NoCards]]

\* The players who have nothing but fours of a kind in the deal d.
DealtOut(d) == {p \in DOMAIN d : Discard(d[p]) = NoCards}

\* cmd_start.  The loop that looks for four of a kind in every hand erases the
\* winners from the set it iterates over.
Start(u) ==
  /\ u \in game.players /\ MayStart(game)
  /\ \E first \in game.players, d \in Deals(game.players) :
       /\ DealtOut(d) = {}
       /\ game' = Dealt(game, first, d, game.players, {})

\* cmd_start when a player is dealt out: that player's iterator is freed before
\* it is advanced.  What follows is undefined; the loop may go on with any of
\* the later players.  The process dies, or it goes on - but not if the player
\* who won the lot is removed, whose cards it tells next.
StartBroken(u) ==
  /\ u \in game.players /\ MayStart(game)
  /\ \E first \in game.players, d \in Deals(game.players) :
       /\ DealtOut(d) # {}
       /\ \/ game' = NoGame
          \/ \E later \in SUBSET {p \in game.players : p > Least(DealtOut(d))} :
               LET visited == later \cup {p \in game.players : p =< Least(DealtOut(d))}
                   out     == visited \cap DealtOut(d)
               IN  /\ first \notin out
                   /\ game' = Dealt(game, first, d, visited, out)

\* The cards a hand of h can put down, at least one.
Plays(h) == {c \in FewCards : c # NoCards /\ \A f \in Face : c[f] =< h[f]}

\* cmd_add with a valid face and valid indices.  The previous player's cards
\* can no longer be checked, so an empty hand wins now.
Add(u) ==
  /\ HasTurn(game, u)
  /\ \E f \in Face \ {Queen}, cards \in Plays(game.hand[u]) :
       /\ Stack(game) = NoCards \/ f = game.main_face
       /\ LET put  == [game EXCEPT !.main_face = f,
                                   !.below = Stack(game),
                                   !.top = cards,
                                   !.hand[u] = Minus(@, cards)]
              prev == UpdateCardsWin(put, PrevPlayer(put), FALSE)
              self == UpdateCardsWin(prev, u, TRUE)
          IN  game' = ProcessGameUpdate(PassOn(prev, self, u), NoGame)

\* Mutant: the queen passes for a main face.
AddRefusedQueen(u) ==
  /\ HasTurn(game, u)
  /\ Stack(game) = NoCards
  /\ \E f \in Face : game' = [game EXCEPT !.main_face = f]

\* cmd_add with a valid face and a bad or missing index: the main face of an
\* empty stack is set before the indices are looked at.
AddRefused(u) ==
  /\ HasTurn(game, u)
  /\ Stack(game) = NoCards
  /\ \E f \in Face \ {Queen} : game' = [game EXCEPT !.main_face = f]

\* The cards of the last cmd_add are not what their player claimed.
Lied(g) == \E f \in Face \ {g.main_face} : g.top[f] > 0

\* cmd_check.  If the cards were correct the turn passes on first, so that the
\* previous player, who takes the stack, is the one who checked.
Check(u) ==
  /\ HasTurn(game, u)
  /\ Stack(game) # NoCards
  /\ LET turned == IF Lied(game) THEN game ELSE TurnNext(game)
         loser  == PrevPlayer(turned)
         taken  == TakeStack(turned, loser)
         first  == UpdateCardsWin(taken, loser, FALSE)
         second == UpdateCardsWin(first, taken.current, FALSE)
     IN  game' = ProcessGameUpdate(second, NoGame)

Next ==
  \/ \E u \in User :
       \/ Join(u)
       \/ Leave(u)
       \/ Start(u)
       \/ StartBroken(u)
       \/ Add(u)
       \/ AddRefused(u)
       \/ Check(u)
  \/ Forget

Spec == Init /\ [][Next]_vars

-----------------------------------------------------------------------------
(* Properties                                                              *)

Total(g, f) == InHands(g.hand, User, f) + Stack(g)[f]

Quartet(h) == \E f \in Face : h[f] >= 4

\* The types of the game's members.
TypeOK == game \in Game

\* A running game's turn is held by one of its players and a lobby's by nobody,
\* in every state in which a handler may look at g->current: cmd_join and
\* checkPlayerTurn read its nickname without a test.
CurrentIsPlayer == CurrentOK(game)

\* cmd_check reads stack_last cards from the end of the stack and compares them
\* with the main face: while there is a stack there are last cards and there is
\* a main face, and both belong to a running game.
StackIsClaimed ==
  Stack(game) # NoCards =>
    game.has_started /\ game.top # NoCards /\ game.main_face # NoFace

\* Between the deal and the end of the game no card appears, and a face loses
\* cards only all four at once, by a discard, or with a player who leaves.
CardsConserved ==
  [][game.has_started /\ game'.has_started =>
       \/ \A f \in Face : \/ Total(game', f) = Total(game, f)
                          \/ Total(game', f) = 0 /\ Total(game, f) = 4
       \/ \E u \in game.players \ game'.players :
            \A f \in Face : Total(game', f) = Total(game, f) - game.hand[u][f]
    ]_vars

\* A hand that collects four of a face in the game discards them in the same
\* step: updateCardsWin is called for everyone whose hand can have grown.
QuartetsAreDiscarded ==
  [][\A u \in User : Quartet(game'.hand[u]) /\ game.has_started => Quartet(game.hand[u])]_vars

\* Once dealt, a game that loses a player either keeps MIN_PLAYERS players or
\* ends in the same step.
TooFewPlayersEnd ==
  [][game.has_started /\ game'.players # game.players =>
       game'.players = {} \/ Cardinality(game'.players) >= MIN_PLAYERS]_vars

\* A player whose last cards were not checked wins when the next player adds
\* cards of their own (comment in cmd_add).
UncheckedLastCardWins ==
  [][/\ game.has_started /\ game'.has_started
     /\ Size(Stack(game')) > Size(Stack(game))
     /\ game.hand[PrevPlayer(game)] = NoCards
     => PrevPlayer(game) \notin game'.players]_vars

\* The comment in cmd_check on the player who leaves the game after a check:
\* "User played their last card and it was correct".
CheckedLastCardWins ==
  [][/\ game.has_started /\ game'.has_started
     /\ Stack(game) # NoCards /\ Stack(game') = NoCards
     /\ ~Lied(game) /\ game.hand[PrevPlayer(game)] = NoCards
     => PrevPlayer(game) \notin game'.players]_vars

\* The liar game as a turn-based game: a move passes the turn on by one player.
AsTurnGame ==
  INSTANCE TurnGame WITH
    players <- game.players, started <- game.has_started,
    current <- game.current, forwards <- game.dir_forwards, MaySkip <- FALSE

\* Every handler of the liar game is a step the framework promises.
ImplementsTurnGame == AsTurnGame!Spec
=============================================================================
