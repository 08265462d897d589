------------------------------ MODULE Shithead ------------------------------
(***************************************************************************)
(* The shithead game of one channel (src/modules/nbm_shithead.cpp).        *)
(* Players put cards on a pile, each at least as high as the one before    *)
(* (lower after a 7), refill their hands from the draw stack while there   *)
(* is one, and leave the game when they have no cards left.                *)
(*                                                                         *)
(* A card is the rank of its type, which is the order of the pointers into *)
(* SCard::TYPES.  Hands, pile and draw stack are bags.  The draw stack is  *)
(* shuffled and never shown, so its order is chosen as cards are drawn; of *)
(* the pile's order only the card that the next one is compared with       *)
(* matters, `top`.                                                         *)
(***************************************************************************)
EXTENDS GameF, Functions

CONSTANTS
  Card,          \* the ranks in the game, 2 to 14 (the ace)
  NUM_PER_FACE,  \* cards of a rank
  MIN_IN_HAND    \* a hand is refilled to so many cards

ASSUME CardAssumption == Card \subseteq 2..14
ASSUME CountAssumption == NUM_PER_FACE \in Nat \ {0} /\ MIN_IN_HAND \in Nat \ {0}

\* SGame passes 2 to the framework.
ASSUME PlayersAssumption == MIN_PLAYERS = 2

VARIABLE game

vars == game

Bag == [Card -> 0..NUM_PER_FACE]

\* SCard::TYPES[0], which an empty pile is compared with.
Lowest == 2

Game ==
  [players      : SUBSET User,
   has_started  : BOOLEAN,
   current      : User \cup {NoUser},
   dir_forwards : {TRUE},
   hand         : [User -> Bag],
   draw_stack   : Bag,
   play_stack   : Bag,
   top          : Card \cup {Lowest}]

NoCards == [c \in Card |-> 0]

Size(bag) == SumFunction(bag)
Plus(a, b) == [c \in Card |-> a[c] + b[c]]
Minus(a, b) == [c \in Card |-> a[c] - b[c]]
Only(card, n) == [c \in Card |-> IF c = card THEN n ELSE 0]

\* The cards of rank c in the hands of the users S.
InHands(hand, S, c) == SumFunctionOnSet([u \in S |-> hand[u][c]], S)

\* The ways to take n cards out of a bag.
Drawn(bag, n) == {b \in Bag : Size(b) = n /\ \A c \in Card : b[c] =< bag[c]}

\* A channel without a game.  A new SGame equals it but for its first player.
NoGame ==
  [players      |-> {},
   has_started  |-> FALSE,
   current      |-> NoUser,
   dir_forwards |-> TRUE,
   hand         |-> [u \in User |-> NoCards],
   draw_stack   |-> NoCards,
   play_stack   |-> NoCards,
   top          |-> Lowest]

-----------------------------------------------------------------------------
(* Helpers of the handlers                                                 *)

\* The player's SPlayer goes with the player, and so do the cards.
Remove(g, u) == [RemovePlayer(g, u) EXCEPT !.hand[u] = NoCards]

Deck == [c \in Card |-> NUM_PER_FACE]

\* The deck has a hand for everyone.
EnoughCards(g) == MIN_IN_HAND * Cardinality(g.players) =< Size(Deck)

\* Every way to deal the players S their hands.
Deals(S) ==
  {d \in [S -> Drawn(Deck, MIN_IN_HAND)] :
    \A c \in Card : InHands(d, S, c) =< NUM_PER_FACE}

\* Whether `card` may follow `top` on the pile.
Playable(top, card) ==
  \/ card \in {2, 4, 10}
  \/ IF top = 7 THEN card < top ELSE card >= top

\* Mutant: a 10 takes the pile away and leaves the number to beat.
PutKeepingTop(g, u, card, n) ==
  [g EXCEPT
    !.hand[u] = Minus(@, Only(card, n)),
    !.play_stack = IF card = 10 THEN NoCards ELSE Plus(@, Only(card, n)),
    !.top = IF n = 0 \/ card = 4 THEN @ ELSE card]

\* Mutant: the played cards stay in the hand.
PutCopies(g, u, card, n) ==
  [g EXCEPT !.play_stack = IF card = 10 THEN NoCards ELSE Plus(@, Only(card, n)),
            !.top = IF card = 10 THEN Lowest ELSE IF n = 0 \/ card = 4 THEN @ ELSE card]

\* The cards go on the pile; a 10 ends it, a 4 preserves the number to beat.
Put(g, u, card, n) ==
  [g EXCEPT
    !.hand[u] = Minus(@, Only(card, n)),
    !.play_stack = IF card = 10 THEN NoCards ELSE Plus(@, Only(card, n)),
    !.top = IF card = 10 THEN Lowest ELSE IF n = 0 \/ card = 4 THEN @ ELSE card]

\* Mutant: refilled only when the hand has run out.
RefillAtZero(g, u) ==
  LET missing == IF g.hand[u] = NoCards THEN MIN_IN_HAND ELSE 0
      n       == IF missing < Size(g.draw_stack) THEN missing ELSE Size(g.draw_stack)
  IN  {[g EXCEPT !.hand[u] = Plus(@, d), !.draw_stack = Minus(@, d)] :
         d \in Drawn(g.draw_stack, n)}

\* The games after u's hand is refilled from the draw stack as far as it lasts.
Refilled(g, u) ==
  LET held    == Size(g.hand[u])
      missing == IF held < MIN_IN_HAND THEN MIN_IN_HAND - held ELSE 0
      n       == IF missing < Size(g.draw_stack) THEN missing ELSE Size(g.draw_stack)
  IN  {[g EXCEPT !.hand[u] = Plus(@, d), !.draw_stack = Minus(@, d)] :
         d \in Drawn(g.draw_stack, n)}

\* Mutant: a winner is removed, which passes the turn on, before it is passed on.
FinishFirst(g, u) ==
  TurnNext(IF g.hand[u] = NoCards THEN Remove(g, u) ELSE g)

\* Mutant: who has no cards left stays.
FinishNever(g, u) == TurnNext(g)

\* The turn passes on, and a player without cards is done unless it is their
\* turn again.
Finish(g, u) ==
  LET turned == TurnNext(g)
  IN  IF turned.hand[u] = NoCards /\ turned.current # u
      THEN Remove(turned, u) ELSE turned

-----------------------------------------------------------------------------
(* Handlers                                                                *)

Init == game = NoGame

\* cmd_join
Join(u) ==
  /\ MayAdd(game, u)
  /\ game' = AddPlayer(game, u)

\* onUserLeave: the user leaves the channel, or plays cmd_leave.  The game is
\* updated even if the user takes no part in it.
Leave(u) == game' = ProcessGameUpdate(Remove(game, u), NoGame)

\* onChannelLeave, and the end of the process: games are kept in memory only.
Forget ==
  /\ game.players # {}
  /\ game' = NoGame

\* cmd_deal
Deal(u) ==
  /\ u \in game.players /\ MayStart(game) /\ EnoughCards(game)
  /\ \E first \in game.players, d \in Deals(game.players) :
       game' = [StartWith(game, first) EXCEPT
                 !.hand = [p \in User |-> IF p \in game.players THEN d[p] ELSE NoCards],
                 !.draw_stack =
                   [c \in Card |-> NUM_PER_FACE - InHands(d, game.players, c)]]

\* cmd_deal to more players than the deck has hands for: the last hands are
\* read from before the deck's storage.  The process dies, at the latest when
\* it tells such a hand; the turns it may live to see are left out.
DealBroken(u) ==
  /\ u \in game.players /\ MayStart(game) /\ ~EnoughCards(game)
  /\ game' = NoGame

\* cmd_play.  A count that is not positive passes the test for having so many
\* cards and plays none; it still counts as a move, and "no tens" end the pile.
Play(u) ==
  /\ HasTurn(game, u)
  /\ \E card \in Card :
       /\ Playable(game.top, card)
       /\ \E n \in 0..game.hand[u][card] :
          \E full \in Refilled(Put(game, u, card, n), u) :
            game' = ProcessGameUpdate(Finish(full, u), NoGame)

\* cmd_draw
Draw(u) ==
  /\ HasTurn(game, u)
  /\ \E d \in Drawn(game.draw_stack, 1) :
       game' = TurnNext([game EXCEPT !.hand[u] = Plus(@, d),
                                     !.draw_stack = Minus(@, d)])

\* Mutant: the pile stays where it is.
TakeCopy(u) ==
  /\ HasTurn(game, u)
  /\ game.play_stack # NoCards
  /\ game' = TurnNext([game EXCEPT !.hand[u] = Plus(@, game.play_stack)])

\* cmd_take_stack
TakeStack(u) ==
  /\ HasTurn(game, u)
  /\ game.play_stack # NoCards
  /\ game' = TurnNext([game EXCEPT !.hand[u] = Plus(@, game.play_stack),
                                   !.play_stack = NoCards,
                                   !.top = Lowest])

Next ==
  \/ \E u \in User :
       \/ Join(u)
       \/ Leave(u)
       \/ Deal(u)
       \/ DealBroken(u)
       \/ Play(u)
       \/ Draw(u)
       \/ TakeStack(u)
  \/ Forget

Spec == Init /\ [][Next]_vars

-----------------------------------------------------------------------------
(* Properties                                                              *)

\* The types of the game's members; no rank has more cards than the deck.
TypeOK == game \in Game

\* As long as there is a draw stack every player of a running game holds at
\* least MIN_IN_HAND cards (comment of SPlayer::MIN_IN_HAND), so that nobody
\* finishes before it is used up.
HandsAreFull ==
  game.has_started /\ game.draw_stack # NoCards =>
    \A u \in game.players : Size(game.hand[u]) >= MIN_IN_HAND

\* No player without cards stays in a running game, whose turn they would have
\* to take.
FinishedPlayersAreGone ==
  game.has_started => \A u \in game.players : game.hand[u] # NoCards

\* The player whose turn it is has a move: there is a card to draw, a pile to
\* take, or a card in the hand that may be played.
NobodyIsStuck ==
  game.has_started =>
    \/ game.draw_stack # NoCards
    \/ game.play_stack # NoCards
    \/ \E c \in Card : game.hand[game.current][c] > 0 /\ Playable(game.top, c)

\* The cards of rank c in the game.
Total(g, c) == InHands(g.hand, User, c) + g.draw_stack[c] + g.play_stack[c]

\* Within a game no card appears, and cards disappear only with a player who
\* leaves or when a 10 takes the pile away.
CardsConserved ==
  [][game.has_started /\ game'.has_started =>
       \/ \A c \in Card : Total(game', c) = Total(game, c)
       \/ \E u \in game.players \ game'.players :
            \A c \in Card : Total(game', c) = Total(game, c) - game.hand[u][c]
       \/ /\ game'.play_stack = NoCards
          /\ \A c \in Card : IF c = 10 THEN Total(game', c) =< Total(game, c)
                            ELSE Total(game', c) = Total(game, c) - game.play_stack[c]
    ]_vars

\* Shithead as a turn-based game: every move passes the turn on by one player.
AsTurnGame ==
  INSTANCE TurnGame WITH
    players <- game.players, started <- game.has_started,
    current <- game.current, forwards <- game.dir_forwards, MaySkip <- FALSE

\* Every handler of shithead is a step the framework promises.
ImplementsTurnGame == AsTurnGame!Spec
=============================================================================
