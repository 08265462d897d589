--------------------------- MODULE LiarGameProofs ---------------------------
(***************************************************************************)
(* The liar game for any users and faces: its types and its turn, that it  *)
(* is a turn-based game, and where its cards go.                           *)
(* The handlers chain the framework's operations, so the facts about them  *)
(* are stated for a game in the middle of a handler: the turn may be held  *)
(* by a removed player only if nobody is left (Playable).                  *)
(***************************************************************************)
EXTENDS LiarGame, GameFProofs

\* A running game in the middle of a handler.
Playable(g) ==
  /\ g \in Game
  /\ g.has_started
  /\ g.players # {} => g.current \in g.players

\* The inductive invariant: types and turn.
Inv == TypeOK /\ CurrentIsPlayer

-----------------------------------------------------------------------------

LEMMA NoGameOK == NoGame \in Game /\ CurrentOK(NoGame)
BY DEF NoGame, Game, CurrentOK, NoCards, Hand

\* The stack is a bag of cards.
LEMMA StackType ==
  ASSUME NEW g \in Game
  PROVE  Stack(g) \in Hand
BY DEF Game, Stack, Plus, Hand

\* Passing the turn on keeps the game playable.
LEMMA TurnNextOK ==
  ASSUME NEW g, Playable(g)
  PROVE  Playable(TurnNext(g)) /\ TurnNext(g).players = g.players
<1> DEFINE next == IF g.players = {} THEN NoUser
                   ELSE Neighbour(g.players, g.current, g.dir_forwards)
<1>1. next \in User \cup {NoUser} /\ (g.players # {} => next \in g.players)
  BY NeighbourIsMember DEF Playable, Game
<1> HIDE DEF next
<1>2. TurnNext(g) = [g EXCEPT !.current = next]
  BY DEF TurnNext, next
<1>3. QED
  BY <1>1, <1>2 DEF Playable, Game

\* Removing a player keeps the game playable and removes nobody else.
LEMMA RemoveOK ==
  ASSUME NEW g, Playable(g), NEW u \in User
  PROVE  Playable(Remove(g, u)) /\ Remove(g, u).players = g.players \ {u}
<1> DEFINE h == IF u = g.current THEN TurnNext(g) ELSE g
           r == RemovePlayer(g, u)
<1>1. Playable(h) /\ h.players = g.players
  BY TurnNextOK
<1>2. ASSUME u \in g.players, g.players # {u} PROVE h.current # u
  <2>1. CASE u = g.current
    <3>1. h.current = Neighbour(g.players, u, g.dir_forwards)
      BY <1>2, <2>1 DEF TurnNext, Playable, Game
    <3>2. g.players \subseteq User
      BY DEF Playable, Game
    <3>3. QED
      BY <1>2, <3>1, <3>2, NeighbourIsOther
  <2>2. QED
    BY <2>1
<1>3. Playable(r) /\ r.players = g.players \ {u}
  <2>1. CASE u \notin g.players
    BY <2>1 DEF RemovePlayer
  <2>2. CASE u \in g.players
    <3> HIDE DEF h
    <3>1. r = [h EXCEPT !.players = @ \ {u}]
      BY <2>2 DEF RemovePlayer, h
    <3>2. r.players = g.players \ {u} /\ r.current = h.current /\ r \in Game
            /\ r.has_started
      BY <1>1, <3>1 DEF Playable, Game
    <3>3. r.players # {} => r.current \in r.players
      BY <1>1, <1>2, <2>2, <3>2 DEF Playable
    <3>4. QED
      BY <3>2, <3>3 DEF Playable
  <2>3. QED
    BY <2>1, <2>2
<1> DEFINE hand == [r.hand EXCEPT ![u] = NoCards]
<1> HIDE DEF r
<1>4. Remove(g, u) = [r EXCEPT !.hand = hand]
  BY <1>3 DEF Remove, r, Playable, Game
<1>5. hand \in [User -> Hand]
  <2>1. NoCards \in Hand
    BY DEF NoCards, Hand
  <2>2. r.hand \in [User -> Hand]
    BY <1>3 DEF Playable, Game
  <2>3. QED
    BY <2>1, <2>2
<1> HIDE DEF hand
<1>6. QED
  BY <1>3, <1>4, <1>5 DEF Playable, Game

\* A discard leaves a hand.
LEMMA DiscardType ==
  ASSUME NEW h \in Hand
  PROVE  Discard(h) \in Hand
BY DEF Discard, Hand

\* updateCardsWin keeps the game playable and removes at most its player.
LEMMA UpdateCardsWinOK ==
  ASSUME NEW g, Playable(g), NEW u \in User, NEW played \in BOOLEAN
  PROVE  /\ Playable(UpdateCardsWin(g, u, played))
         /\ UpdateCardsWin(g, u, played).players \in {g.players, g.players \ {u}}
<1> DEFINE left == Discard(g.hand[u])
           kept == [g EXCEPT !.hand[u] = left]
<1>1. left \in Hand
  BY DiscardType DEF Playable, Game
<1>2. Playable(kept) /\ kept.players = g.players
  <2> HIDE DEF left
  <2>1. QED
    BY <1>1 DEF Playable, Game
<1>3. UpdateCardsWin(g, u, played) \in {g, Remove(g, u), kept}
  BY DEF UpdateCardsWin
<1> HIDE DEF kept
<1>4. QED
  BY <1>2, <1>3, RemoveOK

\* processGameUpdate leaves a game whose turn is right, or none.
LEMMA ProcessGameUpdateOK ==
  ASSUME NEW g, Playable(g)
  PROVE  LET h == ProcessGameUpdate(g, NoGame) IN h \in Game /\ CurrentOK(h)
<1>1. g.players \subseteq User
  BY DEF Playable, Game
<1>2. CASE Cardinality(g.players) >= MIN_PLAYERS
  <2>1. g.players # {}
    BY <1>1, <1>2, EnoughIsSome
  <2>2. QED
    BY <1>2, <2>1 DEF ProcessGameUpdate, Playable, CurrentOK, Game
<1>3. CASE ~(Cardinality(g.players) >= MIN_PLAYERS)
  BY <1>3, NoGameOK DEF ProcessGameUpdate, Playable
<1>4. QED
  BY <1>2, <1>3

\* A lobby a user leaves is a lobby, or gone.
LEMMA LobbyLeaveOK ==
  ASSUME NEW g \in Game, CurrentOK(g), ~g.has_started, NEW u \in User
  PROVE  LET h == ProcessGameUpdate(Remove(g, u), NoGame)
         IN  h \in Game /\ CurrentOK(h)
<1> DEFINE r == Remove(g, u)
<1>1. u # g.current
  BY UserAssumption DEF CurrentOK, NoUser
<1>2. r \in Game /\ CurrentOK(r)
  <2>1. NoCards \in Hand
    BY DEF NoCards, Hand
  <2>2. RemovePlayer(g, u) \in {g, [g EXCEPT !.players = @ \ {u}]}
    BY <1>1 DEF RemovePlayer
  <2>3. QED
    BY <2>1, <2>2 DEF Remove, Game, CurrentOK
<1>3. QED
  BY <1>2, NoGameOK DEF ProcessGameUpdate

-----------------------------------------------------------------------------
(* One lemma per handler                                                   *)

LEMMA JoinOK ==
  ASSUME Inv, NEW u \in User, Join(u)
  PROVE  Inv'
BY DEF Inv, TypeOK, CurrentIsPlayer, Join, MayAdd, AddPlayer, Game, CurrentOK

LEMMA LeaveOK ==
  ASSUME Inv, NEW u \in User, Leave(u)
  PROVE  Inv'
<1>1. CASE game.has_started
  <2>1. Playable(game)
    BY <1>1 DEF Inv, TypeOK, CurrentIsPlayer, CurrentOK, Playable
  <2>2. Playable(Remove(game, u))
    BY <2>1, RemoveOK
  <2>3. QED
    BY <2>2, ProcessGameUpdateOK DEF Leave, Inv, TypeOK, CurrentIsPlayer
<1>2. CASE ~game.has_started
  BY <1>2, LobbyLeaveOK DEF Leave, Inv, TypeOK, CurrentIsPlayer
<1>3. QED
  BY <1>1, <1>2

LEMMA ForgetOK == Inv /\ Forget => Inv'
BY NoGameOK DEF Forget, Inv, TypeOK, CurrentIsPlayer

\* The game after the deal, whoever was looked at and whoever has won.
LEMMA DealtOK ==
  ASSUME NEW g \in Game, NEW first \in g.players, NEW d \in Deals(g.players),
         NEW visited, NEW out, first \notin out
  PROVE  LET h == Dealt(g, first, d, visited, out) IN h \in Game /\ CurrentOK(h)
<1> DEFINE hands == [p \in User |->
                      IF p \in g.players \ out
                      THEN IF p \in visited THEN Discard(d[p]) ELSE d[p]
                      ELSE NoCards]
<1>1. hands \in [User -> Hand]
  <2>1. NoCards \in Hand
    BY DEF NoCards, Hand
  <2>2. \A p \in g.players : d[p] \in Hand
    BY DEF Deals, FewCards, Hand
  <2>3. \A p \in g.players : Discard(d[p]) \in Hand
    BY <2>2, DiscardType
  <2>4. QED
    BY <2>1, <2>2, <2>3
<1>2. Dealt(g, first, d, visited, out) =
        [StartWith(g, first) EXCEPT !.players = g.players \ out, !.hand = hands]
  BY DEF Dealt
<1> HIDE DEF hands
<1> DEFINE h == Dealt(g, first, d, visited, out)
<1>3. /\ h.players = g.players \ out /\ h.hand = hands
      /\ h.has_started = TRUE /\ h.current = first
  BY <1>2 DEF Game, StartWith
<1>4. h = [g EXCEPT !.has_started = TRUE, !.current = first,
                    !.players = g.players \ out, !.hand = hands]
  BY <1>2 DEF StartWith
<1> HIDE DEF h
<1>5. h \in Game
  BY <1>1, <1>4 DEF Game
<1>6. CurrentOK(h)
  BY <1>3 DEF Game, CurrentOK
<1>7. QED
  BY <1>5, <1>6 DEF h

LEMMA StartOK ==
  ASSUME Inv, NEW u \in User, Start(u)
  PROVE  Inv'
<1>1. PICK first \in game.players, d \in Deals(game.players) :
        game' = Dealt(game, first, d, game.players, {})
  BY DEF Start
<1>2. game \in Game /\ first \notin {}
  BY DEF Inv, TypeOK
<1>3. QED
  BY <1>1, <1>2, DealtOK DEF Inv, TypeOK, CurrentIsPlayer

LEMMA StartBrokenOK ==
  ASSUME Inv, NEW u \in User, StartBroken(u)
  PROVE  Inv'
<1>1. CASE game' = NoGame
  BY <1>1, NoGameOK DEF Inv, TypeOK, CurrentIsPlayer
<1>2. CASE \E first \in game.players, d \in Deals(game.players) :
             \E visited, out : first \notin out
                               /\ game' = Dealt(game, first, d, visited, out)
  <2>1. game \in Game
    BY DEF Inv, TypeOK
  <2>2. QED
    BY <1>2, <2>1, DealtOK DEF Inv, TypeOK, CurrentIsPlayer
<1>3. QED
  BY <1>1, <1>2 DEF StartBroken

\* The game when u has put cards on the stack.
Laid(g, u, f, cards) ==
  [g EXCEPT !.main_face = f,
            !.below = Stack(g),
            !.top = cards,
            !.hand[u] = Minus(@, cards)]

LEMMA LaidOK ==
  ASSUME NEW g, Playable(g), NEW u \in User, NEW f \in Face \ {Queen},
         NEW cards \in Plays(g.hand[u])
  PROVE  /\ Playable(Laid(g, u, f, cards))
         /\ Laid(g, u, f, cards).players = g.players
         /\ Laid(g, u, f, cards).current = g.current
<1> DEFINE hand == [g.hand EXCEPT ![u] = Minus(@, cards)]
<1>1. g \in Game
  BY DEF Playable
<1>2. cards \in Hand /\ Minus(g.hand[u], cards) \in Hand
  <2>1. g.hand[u] \in Hand
    BY <1>1 DEF Game
  <2>2. \A x \in Face : cards[x] \in Nat /\ cards[x] =< g.hand[u][x]
    BY DEF Plays, FewCards
  <2>3. QED
    BY <2>1, <2>2 DEF Plays, FewCards, Minus, Hand
<1>3. hand \in [User -> Hand]
  <2>1. g.hand \in [User -> Hand]
    BY <1>1 DEF Game
  <2>2. QED
    BY <1>2, <2>1
<1>4. Stack(g) \in Hand
  BY <1>1, StackType
<1>5. Laid(g, u, f, cards) =
        [g EXCEPT !.main_face = f, !.below = Stack(g), !.top = cards, !.hand = hand]
  BY <1>1 DEF Laid, Game
<1> HIDE DEF hand
<1>6. QED
  BY <1>1, <1>2, <1>3, <1>4, <1>5 DEF Playable, Game

LEMMA AddOK ==
  ASSUME Inv, NEW u \in User, Add(u)
  PROVE  Inv'
<1>1. Playable(game) /\ u \in game.players
  BY DEF Inv, TypeOK, CurrentIsPlayer, CurrentOK, Add, HasTurn, Playable
<1>2. PICK f \in Face \ {Queen}, cards \in Plays(game.hand[u]) :
        LET put  == Laid(game, u, f, cards)
            prev == UpdateCardsWin(put, PrevPlayer(put), FALSE)
            self == UpdateCardsWin(prev, u, TRUE)
        IN  game' = ProcessGameUpdate(PassOn(prev, self, u), NoGame)
  BY DEF Add, Laid
<1> DEFINE put  == Laid(game, u, f, cards)
           prev == UpdateCardsWin(put, PrevPlayer(put), FALSE)
           self == UpdateCardsWin(prev, u, TRUE)
<1>3. game' = ProcessGameUpdate(PassOn(prev, self, u), NoGame)
  BY <1>2
<1>4. Playable(put) /\ put.players = game.players
  BY <1>1, LaidOK
<1> HIDE DEF put
<1>5. PrevPlayer(put) \in User
  <2>1. put.players \subseteq User /\ put.players # {}
    BY <1>1, <1>4 DEF Playable, Game
  <2>2. QED
    BY <2>1, NeighbourIsMember DEF PrevPlayer
<1>6. Playable(prev)
  BY <1>4, <1>5, UpdateCardsWinOK
<1> HIDE DEF prev
<1>7. Playable(self)
  BY <1>6, UpdateCardsWinOK
<1> HIDE DEF self
<1>8. Playable(PassOn(prev, self, u))
  BY <1>7, TurnNextOK DEF PassOn
<1>9. QED
  BY <1>3, <1>8, ProcessGameUpdateOK DEF Inv, TypeOK, CurrentIsPlayer

LEMMA AddRefusedOK ==
  ASSUME Inv, NEW u \in User, AddRefused(u)
  PROVE  Inv'
BY DEF Inv, TypeOK, CurrentIsPlayer, CurrentOK, AddRefused, Game

\* Taking the stack only moves cards.
LEMMA TakeStackOK ==
  ASSUME NEW g, Playable(g), NEW u \in User
  PROVE  Playable(TakeStack(g, u)) /\ TakeStack(g, u).players = g.players
<1> DEFINE cards == Plus(g.hand[u], Stack(g))
           hand  == [g.hand EXCEPT ![u] = cards]
<1>1. cards \in Hand
  <2>1. Stack(g) \in Hand /\ g.hand[u] \in Hand
    BY StackType DEF Playable, Game
  <2>2. QED
    BY <2>1 DEF Plus, Hand
<1>2. hand \in [User -> Hand]
  BY <1>1 DEF Playable, Game
<1>3. TakeStack(g, u) = [g EXCEPT !.hand = hand, !.below = NoCards,
                                  !.top = NoCards, !.main_face = NoFace]
  BY DEF TakeStack, Playable, Game
<1>4. NoCards \in Hand
  BY DEF NoCards, Hand
<1> HIDE DEF hand
<1>5. QED
  BY <1>2, <1>3, <1>4 DEF Playable, Game

LEMMA CheckOK ==
  ASSUME Inv, NEW u \in User, Check(u)
  PROVE  Inv'
<1> DEFINE turned == IF Lied(game) THEN game ELSE TurnNext(game)
           loser  == PrevPlayer(turned)
           taken  == TakeStack(turned, loser)
           first  == UpdateCardsWin(taken, loser, FALSE)
           second == UpdateCardsWin(first, taken.current, FALSE)
<1>1. Playable(game) /\ u \in game.players
  BY DEF Inv, TypeOK, CurrentIsPlayer, CurrentOK, Check, HasTurn, Playable
<1>2. game' = ProcessGameUpdate(second, NoGame)
  BY DEF Check
<1>3. Playable(turned) /\ turned.players = game.players
  BY <1>1, TurnNextOK
<1> HIDE DEF turned
<1>4. loser \in User
  <2>1. turned.players \subseteq User /\ turned.players # {}
    BY <1>1, <1>3 DEF Playable, Game
  <2>2. QED
    BY <2>1, NeighbourIsMember DEF PrevPlayer
<1> HIDE DEF loser
<1>5. Playable(taken) /\ taken.players = game.players
  BY <1>3, <1>4, TakeStackOK
<1> HIDE DEF taken
<1>6. Playable(first)
  BY <1>4, <1>5, UpdateCardsWinOK
<1> HIDE DEF first
<1>7. taken.current \in User
  BY <1>1, <1>5 DEF Playable, Game
<1>8. Playable(second)
  BY <1>6, <1>7, UpdateCardsWinOK
<1> HIDE DEF second
<1>9. QED
  BY <1>2, <1>8, ProcessGameUpdateOK DEF Inv, TypeOK, CurrentIsPlayer

-----------------------------------------------------------------------------

LEMMA StepOK == Inv /\ [Next]_vars => Inv'
<1> SUFFICES ASSUME Inv, [Next]_vars PROVE Inv'
  OBVIOUS
<1>1. ASSUME NEW u \in User, Join(u) PROVE Inv'
  BY <1>1, JoinOK
<1>2. ASSUME NEW u \in User, Leave(u) PROVE Inv'
  BY <1>2, LeaveOK
<1>3. ASSUME NEW u \in User, Start(u) PROVE Inv'
  BY <1>3, StartOK
<1>10. ASSUME NEW u \in User, StartBroken(u) PROVE Inv'
  BY <1>10, StartBrokenOK
<1>4. ASSUME NEW u \in User, Add(u) PROVE Inv'
  BY <1>4, AddOK
<1>5. ASSUME NEW u \in User, AddRefused(u) PROVE Inv'
  BY <1>5, AddRefusedOK
<1>6. ASSUME NEW u \in User, Check(u) PROVE Inv'
  BY <1>6, CheckOK
<1>7. CASE Forget
  BY <1>7, ForgetOK
<1>8. CASE UNCHANGED vars
  BY <1>8 DEF vars, Inv, TypeOK, CurrentIsPlayer
<1>9. QED
  BY <1>1, <1>2, <1>3, <1>4, <1>5, <1>6, <1>7, <1>8, <1>10 DEF Next

LEMMA Invariance == Spec => []Inv
<1>1. Init => Inv
  BY NoGameOK DEF Init, Inv, TypeOK, CurrentIsPlayer
<1>2. QED
  BY <1>1, StepOK, PTL DEF Spec

\* The members of the game keep their types.
THEOREM TypeCorrect == Spec => []TypeOK
<1>1. Inv => TypeOK
  BY DEF Inv
<1>2. QED
  BY <1>1, Invariance, PTL

\* A running game's turn belongs to one of its players after every handler, so
\* that the handlers may read the current player's nickname without a test.
THEOREM TurnHeldByPlayer == Spec => []CurrentIsPlayer
<1>1. Inv => CurrentIsPlayer
  BY DEF Inv
<1>2. QED
  BY <1>1, Invariance, PTL

-----------------------------------------------------------------------------
(* The liar game is a turn-based game.  A handler may remove players and   *)
(* pass the turn on in between, and what counts is where the turn is among *)
(* the players left in the end, seen from who had it at first.             *)

\* The turn is where it was or with the next of the players left.
Ahead(g, c) ==
  g.players # {} => g.current \in {c, NextIn(g.players, c)}

\* Removing a player who does not have the turn leaves it alone.
LEMMA RemoveKeepsTurn ==
  ASSUME NEW g, Playable(g), NEW u \in User, u # g.current
  PROVE  Remove(g, u).current = g.current
<1>1. RemovePlayer(g, u).current = g.current
  BY DEF RemovePlayer, Playable, Game
<1>2. Remove(g, u).current = RemovePlayer(g, u).current
  BY DEF Remove, RemovePlayer, TurnNext, Playable, Game
<1>3. QED
  BY <1>1, <1>2

\* Removing the player whose turn it is passes it on.
LEMMA RemovePassesTurn ==
  ASSUME NEW g, Playable(g), NEW u \in g.players, u = g.current
  PROVE  Remove(g, u).current = NextIn(g.players, u)
<1>1. TurnNext(g).current = NextIn(g.players, u)
  BY DEF TurnNext, Neighbour, Playable, Game
<1>2. RemovePlayer(g, u).current = TurnNext(g).current
  BY DEF RemovePlayer, TurnNext, Playable, Game
<1>3. Remove(g, u).current = RemovePlayer(g, u).current
  BY DEF Remove, RemovePlayer, TurnNext, Playable, Game
<1>4. QED
  BY <1>1, <1>2, <1>3

\* A removal moves the turn by at most one player of those left.
LEMMA RemoveAhead ==
  ASSUME NEW g, Playable(g), NEW c \in User, Ahead(g, c), NEW u \in User
  PROVE  Ahead(Remove(g, u), c)
<1> SUFFICES ASSUME g.players \ {u} # {}
             PROVE  Remove(g, u).current \in {c, NextIn(g.players \ {u}, c)}
  BY RemoveOK DEF Ahead
<1>1. g.players \subseteq User /\ g.players # {}
  BY DEF Playable, Game
<1>2. g.current \in g.players /\ g.current \in {c, NextIn(g.players, c)}
  BY <1>1 DEF Playable, Ahead
<1>3. CASE u # g.current
  <2>1. Remove(g, u).current = g.current
    BY <1>3, RemoveKeepsTurn
  <2>2. CASE g.current = c
    BY <2>1, <2>2
  <2>3. CASE g.current = NextIn(g.players, c)
    BY <1>1, <1>3, <2>1, <2>3, NextWithout
  <2>4. QED
    BY <1>2, <2>2, <2>3
<1>4. CASE u = g.current
  <2>1. Remove(g, u).current = NextIn(g.players, u)
    BY <1>2, <1>4, RemovePassesTurn
  <2>2. CASE g.current = NextIn(g.players, c)
    <3>1. NextIn(g.players \ {u}, c) = NextIn(g.players, u)
      BY <1>1, <1>4, <2>2, NextButOne
    <3>2. QED
      BY <2>1, <3>1
  <2>3. CASE g.current = c
    <3>1. NextIn(g.players, u) # u
      BY <1>1, <1>2, <1>4, NeighbourIsOther DEF Neighbour
    <3>2. NextIn(g.players \ {u}, c) = NextIn(g.players, c)
      BY <1>1, <1>4, <2>3, <3>1, NextWithout
    <3>3. QED
      BY <1>4, <2>1, <2>3, <3>2
  <2>4. QED
    BY <1>2, <2>2, <2>3
<1>5. QED
  BY <1>3, <1>4

\* So does updateCardsWin.
LEMMA UpdateCardsWinAhead ==
  ASSUME NEW g, Playable(g), NEW c \in User, Ahead(g, c), NEW u \in User,
         NEW played \in BOOLEAN
  PROVE  /\ Ahead(UpdateCardsWin(g, u, played), c)
         /\ u # g.current => UpdateCardsWin(g, u, played).current = g.current
         /\ u \in UpdateCardsWin(g, u, played).players =>
              UpdateCardsWin(g, u, played).current = g.current
<1> DEFINE kept == [g EXCEPT !.hand[u] = Discard(g.hand[u])]
           h    == UpdateCardsWin(g, u, played)
<1>1. h \in {g, Remove(g, u), kept}
  BY DEF UpdateCardsWin
<1>2. kept.players = g.players /\ kept.current = g.current
  BY DEF Playable, Game
<1>3. Remove(g, u).players = g.players \ {u}
  BY RemoveOK
<1> HIDE DEF kept, h
<1>4. Ahead(h, c)
  BY <1>1, <1>2, RemoveAhead DEF Ahead
<1>5. u # g.current => h.current = g.current
  BY <1>1, <1>2, RemoveKeepsTurn
<1>6. u \in h.players => h.current = g.current
  BY <1>1, <1>2, <1>3
<1>7. QED
  BY <1>4, <1>5, <1>6 DEF h

\* The next player in the words of the abstract specification.
LEMMA SameNext ==
  ASSUME NEW S, NEW u
  PROVE  AsTurnGame!Neighbour(S, u, TRUE) = NextIn(S, u)
BY DEF AsTurnGame!Neighbour, AsTurnGame!NextIn, AsTurnGame!Least, NextIn, Least

\* The number of players in its words.
LEMMA SameCardinality ==
  ASSUME NEW S
  PROVE  AsTurnGame!Cardinality(S) = Cardinality(S)
BY DEF AsTurnGame!Cardinality, Cardinality

\* A handler of a running game that ends in a game whose turn is ahead by at
\* most one player is a turn, or the end of the game.
LEMMA TurnOrEnd ==
  ASSUME game \in Game, game.has_started, NEW g, Playable(g),
         g.players \subseteq game.players, Ahead(g, game.current),
         game' = ProcessGameUpdate(g, NoGame)
  PROVE  AsTurnGame!Turn \/ AsTurnGame!End
<1>1. CASE Cardinality(g.players) >= MIN_PLAYERS
  <2>1. game' = g /\ g.players # {} /\ g.players \subseteq User
    BY <1>1, EnoughIsSome DEF ProcessGameUpdate, Playable, Game
  <2>2. /\ g.dir_forwards = TRUE /\ g.has_started = TRUE /\ game.has_started = TRUE
        /\ g.current \in g.players
    BY <2>1 DEF Playable, Game
  <2>3. g.current \in AsTurnGame!Successors(g.players, game.current, TRUE)
    BY <2>1, SameNext DEF AsTurnGame!Successors, Ahead
  <2>4. QED
    BY <1>1, <2>1, <2>2, <2>3, SameCardinality DEF AsTurnGame!Turn
<1>2. CASE ~(Cardinality(g.players) >= MIN_PLAYERS)
  BY <1>2 DEF ProcessGameUpdate, Playable, NoGame, AsTurnGame!End, NoUser, AsTurnGame!NoUser
<1>3. QED
  BY <1>1, <1>2

\* The players' operations on a lobby, and the deal.
LEMMA JoinImplements ==
  ASSUME game \in Game, NEW u \in User, Join(u)
  PROVE  AsTurnGame!Join(u)
BY DEF Join, MayAdd, AddPlayer, Game, AsTurnGame!Join

LEMMA LeaveImplements ==
  ASSUME Inv, NEW u \in User, Leave(u)
  PROVE  AsTurnGame!LeaveLobby(u) \/ AsTurnGame!Turn \/ AsTurnGame!End
           \/ UNCHANGED AsTurnGame!vars
<1>1. CASE game.has_started
  <2>1. Playable(game) /\ game \in Game /\ game.current \in User
    BY <1>1 DEF Inv, TypeOK, CurrentIsPlayer, CurrentOK, Playable
  <2>2. Playable(Remove(game, u)) /\ Remove(game, u).players \subseteq game.players
    BY <2>1, RemoveOK
  <2>3. Ahead(Remove(game, u), game.current)
    BY <2>1, RemoveAhead DEF Ahead
  <2>4. QED
    BY <1>1, <2>1, <2>2, <2>3, TurnOrEnd DEF Leave
<1>2. CASE ~game.has_started
  <2> DEFINE r == Remove(game, u)
  <2>1. game \in Game /\ u # game.current
    BY <1>2, UserAssumption DEF Inv, TypeOK, CurrentIsPlayer, CurrentOK, NoUser
  <2>2. /\ r.players = game.players \ {u}
        /\ r.has_started = game.has_started /\ r.current = game.current
        /\ r.dir_forwards = game.dir_forwards
    BY <2>1 DEF Remove, RemovePlayer, Game
  <2>3. game' = IF Cardinality(r.players) >= MIN_PLAYERS \/ r.players # {} THEN r ELSE NoGame
    BY <1>2, <2>2 DEF Leave, ProcessGameUpdate
  <2> HIDE DEF r
  <2>4. CASE game' = NoGame
    BY <2>4 DEF NoGame, AsTurnGame!End, NoUser, AsTurnGame!NoUser
  <2>5. CASE game' = r
    BY <1>2, <2>2, <2>5 DEF AsTurnGame!LeaveLobby, AsTurnGame!vars
  <2>6. QED
    BY <2>3, <2>4, <2>5
<1>3. QED
  BY <1>1, <1>2

LEMMA DealtImplements ==
  ASSUME game \in Game, MayStart(game), NEW first \in game.players,
         NEW d, NEW visited, NEW out, first \notin out,
         game' = Dealt(game, first, d, visited, out)
  PROVE  AsTurnGame!Start
<1>1. /\ game'.players = game.players \ out
      /\ game'.has_started = TRUE /\ game'.current = first
      /\ game'.dir_forwards = game.dir_forwards
  BY DEF Dealt, StartWith, Game
<1>2. QED
  BY <1>1, SameCardinality DEF MayStart, AsTurnGame!Start

LEMMA StartImplements ==
  ASSUME Inv, NEW u \in User, Start(u) \/ StartBroken(u)
  PROVE  AsTurnGame!Start \/ AsTurnGame!End
<1>1. game \in Game
  BY DEF Inv, TypeOK
<1>2. CASE game' = NoGame
  BY <1>2 DEF NoGame, AsTurnGame!End, NoUser, AsTurnGame!NoUser
<1>3. CASE Start(u)
  <2>1. MayStart(game)
    BY <1>3 DEF Start
  <2>2. PICK first \in game.players, d \in Deals(game.players) :
          game' = Dealt(game, first, d, game.players, {})
    BY <1>3 DEF Start
  <2>3. first \notin {}
    OBVIOUS
  <2>4. QED
    BY <1>1, <2>1, <2>2, <2>3, DealtImplements
<1>4. CASE StartBroken(u) /\ game' # NoGame
  <2>1. MayStart(game)
    BY <1>4 DEF StartBroken
  <2>2. PICK first \in game.players, d \in Deals(game.players) :
          \E visited, out : first \notin out
                            /\ game' = Dealt(game, first, d, visited, out)
    BY <1>4 DEF StartBroken
  <2>3. QED
    BY <1>1, <2>1, <2>2, DealtImplements
<1>5. QED
  BY <1>2, <1>3, <1>4

\* cmd_add: the previous player and then the one who plays may win, and the
\* turn passes on once.
LEMMA AddImplements ==
  ASSUME Inv, NEW u \in User, Add(u)
  PROVE  AsTurnGame!Turn \/ AsTurnGame!End
<1>1. /\ Playable(game) /\ u \in game.players /\ game.current = u /\ game \in Game
      /\ game.has_started
  BY DEF Inv, TypeOK, CurrentIsPlayer, CurrentOK, Add, HasTurn, Playable
<1>2. PICK f \in Face \ {Queen}, cards \in Plays(game.hand[u]) :
        LET put  == Laid(game, u, f, cards)
            prev == UpdateCardsWin(put, PrevPlayer(put), FALSE)
            self == UpdateCardsWin(prev, u, TRUE)
        IN  game' = ProcessGameUpdate(PassOn(prev, self, u), NoGame)
  BY DEF Add, Laid
<1> DEFINE put  == Laid(game, u, f, cards)
           prev == UpdateCardsWin(put, PrevPlayer(put), FALSE)
           self == UpdateCardsWin(prev, u, TRUE)
           last == PassOn(prev, self, u)
<1>3. Playable(put) /\ put.players = game.players /\ put.current = u
  BY <1>1, LaidOK
<1> HIDE DEF put
<1>4. PrevPlayer(put) \in put.players /\ PrevPlayer(put) \in User
  <2>1. put.players \subseteq User /\ put.players # {}
    BY <1>1, <1>3 DEF Game
  <2>2. QED
    BY <2>1, NeighbourIsMember DEF PrevPlayer
<1>5. /\ Playable(prev) /\ prev.players \subseteq game.players
      /\ u \in prev.players => prev.current = u
      /\ u \notin prev.players => prev.players = {}
  <2>1. Playable(prev) /\ prev.players \in {put.players, put.players \ {PrevPlayer(put)}}
    BY <1>3, <1>4, UpdateCardsWinOK
  <2>2. /\ PrevPlayer(put) # u => prev.current = u
        /\ PrevPlayer(put) \in prev.players => prev.current = u
    BY <1>3, <1>4, UpdateCardsWinAhead DEF Ahead
  <2>3. put.players # {u} => PrevPlayer(put) # u
    <3>1. put.players \subseteq User /\ u \in put.players
      BY <1>1, <1>3 DEF Game
    <3>2. QED
      BY <1>3, <3>1, NeighbourIsOther DEF PrevPlayer, Neighbour
  <2>4. QED
    BY <1>1, <1>3, <2>1, <2>2, <2>3
<1>6. Ahead(prev, u)
  BY <1>3, <1>4, UpdateCardsWinAhead DEF Ahead
<1> HIDE DEF prev
<1>7. /\ Playable(self) /\ self.players \in {prev.players, prev.players \ {u}}
      /\ Ahead(self, u)
      /\ u \in self.players => self.current = prev.current
  BY <1>5, <1>6, UpdateCardsWinOK, UpdateCardsWinAhead
<1> HIDE DEF self
<1>8. Playable(last) /\ last.players = self.players
  BY <1>7, TurnNextOK DEF PassOn
<1>9. Ahead(last, u)
  <2>1. CASE u \in prev.players \ self.players
    BY <1>7, <2>1 DEF PassOn
  <2>2. CASE u \in self.players
    <3>1. self.current = u /\ last = TurnNext(self)
      BY <1>5, <1>7, <2>2 DEF PassOn
    <3>2. last.current = NextIn(self.players, u)
      BY <1>7, <2>2, <3>1 DEF TurnNext, Neighbour, Playable, Game
    <3>3. QED
      BY <1>8, <3>2 DEF Ahead
  <2>3. CASE u \notin prev.players
    <3>1. self.players = {}
      BY <1>5, <1>7, <2>3
    <3>2. QED
      BY <1>8, <3>1 DEF Ahead
  <2>4. QED
    BY <1>7, <2>1, <2>2, <2>3
<1> HIDE DEF last
<1>10. game' = ProcessGameUpdate(last, NoGame)
  BY <1>2 DEF last, self, prev, put
<1>11. last.players \subseteq game.players
  BY <1>5, <1>7, <1>8
<1>12. QED
  BY <1>1, <1>8, <1>9, <1>10, <1>11, TurnOrEnd

\* cmd_check: the turn passes on if the cards were correct, and then each of
\* the two players concerned may win.
LEMMA CheckImplements ==
  ASSUME Inv, NEW u \in User, Check(u)
  PROVE  AsTurnGame!Turn \/ AsTurnGame!End
<1> DEFINE turned == IF Lied(game) THEN game ELSE TurnNext(game)
           loser  == PrevPlayer(turned)
           taken  == TakeStack(turned, loser)
           first  == UpdateCardsWin(taken, loser, FALSE)
           second == UpdateCardsWin(first, taken.current, FALSE)
<1>1. /\ Playable(game) /\ u \in game.players /\ game.current = u /\ game \in Game
      /\ game.has_started
  BY DEF Inv, TypeOK, CurrentIsPlayer, CurrentOK, Check, HasTurn, Playable
<1>2. game' = ProcessGameUpdate(second, NoGame)
  BY DEF Check
<1>3. Playable(turned) /\ turned.players = game.players
  BY <1>1, TurnNextOK
<1>4. Ahead(turned, u)
  BY <1>1 DEF Ahead, TurnNext, Neighbour, Game
<1> HIDE DEF turned
<1>5. loser \in User
  <2>1. turned.players \subseteq User /\ turned.players # {}
    BY <1>1, <1>3 DEF Game
  <2>2. QED
    BY <2>1, NeighbourIsMember DEF PrevPlayer
<1> HIDE DEF loser
<1>6. Playable(taken) /\ taken.players = game.players
  BY <1>3, <1>5, TakeStackOK
<1>7. taken.current = turned.current
  BY <1>3 DEF TakeStack, Playable, Game
<1>8. Ahead(taken, u) /\ taken.current \in User
  BY <1>1, <1>3, <1>4, <1>6, <1>7 DEF Ahead, Playable, Game
<1> HIDE DEF taken
<1>9. Playable(first) /\ first.players \subseteq game.players /\ Ahead(first, u)
  <2>1. Playable(first) /\ first.players \in {taken.players, taken.players \ {loser}}
    BY <1>5, <1>6, UpdateCardsWinOK
  <2>2. Ahead(first, u)
    BY <1>5, <1>6, <1>8, UpdateCardsWinAhead
  <2>3. QED
    BY <1>6, <2>1, <2>2
<1> HIDE DEF first
<1>10. Playable(second) /\ second.players \subseteq game.players /\ Ahead(second, u)
  <2>1. /\ Playable(second)
        /\ second.players \in {first.players, first.players \ {taken.current}}
    BY <1>8, <1>9, UpdateCardsWinOK
  <2>2. Ahead(second, u)
    BY <1>8, <1>9, UpdateCardsWinAhead
  <2>3. QED
    BY <1>9, <2>1, <2>2
<1> HIDE DEF second
<1>11. QED
  BY <1>1, <1>2, <1>10, TurnOrEnd

LEMMA NextImplements ==
  ASSUME Inv, [Next]_vars
  PROVE  [AsTurnGame!Next]_(AsTurnGame!vars)
<1>1. game \in Game
  BY DEF Inv, TypeOK
<1>2. ASSUME NEW u \in User, Join(u) PROVE AsTurnGame!Next
  BY <1>1, <1>2, JoinImplements DEF AsTurnGame!Next
<1>3. ASSUME NEW u \in User, Leave(u) PROVE [AsTurnGame!Next]_(AsTurnGame!vars)
  BY <1>3, LeaveImplements DEF AsTurnGame!Next
<1>4. ASSUME NEW u \in User, Start(u) \/ StartBroken(u) PROVE AsTurnGame!Next
  BY <1>4, StartImplements DEF AsTurnGame!Next
<1>5. ASSUME NEW u \in User, Add(u) PROVE AsTurnGame!Next
  BY <1>5, AddImplements DEF AsTurnGame!Next
<1>6. ASSUME NEW u \in User, AddRefused(u) PROVE UNCHANGED AsTurnGame!vars
  BY <1>1, <1>6 DEF AddRefused, AsTurnGame!vars, Game
<1>7. ASSUME NEW u \in User, Check(u) PROVE AsTurnGame!Next
  BY <1>7, CheckImplements DEF AsTurnGame!Next
<1>8. CASE Forget
  BY <1>8 DEF Forget, NoGame, AsTurnGame!Next, AsTurnGame!End, NoUser, AsTurnGame!NoUser
<1>9. CASE UNCHANGED vars
  BY <1>9 DEF vars, AsTurnGame!vars
<1>10. QED
  BY <1>2, <1>3, <1>4, <1>5, <1>6, <1>7, <1>8, <1>9 DEF Next

\* The liar game implements the turn-based game: whatever a handler removes and
\* however often it passes the turn, what the players see is a join, a leave, a
\* start, one turn that passes on by at most one of them, or the end.
THEOREM Refinement == Spec => ImplementsTurnGame
<1>1. Init => AsTurnGame!Init
  BY DEF Init, NoGame, AsTurnGame!Init, NoUser, AsTurnGame!NoUser
<1>2. QED
  BY <1>1, NextImplements, Invariance, PTL DEF Spec, ImplementsTurnGame, AsTurnGame!Spec

\* A running game that loses a player ends, or keeps enough players.
THEOREM GamesEnd == Spec => TooFewPlayersEnd
<1> DEFINE Ends == game.has_started /\ game'.players # game.players =>
                     game'.players = {} \/ Cardinality(game'.players) >= MIN_PLAYERS
<1>1. ASSUME Inv, [Next]_vars PROVE Ends
  <2> SUFFICES ASSUME game.has_started, game'.players # game.players
               PROVE  game'.players = {} \/ Cardinality(game'.players) >= MIN_PLAYERS
    OBVIOUS
  <2>1. AsTurnGame!Next
    BY <1>1, NextImplements DEF AsTurnGame!vars
  <2>2. AsTurnGame!Turn \/ AsTurnGame!End
    BY <2>1 DEF AsTurnGame!Next, AsTurnGame!Join, AsTurnGame!LeaveLobby, AsTurnGame!Start
  <2>3. QED
    BY <2>2, SameCardinality DEF AsTurnGame!Turn, AsTurnGame!End
<1>2. QED
  BY <1>1, Invariance, PTL DEF Spec, TooFewPlayersEnd

-----------------------------------------------------------------------------
(* The cards.  Only four cards of a face are in a game and who does not    *)
(* play has none, so that a hand with four of a face has all there are,    *)
(* and a discard leaves none of them anywhere.                             *)

Counted(g) ==
  /\ \A f \in Face : Total(g, f) =< 4
  /\ \A q \in User \ g.players : g.hand[q] = NoCards

\* Cards on the stack are claimed to be of a face, the last ones apart.
Claimed(g) == Stack(g) # NoCards => g.top # NoCards /\ g.main_face # NoFace

\* Nothing is dealt before the start.
Undealt(g) ==
  ~g.has_started => /\ g.below = NoCards /\ g.top = NoCards
                    /\ \A q \in User : g.hand[q] = NoCards

\* The invariant of the cards, inductive together with Inv.
CardInv == Counted(game) /\ Claimed(game) /\ Undealt(game)

\* What becomes of the cards of a game: a face loses all four or none.
KeepsFaces(g, h) ==
  \A f \in Face : \/ Total(h, f) = Total(g, f)
                  \/ Total(h, f) = 0 /\ Total(g, f) = 4

\* A helper that leaves the stack alone, and takes cards away at most.
Discards(g, h) ==
  /\ h.below = g.below /\ h.top = g.top /\ h.main_face = g.main_face
  /\ \A q \in User : \A f \in Face : h.hand[q][f] =< g.hand[q][f]
  /\ KeepsFaces(g, h)

LEMMA NoCardsIs == NoCards \in Hand /\ \A f \in Face : NoCards[f] = 0
BY DEF NoCards, Hand

LEMMA StackIs ==
  ASSUME NEW g \in Game
  PROVE  /\ \A f \in Face : /\ g.below[f] \in Nat /\ g.top[f] \in Nat
                            /\ Stack(g)[f] = g.below[f] + g.top[f]
         /\ g.below = NoCards /\ g.top = NoCards => Stack(g) = NoCards
<1>1. \A f \in Face : /\ g.below[f] \in Nat /\ g.top[f] \in Nat
                     /\ Stack(g)[f] = g.below[f] + g.top[f]
  BY DEF Game, Hand, Stack, Plus
<1>2. ASSUME g.below = NoCards, g.top = NoCards PROVE Stack(g) = NoCards
  BY <1>2 DEF Stack, Plus, NoCards
<1>3. QED
  BY <1>1, <1>2

\* The cards of a face are those of the hands and those on the stack.
LEMMA TotalIs ==
  ASSUME NEW g \in Game, NEW f \in Face
  PROVE  /\ Total(g, f) \in Nat
         /\ \A q \in User : g.hand[q][f] \in Nat /\ g.hand[q][f] =< Total(g, f)
<1> DEFINE count == [q \in User |-> g.hand[q][f]]
<1>1. IsFiniteSet(User)
  BY PlayersAreFinite
<1>2. \A q \in User : count[q] \in Nat /\ count[q] = g.hand[q][f]
  BY DEF Game, Hand
<1>3. InHands(g.hand, User, f) = SumFunctionOnSet(count, User)
  BY DEF InHands
<1> HIDE DEF count
<1>4. SumFunctionOnSet(count, User) \in Nat
  BY <1>1, <1>2, SumStep
<1>5. \A q \in User : count[q] =< SumFunctionOnSet(count, User)
  BY <1>1, <1>2, SumElement
<1>6. Stack(g)[f] \in Nat
  BY StackIs
<1>7. QED
  BY <1>2, <1>3, <1>4, <1>5, <1>6 DEF Total

\* As long as only u's hand changes the cards of the others do not matter.
LEMMA TotalMoves ==
  ASSUME NEW g \in Game, NEW h \in Game, NEW u \in User,
         \A q \in User \ {u} : h.hand[q] = g.hand[q], NEW f \in Face
  PROVE  Total(h, f) + g.hand[u][f] + Stack(g)[f] =
           Total(g, f) + h.hand[u][f] + Stack(h)[f]
<1> DEFINE old == [q \in User |-> g.hand[q][f]]
           new == [q \in User |-> h.hand[q][f]]
<1>1. IsFiniteSet(User)
  BY PlayersAreFinite
<1>2. \A q \in User : /\ old[q] \in Nat /\ old[q] = g.hand[q][f]
                     /\ new[q] \in Nat /\ new[q] = h.hand[q][f]
  BY DEF Game, Hand
<1>3. \A q \in User \ {u} : old[q] = new[q]
  OBVIOUS
<1>4. /\ InHands(g.hand, User, f) = SumFunctionOnSet(old, User)
      /\ InHands(h.hand, User, f) = SumFunctionOnSet(new, User)
  BY DEF InHands
<1> HIDE DEF old, new
<1>5. SumFunctionOnSet(new, User) + old[u] = SumFunctionOnSet(old, User) + new[u]
  BY <1>1, <1>2, <1>3, SumExcept
<1>6. SumFunctionOnSet(new, User) \in Nat /\ SumFunctionOnSet(old, User) \in Nat
  BY <1>1, <1>2, SumStep
<1>7. Stack(g)[f] \in Nat /\ Stack(h)[f] \in Nat
  BY StackIs
<1> DEFINE a == SumFunctionOnSet(new, User)
           b == SumFunctionOnSet(old, User)
<1>8. Total(g, f) = b + Stack(g)[f] /\ Total(h, f) = a + Stack(h)[f]
  BY <1>4 DEF Total
<1> HIDE DEF a, b
<1>9. a \in Nat /\ b \in Nat /\ a + old[u] = b + new[u]
  BY <1>5, <1>6 DEF a, b
<1>10. QED
  BY <1>2, <1>7, <1>8, <1>9

\* What lies on the table and in the hands tells how many cards there are.
LEMMA SameTotal ==
  ASSUME NEW g \in Game, NEW h \in Game, h.hand = g.hand,
         h.below = g.below, h.top = g.top
  PROVE  \A f \in Face : Total(h, f) = Total(g, f)
BY DEF Total, Stack

\* No cards at all.
LEMMA NoTotal ==
  ASSUME NEW g \in Game, \A q \in User : g.hand[q] = NoCards,
         g.below = NoCards, g.top = NoCards
  PROVE  Counted(g) /\ Claimed(g) /\ Undealt(g)
<1>1. ASSUME NEW f \in Face PROVE Total(g, f) =< 4
  <2> DEFINE count == [q \in User |-> g.hand[q][f]]
  <2>1. IsFiniteSet(User) /\ \A q \in User : count[q] \in Nat /\ count[q] = 0
    BY PlayersAreFinite, NoCardsIs
  <2>2. InHands(g.hand, User, f) = SumFunctionOnSet(count, User)
    BY DEF InHands
  <2> HIDE DEF count
  <2>3. SumFunctionOnSet(count, User) = 0
    BY <2>1, SumZero
  <2>4. Stack(g)[f] = 0
    BY StackIs, NoCardsIs
  <2>5. QED
    BY <2>2, <2>3, <2>4 DEF Total
<1>2. Stack(g) = NoCards
  BY StackIs
<1>3. QED
  BY <1>1, <1>2 DEF Counted, Claimed, Undealt

LEMMA NoGameIs ==
  /\ NoGame \in Game /\ NoGame.has_started = FALSE /\ NoGame.players = {}
  /\ \A q \in User : NoGame.hand[q] = NoCards
  /\ Counted(NoGame) /\ Claimed(NoGame) /\ Undealt(NoGame)
<1>1. /\ NoGame \in Game /\ NoGame.has_started = FALSE /\ NoGame.players = {}
      /\ \A q \in User : NoGame.hand[q] = NoCards
      /\ NoGame.below = NoCards /\ NoGame.top = NoCards
  BY NoGameOK DEF NoGame
<1> HIDE DEF NoGame
<1>2. QED
  BY <1>1, NoTotal

\* Two helpers one after the other.
LEMMA DiscardsTwice ==
  ASSUME NEW g \in Game, NEW h \in Game, NEW k \in Game, Discards(g, h), Discards(h, k)
  PROVE  Discards(g, k)
<1>1. \A q \in User : \A f \in Face :
        g.hand[q][f] \in Nat /\ h.hand[q][f] \in Nat /\ k.hand[q][f] \in Nat
  BY TotalIs
<1>2. \A q \in User : \A f \in Face : k.hand[q][f] =< g.hand[q][f]
  BY <1>1 DEF Discards
<1>3. KeepsFaces(g, k)
  BY DEF Discards, KeepsFaces
<1>4. QED
  BY <1>2, <1>3 DEF Discards

\* A hand with four of a face had them before.
LEMMA DiscardsNoQuartet ==
  ASSUME NEW g \in Game, NEW h \in Game, NEW q \in User,
         \A f \in Face : h.hand[q][f] =< g.hand[q][f], Quartet(h.hand[q])
  PROVE  Quartet(g.hand[q])
<1>1. PICK f \in Face : h.hand[q][f] >= 4
  BY DEF Quartet
<1>2. g.hand[q][f] \in Nat /\ h.hand[q][f] \in Nat /\ h.hand[q][f] =< g.hand[q][f]
  BY TotalIs
<1>3. g.hand[q][f] >= 4
  BY <1>1, <1>2
<1>4. QED
  BY <1>3 DEF Quartet

-----------------------------------------------------------------------------
(* What the helpers of the handlers do to the cards                        *)

LEMMA RemoveIs ==
  ASSUME NEW g \in Game, NEW u \in User, NEW r, r = Remove(g, u)
  PROVE  /\ r.players = g.players \ {u}
         /\ r.has_started = g.has_started
         /\ r.below = g.below /\ r.top = g.top /\ r.main_face = g.main_face
         /\ \A q \in User : r.hand[q] = IF q = u THEN NoCards ELSE g.hand[q]
<1> DEFINE h == IF u = g.current THEN TurnNext(g) ELSE g
           m == RemovePlayer(g, u)
<1>1. /\ h.players = g.players /\ h.has_started = g.has_started
      /\ h.below = g.below /\ h.top = g.top /\ h.main_face = g.main_face
      /\ h.hand = g.hand
      /\ DOMAIN h = DOMAIN g
  BY DEF TurnNext, Game
<1> HIDE DEF h
<1>2. m = IF u \notin g.players THEN g ELSE [h EXCEPT !.players = @ \ {u}]
  BY DEF RemovePlayer, h
<1>3. /\ m.players = g.players \ {u} /\ m.has_started = g.has_started
      /\ m.below = g.below /\ m.top = g.top /\ m.main_face = g.main_face
      /\ m.hand = g.hand
      /\ DOMAIN m = DOMAIN g
  BY <1>1, <1>2 DEF Game
<1> HIDE DEF m
<1>4. r = [m EXCEPT !.hand[u] = NoCards]
  BY DEF Remove, m
<1>5. m.hand \in [User -> Hand]
  BY <1>3 DEF Game
<1>6. QED
  BY <1>3, <1>4, <1>5 DEF Game

\* A player who leaves takes a hand of cards along.
LEMMA RemoveCards ==
  ASSUME NEW g \in Game, Counted(g), NEW u \in User, NEW r \in Game, r = Remove(g, u)
  PROVE  /\ Counted(r)
         /\ \A f \in Face : Total(r, f) = Total(g, f) - g.hand[u][f]
<1>1. /\ r.players = g.players \ {u}
      /\ r.below = g.below /\ r.top = g.top
      /\ \A q \in User : r.hand[q] = IF q = u THEN NoCards ELSE g.hand[q]
  BY RemoveIs
<1>2. ASSUME NEW f \in Face
      PROVE  Total(r, f) = Total(g, f) - g.hand[u][f] /\ Total(r, f) =< 4
  <2>1. Total(r, f) + g.hand[u][f] + Stack(g)[f] = Total(g, f) + r.hand[u][f] + Stack(r)[f]
    BY <1>1, TotalMoves
  <2>2. r.hand[u][f] = 0
    BY <1>1, NoCardsIs
  <2>3. Stack(r)[f] = Stack(g)[f] /\ Stack(g)[f] \in Nat
    BY <1>1, StackIs DEF Stack
  <2>4. Total(r, f) \in Nat /\ Total(g, f) \in Nat /\ g.hand[u][f] \in Nat
    BY TotalIs
  <2>5. Total(g, f) =< 4
    BY DEF Counted
  <2>6. QED
    BY <2>1, <2>2, <2>3, <2>4, <2>5
<1>3. \A q \in User \ r.players : r.hand[q] = NoCards
  BY <1>1 DEF Counted
<1>4. QED
  BY <1>2, <1>3 DEF Counted

\* Passing the turn on moves no card.
LEMMA TurnNextCards ==
  ASSUME NEW g, Playable(g), Counted(g), NEW h, h = TurnNext(g)
  PROVE  Playable(h) /\ Discards(g, h) /\ Counted(h) /\ h.players = g.players /\ h.hand = g.hand
<1>1. Playable(h) /\ h.players = g.players
  BY TurnNextOK
<1>2. /\ h.hand = g.hand /\ h.below = g.below /\ h.top = g.top
      /\ h.main_face = g.main_face
  BY DEF TurnNext, Playable, Game
<1>3. g \in Game /\ h \in Game
  BY <1>1 DEF Playable
<1>4. \A f \in Face : Total(h, f) = Total(g, f)
  BY <1>2, <1>3, SameTotal
<1>5. \A q \in User : \A f \in Face : g.hand[q][f] \in Nat
  BY <1>3, TotalIs
<1>6. Discards(g, h)
  BY <1>2, <1>4, <1>5 DEF Discards, KeepsFaces
<1>7. Counted(h)
  BY <1>1, <1>2, <1>4 DEF Counted
<1>8. QED
  BY <1>1, <1>2, <1>6, <1>7

\* A discard takes the faces of which the hand has four or more, and no other.
LEMMA DiscardIs ==
  ASSUME NEW h \in Hand
  PROVE  /\ \A f \in Face : /\ h[f] \in Nat
                            /\ Discard(h)[f] = IF h[f] >= 4 THEN 0 ELSE h[f]
         /\ ~Quartet(Discard(h))
         /\ h = NoCards => Discard(h) = NoCards
<1>1. \A f \in Face : h[f] \in Nat /\ Discard(h)[f] = IF h[f] >= 4 THEN 0 ELSE h[f]
  BY DEF Discard, Hand
<1>2. ~Quartet(Discard(h))
  BY <1>1 DEF Quartet
<1>3. ASSUME h = NoCards PROVE Discard(h) = NoCards
  BY <1>3 DEF Discard, NoCards
<1>4. QED
  BY <1>1, <1>2, <1>3

\* updateCardsWin discards from one hand, whether or not its player wins.
LEMMA UpdateCardsWinCards ==
  ASSUME NEW g, Playable(g), Counted(g), NEW u \in User, NEW played \in BOOLEAN,
         NEW h, h = UpdateCardsWin(g, u, played)
  PROVE  /\ Playable(h) /\ Discards(g, h) /\ Counted(h)
         /\ u \in g.players => ~Quartet(h.hand[u])
         /\ u \in g.players /\ g.hand[u] = NoCards /\ ~played => u \notin h.players
<1> DEFINE left == Discard(g.hand[u])
           kept == [g EXCEPT !.hand[u] = left]
           wins == left = NoCards /\ (g.hand[u] = NoCards => ~played)
<1>1. Playable(h) /\ h.players \in {g.players, g.players \ {u}}
  BY UpdateCardsWinOK
<1>2. h = IF u \notin g.players THEN g ELSE IF wins THEN Remove(g, u) ELSE kept
  BY DEF UpdateCardsWin
<1>3. g \in Game /\ h \in Game /\ g.hand \in [User -> Hand] /\ g.hand[u] \in Hand
  BY <1>1 DEF Playable, Game
<1>4. \A q \in User : \A f \in Face : g.hand[q][f] \in Nat
  BY <1>3, TotalIs
<1>5. \A f \in Face : g.hand[u][f] \in Nat
                      /\ left[f] = IF g.hand[u][f] >= 4 THEN 0 ELSE g.hand[u][f]
  BY <1>3, DiscardIs
<1>6. ~Quartet(left) /\ (g.hand[u] = NoCards => left = NoCards)
  BY <1>3, DiscardIs
<1>7. CASE u \notin g.players
  <2>1. h = g
    BY <1>2, <1>7
  <2>2. Discards(g, h)
    BY <1>4, <2>1 DEF Discards, KeepsFaces
  <2>3. QED
    BY <1>1, <1>7, <2>1, <2>2
<1>8. CASE u \in g.players
  <2>1. /\ h.below = g.below /\ h.top = g.top /\ h.main_face = g.main_face
        /\ \A q \in User : h.hand[q] = IF q = u THEN left ELSE g.hand[q]
        /\ wins => h.players = g.players \ {u}
        /\ ~wins => h.players = g.players
    <3>1. CASE wins
      <4> HIDE DEF kept
      <4>1. h = Remove(g, u) /\ left = NoCards
        BY <1>2, <1>8, <3>1
      <4> HIDE DEF wins, left
      <4>2. /\ h.players = g.players \ {u}
            /\ h.below = g.below /\ h.top = g.top /\ h.main_face = g.main_face
            /\ \A q \in User : h.hand[q] = IF q = u THEN NoCards ELSE g.hand[q]
        BY <1>3, <4>1, RemoveIs
      <4>3. QED
        BY <3>1, <4>1, <4>2
    <3>2. CASE ~wins
      <4> HIDE DEF left
      <4>1. h = kept
        BY <1>2, <1>8, <3>2
      <4> HIDE DEF wins
      <4>2. QED
        BY <1>3, <3>2, <4>1 DEF Game
    <3>3. QED
      BY <3>1, <3>2
  <2>2. ASSUME NEW f \in Face
        PROVE  \/ Total(h, f) = Total(g, f)
               \/ Total(h, f) = 0 /\ Total(g, f) = 4
    <3> HIDE DEF left, wins, kept
    <3>1. Total(h, f) + g.hand[u][f] + Stack(g)[f] = Total(g, f) + h.hand[u][f] + Stack(h)[f]
      BY <1>3, <2>1, TotalMoves
    <3>2. Stack(h)[f] = Stack(g)[f] /\ Stack(g)[f] \in Nat
      BY <1>3, <2>1, StackIs DEF Stack
    <3>3. /\ Total(h, f) \in Nat /\ Total(g, f) \in Nat
          /\ g.hand[u][f] \in Nat /\ g.hand[u][f] =< Total(g, f)
      BY <1>3, TotalIs
    <3>4. h.hand[u][f] = IF g.hand[u][f] >= 4 THEN 0 ELSE g.hand[u][f]
      BY <1>5, <2>1
    <3>5. Total(g, f) =< 4
      BY DEF Counted
    <3>6. QED
      BY <3>1, <3>2, <3>3, <3>4, <3>5
  <2>3. \A q \in User : \A f \in Face : h.hand[q][f] =< g.hand[q][f]
    <3> HIDE DEF left, wins, kept
    <3>1. QED
      BY <1>4, <1>5, <2>1
  <2>4. Discards(g, h)
    BY <2>1, <2>2, <2>3 DEF Discards, KeepsFaces
  <2>5. Counted(h)
    <3>1. \A f \in Face : Total(h, f) =< 4
      BY <2>2 DEF Counted
    <3>2. ASSUME NEW q \in User \ h.players PROVE h.hand[q] = NoCards
      <4>1. wins => left = NoCards
        OBVIOUS
      <4> HIDE DEF left, wins, kept
      <4>2. CASE q = u
        BY <1>8, <2>1, <4>1, <4>2
      <4>3. CASE q # u
        <5>1. q \notin g.players
          BY <2>1, <4>3
        <5>2. g.hand[q] = NoCards
          BY <5>1 DEF Counted
        <5>3. QED
          BY <2>1, <4>3, <5>2
      <4>4. QED
        BY <4>2, <4>3
    <3>3. QED
      BY <3>1, <3>2 DEF Counted
  <2>6. ~Quartet(h.hand[u])
    BY <1>6, <2>1
  <2>7. g.hand[u] = NoCards /\ ~played => u \notin h.players
    BY <1>6, <2>1
  <2>8. QED
    BY <1>1, <2>4, <2>5, <2>6, <2>7
<1>9. QED
  BY <1>7, <1>8

-----------------------------------------------------------------------------
(* What the handlers do to the cards                                       *)

\* The players' number only decides whether there is still a game.
LEMMA UpdateIs ==
  ASSUME NEW g
  PROVE  ProcessGameUpdate(g, NoGame) \in {g, NoGame}
BY DEF ProcessGameUpdate

LEMMA CurrentIsUser ==
  ASSUME Inv, NEW u \in User, HasTurn(game, u)
  PROVE  Playable(game) /\ game \in Game /\ game.has_started /\ u \in game.players
           /\ game.current = u
BY DEF Inv, TypeOK, CurrentIsPlayer, CurrentOK, HasTurn, Playable

LEMMA JoinCards ==
  ASSUME Inv, CardInv, NEW u \in User, Join(u)
  PROVE  CardInv'
<1>1. game \in Game /\ game' \in Game
  BY JoinOK DEF Inv, TypeOK
<1>2. /\ game'.hand = game.hand /\ game'.below = game.below /\ game'.top = game.top
      /\ game'.main_face = game.main_face /\ game'.has_started = game.has_started
      /\ game'.players = game.players \cup {u}
  BY <1>1 DEF Join, AddPlayer, Game
<1>3. \A f \in Face : Total(game', f) = Total(game, f)
  BY <1>1, <1>2, SameTotal
<1>4. Counted(game')
  BY <1>2, <1>3 DEF CardInv, Counted
<1>5. Claimed(game') /\ Undealt(game')
  BY <1>2 DEF CardInv, Claimed, Undealt, Stack
<1>6. QED
  BY <1>4, <1>5 DEF CardInv

LEMMA LeaveIs ==
  ASSUME Inv, CardInv, NEW u \in User, Leave(u), NEW r, r = Remove(game, u)
  PROVE  /\ r \in Game /\ Counted(r) /\ Claimed(r) /\ Undealt(r)
         /\ game' \in {r, NoGame}
<1>1. game \in Game
  BY DEF Inv, TypeOK
<1>2. r \in Game
  <2>1. CASE game.has_started
    <3>1. Playable(game)
      BY <2>1 DEF Inv, TypeOK, CurrentIsPlayer, CurrentOK, Playable
    <3>2. QED
      BY <3>1, RemoveOK DEF Playable
  <2>2. CASE ~game.has_started
    <3>1. u # game.current
      BY <2>2, UserAssumption DEF Inv, CurrentIsPlayer, CurrentOK, NoUser
    <3>2. RemovePlayer(game, u) \in {game, [game EXCEPT !.players = @ \ {u}]}
      BY <3>1 DEF RemovePlayer
    <3>3. QED
      BY <1>1, <3>2, NoCardsIs DEF Remove, Game
  <2>3. QED
    BY <2>1, <2>2
<1>3. Counted(r)
  BY <1>1, <1>2, RemoveCards DEF CardInv
<1>4. Claimed(r) /\ Undealt(r)
  <2>1. /\ r.has_started = game.has_started
        /\ r.below = game.below /\ r.top = game.top /\ r.main_face = game.main_face
        /\ \A q \in User : r.hand[q] = IF q = u THEN NoCards ELSE game.hand[q]
    BY <1>1, RemoveIs
  <2>2. QED
    BY <2>1 DEF CardInv, Claimed, Undealt, Stack
<1>5. game' \in {r, NoGame}
  BY UpdateIs DEF Leave
<1>6. QED
  BY <1>2, <1>3, <1>4, <1>5

\* The deal gives every card to one player, and a discard only takes some.
LEMMA DealtCards ==
  ASSUME NEW g \in Game, ~g.has_started, Undealt(g),
         NEW first \in g.players, NEW d \in Deals(g.players),
         NEW visited, NEW out, first \notin out,
         NEW h, h = Dealt(g, first, d, visited, out)
  PROVE  Counted(h) /\ Claimed(h) /\ Undealt(h)
<1>1. h \in Game
  BY DealtOK
<1>2. /\ h.below = g.below /\ h.top = g.top /\ h.has_started = TRUE
      /\ h.players = g.players \ out
      /\ \A q \in User : h.hand[q] = IF q \in g.players \ out
                                     THEN IF q \in visited THEN Discard(d[q]) ELSE d[q]
                                     ELSE NoCards
  BY DEF Dealt, StartWith, Game
<1>3. Claimed(h)
  BY <1>1, <1>2, StackIs DEF Claimed, Undealt
<1>4. ASSUME NEW f \in Face PROVE Total(h, f) =< 4
  <2> DEFINE have == [q \in User |-> h.hand[q][f]]
             deal == [q \in g.players |-> d[q][f]]
  <2>1. IsFiniteSet(User) /\ IsFiniteSet(g.players) /\ g.players \in SUBSET User
    BY PlayersAreFinite DEF Game
  <2>2. \A q \in g.players : d[q] \in Hand
    BY DEF Deals, FewCards, Hand
  <2>3. \A q \in User : have[q] \in Nat /\ have[q] = h.hand[q][f]
    BY <1>1, TotalIs
  <2>4. \A q \in g.players : deal[q] \in Nat /\ deal[q] = d[q][f]
    BY <2>2 DEF Hand
  <2>5. \A q \in User \ g.players : have[q] = 0
    BY <1>2, <2>3, NoCardsIs
  <2>6. ASSUME NEW q \in g.players PROVE have[q] =< deal[q]
    <3>1. q \in User /\ d[q][f] \in Nat /\ (Discard(d[q])[f] = d[q][f] \/ Discard(d[q])[f] = 0)
      BY <2>1, <2>2, DiscardIs
    <3>2. h.hand[q][f] \in {Discard(d[q])[f], d[q][f], 0}
      BY <1>2, <3>1, NoCardsIs
    <3>3. QED
      BY <2>3, <2>4, <3>1, <3>2
  <2>7. InHands(h.hand, User, f) = SumFunctionOnSet(have, User)
    BY DEF InHands
  <2>8. InHands(d, g.players, f) = SumFunctionOnSet(deal, g.players)
    BY DEF InHands
  <2> HIDE DEF have, deal
  <2>9. SumFunctionOnSet(have, User) = SumFunctionOnSet(have, g.players)
    BY <2>1, <2>3, <2>5, SumWithoutZeros
  <2>10. \A q \in g.players : have[q] \in Nat /\ deal[q] \in Nat /\ have[q] =< deal[q]
    BY <2>1, <2>3, <2>4, <2>6
  <2>11. SumFunctionOnSet(have, g.players) =< SumFunctionOnSet(deal, g.players)
    BY <2>1, <2>10, SumMono
  <2>12. SumFunctionOnSet(deal, g.players) \in {3, 4}
    BY <2>8 DEF Deals, Copies
  <2>13. SumFunctionOnSet(have, g.players) \in Nat
    BY <2>1, <2>10, SumStep
  <2>14. Stack(h)[f] = 0
    <3>1. Stack(h) = NoCards
      BY <1>1, <1>2, StackIs DEF Undealt
    <3>2. QED
      BY <3>1, NoCardsIs
  <2>15. Total(h, f) = SumFunctionOnSet(have, g.players) + 0
    BY <2>7, <2>9, <2>14 DEF Total
  <2>16. QED
    BY <2>11, <2>12, <2>13, <2>15
<1>5. Counted(h)
  BY <1>2, <1>4 DEF Counted
<1>6. QED
  BY <1>2, <1>3, <1>5 DEF Undealt

LEMMA StartCards ==
  ASSUME Inv, CardInv, NEW u \in User, Start(u) \/ StartBroken(u)
  PROVE  CardInv'
<1>1. game \in Game /\ ~game.has_started /\ Undealt(game)
  BY DEF Inv, TypeOK, CardInv, Start, StartBroken, MayStart
<1>2. CASE game' = NoGame
  BY <1>2, NoGameIs DEF CardInv
<1>3. CASE \E first \in game.players, d \in Deals(game.players) :
             \E visited, out : first \notin out
                               /\ game' = Dealt(game, first, d, visited, out)
  BY <1>1, <1>3, DealtCards DEF CardInv
<1>4. CASE Start(u)
  <2>1. PICK first \in game.players, d \in Deals(game.players) :
          game' = Dealt(game, first, d, game.players, {})
    BY <1>4 DEF Start
  <2>2. first \notin {}
    OBVIOUS
  <2>3. QED
    BY <1>3, <2>1, <2>2
<1>5. CASE StartBroken(u)
  BY <1>2, <1>3, <1>5 DEF StartBroken
<1>6. QED
  BY <1>4, <1>5

\* Cards that are put on the stack are claimed to be of the face f.
LEMMA LaidCards ==
  ASSUME NEW g, Playable(g), Counted(g), NEW u \in g.players, NEW f \in Face \ {Queen},
         NEW cards \in Plays(g.hand[u]), NEW h, h = Laid(g, u, f, cards)
  PROVE  /\ Playable(h) /\ Counted(h) /\ Claimed(h)
         /\ h.players = g.players /\ h.current = g.current
         /\ \A q \in User \ {u} : h.hand[q] = g.hand[q]
         /\ \A q \in User : \A x \in Face : h.hand[q][x] =< g.hand[q][x]
         /\ \A x \in Face : Total(h, x) = Total(g, x)
<1>1. g \in Game /\ u \in User
  BY DEF Playable, Game
<1>2. Playable(h) /\ h.players = g.players /\ h.current = g.current
  BY <1>1, LaidOK
<1>3. h \in Game
  BY <1>2 DEF Playable
<1>4. /\ h.main_face = f /\ h.below = Stack(g) /\ h.top = cards
      /\ \A q \in User \ {u} : h.hand[q] = g.hand[q]
      /\ h.hand[u] = Minus(g.hand[u], cards)
  BY <1>1 DEF Laid, Game
<1>5. cards # NoCards /\ \A x \in Face : cards[x] \in Nat /\ cards[x] =< g.hand[u][x]
  BY DEF Plays, FewCards
<1>6. \A q \in User : \A x \in Face : g.hand[q][x] \in Nat
  BY <1>1, TotalIs
<1>7. \A x \in Face : h.hand[u][x] = g.hand[u][x] - cards[x]
  BY <1>4 DEF Minus
<1>8. ASSUME NEW q \in User, NEW x \in Face PROVE h.hand[q][x] =< g.hand[q][x]
  <2>1. CASE q = u
    BY <1>1, <1>5, <1>6, <1>7, <2>1
  <2>2. CASE q # u
    BY <1>4, <1>6, <2>2
  <2>3. QED
    BY <2>1, <2>2
<1>9. ASSUME NEW x \in Face PROVE Total(h, x) = Total(g, x)
  <2>1. Total(h, x) + g.hand[u][x] + Stack(g)[x] = Total(g, x) + h.hand[u][x] + Stack(h)[x]
    BY <1>1, <1>3, <1>4, TotalMoves
  <2>2. Stack(g)[x] \in Nat /\ Stack(h)[x] = Stack(g)[x] + cards[x]
    BY <1>1, <1>3, <1>4, StackIs
  <2>3. Total(h, x) \in Nat /\ Total(g, x) \in Nat
    BY <1>1, <1>3, TotalIs
  <2>4. g.hand[u][x] \in Nat /\ cards[x] \in Nat /\ h.hand[u][x] = g.hand[u][x] - cards[x]
    BY <1>1, <1>5, <1>6, <1>7
  <2>5. QED
    BY <2>1, <2>2, <2>3, <2>4
<1>10. Counted(h)
  BY <1>2, <1>4, <1>9 DEF Counted
<1>11. Claimed(h)
  BY <1>4, <1>5, FaceAssumption DEF Claimed
<1>12. QED
  BY <1>2, <1>4, <1>8, <1>9, <1>10, <1>11

\* cmd_add: the cards change place, and the previous player and the one who
\* plays discard.
LEMMA AddIs ==
  ASSUME Inv, CardInv, NEW u \in User, Add(u)
  PROVE  \E g : /\ Playable(g) /\ Counted(g) /\ Claimed(g)
                /\ game' = ProcessGameUpdate(g, NoGame)
                /\ KeepsFaces(game, g)
                /\ \A q \in User : \A x \in Face : g.hand[q][x] =< game.hand[q][x]
                /\ game.hand[PrevPlayer(game)] = NoCards =>
                     PrevPlayer(game) \notin g.players
<1>1. /\ Playable(game) /\ game \in Game /\ u \in game.players /\ game.current = u
      /\ Counted(game)
  BY CurrentIsUser DEF Add, CardInv
<1>2. PICK f \in Face \ {Queen}, cards \in Plays(game.hand[u]) :
        LET put  == Laid(game, u, f, cards)
            prev == UpdateCardsWin(put, PrevPlayer(put), FALSE)
            self == UpdateCardsWin(prev, u, TRUE)
        IN  game' = ProcessGameUpdate(PassOn(prev, self, u), NoGame)
  BY DEF Add, Laid
<1> DEFINE before == PrevPlayer(game)
           put  == Laid(game, u, f, cards)
           prev == UpdateCardsWin(put, before, FALSE)
           self == UpdateCardsWin(prev, u, TRUE)
           last == PassOn(prev, self, u)
<1>3. /\ Playable(put) /\ Counted(put) /\ Claimed(put)
      /\ put.players = game.players /\ put.current = game.current
      /\ \A q \in User \ {u} : put.hand[q] = game.hand[q]
      /\ \A q \in User : \A x \in Face : put.hand[q][x] =< game.hand[q][x]
      /\ \A x \in Face : Total(put, x) = Total(game, x)
  BY <1>1, LaidCards
<1>4. PrevPlayer(put) = before
  BY <1>3 DEF PrevPlayer
<1>5. before \in game.players /\ before \in User
  <2>1. game.players \subseteq User /\ game.players # {}
    BY <1>1 DEF Game
  <2>2. QED
    BY <2>1, NeighbourIsMember DEF PrevPlayer
<1>6. game' = ProcessGameUpdate(last, NoGame)
  BY <1>2, <1>4
<1>7. game.hand[before] = NoCards => before # u
  <2>1. cards # NoCards /\ cards \in FewCards /\ \A x \in Face : cards[x] =< game.hand[u][x]
    BY DEF Plays
  <2>2. \A x \in Face : cards[x] \in Nat
    BY <2>1 DEF FewCards
  <2>3. \E x \in Face : cards[x] # 0
    BY <2>1 DEF FewCards, NoCards
  <2>4. game.hand[u] # NoCards
    BY <2>1, <2>2, <2>3, NoCardsIs
  <2>5. QED
    BY <2>4
<1> HIDE DEF put, before
<1>8. /\ Playable(prev) /\ Counted(prev) /\ Discards(put, prev)
      /\ put.hand[before] = NoCards => before \notin prev.players
  BY <1>3, <1>5, UpdateCardsWinCards
<1> HIDE DEF prev
<1>9. /\ Playable(self) /\ Counted(self) /\ Discards(prev, self)
      /\ self.players \subseteq prev.players
  <2>1. Playable(self) /\ Counted(self) /\ Discards(prev, self)
    BY <1>8, UpdateCardsWinCards
  <2>2. self.players \in {prev.players, prev.players \ {u}}
    BY <1>8, UpdateCardsWinOK
  <2>3. QED
    BY <2>1, <2>2
<1> HIDE DEF self
<1>10. /\ Playable(last) /\ Counted(last) /\ Discards(self, last)
       /\ last.players = self.players
  <2>1. CASE last = self
    <3>1. \A q \in User : \A x \in Face : self.hand[q][x] \in Nat
      BY <1>9, TotalIs DEF Playable
    <3>2. QED
      BY <1>9, <2>1, <3>1 DEF Discards, KeepsFaces
  <2>2. CASE last = TurnNext(self)
    BY <1>9, <2>2, TurnNextCards
  <2>3. QED
    BY <2>1, <2>2 DEF PassOn
<1> HIDE DEF last
<1>11. Discards(put, last)
  <2>1. put \in Game /\ prev \in Game /\ self \in Game /\ last \in Game
    BY <1>3, <1>8, <1>9, <1>10 DEF Playable
  <2>2. Discards(put, self)
    BY <1>8, <1>9, <2>1, DiscardsTwice
  <2>3. QED
    BY <1>10, <2>1, <2>2, DiscardsTwice
<1>12. Claimed(last)
  BY <1>3, <1>11 DEF Claimed, Discards, Stack
<1>13. KeepsFaces(game, last)
  BY <1>3, <1>11 DEF Discards, KeepsFaces
<1>14. \A q \in User : \A x \in Face : last.hand[q][x] =< game.hand[q][x]
  <2>1. \A q \in User : \A x \in Face :
          game.hand[q][x] \in Nat /\ put.hand[q][x] \in Nat /\ last.hand[q][x] \in Nat
    BY <1>1, <1>3, <1>10, TotalIs DEF Playable
  <2>2. \A q \in User : \A x \in Face : last.hand[q][x] =< put.hand[q][x]
    BY <1>11 DEF Discards
  <2>3. QED
    BY <1>3, <2>1, <2>2
<1>15. game.hand[before] = NoCards => before \notin last.players
  BY <1>3, <1>5, <1>7, <1>8, <1>9, <1>10
<1>16. QED
  BY <1>6, <1>10, <1>12, <1>13, <1>14, <1>15 DEF before

\* The stack goes to the loser's hand.
LEMMA TakeStackCards ==
  ASSUME NEW g, Playable(g), Counted(g), NEW u \in g.players, NEW h, h = TakeStack(g, u)
  PROVE  /\ Playable(h) /\ Counted(h) /\ h.players = g.players /\ h.current = g.current
         /\ h.below = NoCards /\ h.top = NoCards
         /\ \A q \in User \ {u} : h.hand[q] = g.hand[q]
         /\ \A f \in Face : Total(h, f) = Total(g, f)
<1>1. g \in Game /\ u \in User
  BY DEF Playable, Game
<1>2. Playable(h) /\ h.players = g.players
  BY <1>1, TakeStackOK
<1>3. h \in Game
  BY <1>2 DEF Playable
<1>4. /\ h.below = NoCards /\ h.top = NoCards /\ h.current = g.current
      /\ \A q \in User \ {u} : h.hand[q] = g.hand[q]
      /\ h.hand[u] = Plus(g.hand[u], Stack(g))
  BY <1>1 DEF TakeStack, Game
<1>5. ASSUME NEW f \in Face PROVE Total(h, f) = Total(g, f)
  <2>1. Total(h, f) + g.hand[u][f] + Stack(g)[f] = Total(g, f) + h.hand[u][f] + Stack(h)[f]
    BY <1>1, <1>3, <1>4, TotalMoves
  <2>2. Stack(g)[f] \in Nat
    BY <1>1, StackIs
  <2>3. Stack(h)[f] = 0
    BY <1>3, <1>4, StackIs, NoCardsIs
  <2>4. Total(h, f) \in Nat /\ Total(g, f) \in Nat /\ g.hand[u][f] \in Nat
    BY <1>1, <1>3, TotalIs
  <2>5. h.hand[u][f] = g.hand[u][f] + Stack(g)[f]
    BY <1>4 DEF Plus
  <2>6. QED
    BY <2>1, <2>2, <2>3, <2>4, <2>5
<1>6. Counted(h)
  BY <1>2, <1>4, <1>5 DEF Counted
<1>7. QED
  BY <1>2, <1>4, <1>5, <1>6

\* cmd_check: the loser takes the stack and discards at once.
LEMMA CheckIs ==
  ASSUME Inv, CardInv, NEW u \in User, Check(u)
  PROVE  \E g : /\ Playable(g) /\ Counted(g)
                /\ game' = ProcessGameUpdate(g, NoGame)
                /\ KeepsFaces(game, g)
                /\ Stack(g) = NoCards
                /\ \A q \in User : Quartet(g.hand[q]) => Quartet(game.hand[q])
<1> DEFINE turned == IF Lied(game) THEN game ELSE TurnNext(game)
           loser  == PrevPlayer(turned)
           taken  == TakeStack(turned, loser)
           first  == UpdateCardsWin(taken, loser, FALSE)
           second == UpdateCardsWin(first, taken.current, FALSE)
<1>1. Playable(game) /\ game \in Game /\ u \in game.players /\ Counted(game)
  BY CurrentIsUser DEF Check, CardInv
<1>2. game' = ProcessGameUpdate(second, NoGame)
  BY DEF Check
<1>3. /\ Playable(turned) /\ Counted(turned) /\ turned.players = game.players
      /\ turned.hand = game.hand
      /\ \A f \in Face : Total(turned, f) = Total(game, f)
  <2>1. CASE turned = game
    BY <1>1, <2>1
  <2>2. CASE turned = TurnNext(game)
    <3>1. /\ Playable(turned) /\ Counted(turned) /\ turned.players = game.players
          /\ turned.hand = game.hand /\ Discards(game, turned)
      BY <1>1, <2>2, TurnNextCards
    <3>2. turned \in Game
      BY <3>1 DEF Playable
    <3>3. QED
      BY <1>1, <3>1, <3>2, SameTotal DEF Discards
  <2>3. QED
    BY <2>1, <2>2
<1> HIDE DEF turned
<1>4. loser \in turned.players /\ loser \in User
  <2>1. turned.players \subseteq User /\ turned.players # {}
    BY <1>1, <1>3 DEF Game
  <2>2. QED
    BY <2>1, NeighbourIsMember DEF PrevPlayer
<1> HIDE DEF loser
<1>5. /\ Playable(taken) /\ Counted(taken) /\ taken.players = game.players
      /\ taken.below = NoCards /\ taken.top = NoCards
      /\ \A q \in User \ {loser} : taken.hand[q] = game.hand[q]
      /\ \A f \in Face : Total(taken, f) = Total(game, f)
  BY <1>3, <1>4, TakeStackCards
<1> HIDE DEF taken
<1>6. Playable(first) /\ Counted(first) /\ Discards(taken, first) /\ ~Quartet(first.hand[loser])
  BY <1>3, <1>4, <1>5, UpdateCardsWinCards
<1> HIDE DEF first
<1>7. taken.current \in User
  BY <1>1, <1>5 DEF Playable, Game
<1>8. Playable(second) /\ Counted(second) /\ Discards(first, second)
  BY <1>6, <1>7, UpdateCardsWinCards
<1> HIDE DEF second
<1>9. taken \in Game /\ first \in Game /\ second \in Game
  BY <1>5, <1>6, <1>8 DEF Playable
<1>10. Discards(taken, second)
  BY <1>6, <1>8, <1>9, DiscardsTwice
<1>11. KeepsFaces(game, second)
  BY <1>5, <1>10 DEF Discards, KeepsFaces
<1>12. Stack(second) = NoCards
  BY <1>5, <1>9, <1>10, StackIs DEF Discards
<1>13. ASSUME NEW q \in User, Quartet(second.hand[q]) PROVE Quartet(game.hand[q])
  <2>1. Quartet(first.hand[q])
    BY <1>8, <1>9, <1>13, DiscardsNoQuartet DEF Discards
  <2>2. q # loser
    BY <1>6, <2>1
  <2>3. Quartet(taken.hand[q])
    BY <1>9, <1>10, <1>13, DiscardsNoQuartet DEF Discards
  <2>4. QED
    BY <1>5, <2>2, <2>3
<1>14. QED
  BY <1>2, <1>8, <1>11, <1>12, <1>13

LEMMA StepCards == Inv /\ CardInv /\ [Next]_vars => CardInv'
<1> SUFFICES ASSUME Inv, CardInv, [Next]_vars PROVE CardInv'
  OBVIOUS
<1>1. ASSUME NEW g, Playable(g), Counted(g), Claimed(g), game' = ProcessGameUpdate(g, NoGame)
      PROVE  CardInv'
  <2>1. CASE game' = g
    BY <1>1, <2>1 DEF CardInv, Playable, Undealt
  <2>2. CASE game' = NoGame
    BY <2>2, NoGameIs DEF CardInv
  <2>3. QED
    BY <1>1, <2>1, <2>2, UpdateIs
<1>2. ASSUME NEW u \in User, Join(u) PROVE CardInv'
  BY <1>2, JoinCards
<1>3. ASSUME NEW u \in User, Leave(u) PROVE CardInv'
  BY <1>3, LeaveIs, NoGameIs DEF CardInv
<1>4. ASSUME NEW u \in User, Start(u) \/ StartBroken(u) PROVE CardInv'
  BY <1>4, StartCards
<1>5. ASSUME NEW u \in User, Add(u) PROVE CardInv'
  <2>1. PICK g : /\ Playable(g) /\ Counted(g) /\ Claimed(g)
                 /\ game' = ProcessGameUpdate(g, NoGame)
    BY <1>5, AddIs
  <2>2. QED
    BY <1>1, <2>1
<1>6. ASSUME NEW u \in User, AddRefused(u) PROVE CardInv'
  <2>1. game \in Game /\ game' \in Game /\ game.has_started /\ Stack(game) = NoCards
    BY <1>6, AddRefusedOK, CurrentIsUser DEF AddRefused, Inv, TypeOK
  <2>2. /\ game'.hand = game.hand /\ game'.below = game.below /\ game'.top = game.top
        /\ game'.has_started = game.has_started /\ game'.players = game.players
    BY <1>6, <2>1 DEF AddRefused, Game
  <2>3. \A f \in Face : Total(game', f) = Total(game, f)
    BY <2>1, <2>2, SameTotal
  <2>4. Stack(game') = NoCards
    BY <2>1, <2>2 DEF Stack
  <2>5. QED
    BY <2>1, <2>2, <2>3, <2>4 DEF CardInv, Counted, Claimed, Undealt
<1>7. ASSUME NEW u \in User, Check(u) PROVE CardInv'
  <2>1. PICK g : /\ Playable(g) /\ Counted(g) /\ Stack(g) = NoCards
                 /\ game' = ProcessGameUpdate(g, NoGame)
    BY <1>7, CheckIs
  <2>2. QED
    BY <1>1, <2>1 DEF Claimed
<1>8. CASE Forget
  BY <1>8, NoGameIs DEF Forget, CardInv
<1>9. CASE UNCHANGED vars
  BY <1>9 DEF vars, CardInv
<1>10. QED
  BY <1>2, <1>3, <1>4, <1>5, <1>6, <1>7, <1>8, <1>9 DEF Next

LEMMA CardInvariance == Spec => [](Inv /\ CardInv)
<1>1. Init => Inv /\ CardInv
  BY NoGameOK, NoGameIs DEF Init, Inv, TypeOK, CurrentIsPlayer, CardInv
<1>2. QED
  BY <1>1, StepOK, StepCards, PTL DEF Spec

\* While there is a stack the game runs, there are last cards to look at, and
\* there is a face to compare them with: cmd_check may read all three.
THEOREM StackClaimed == Spec => []StackIsClaimed
<1>1. Inv /\ CardInv => StackIsClaimed
  BY StackIs DEF Inv, TypeOK, CardInv, Claimed, Undealt, StackIsClaimed
<1>2. QED
  BY <1>1, CardInvariance, PTL

\* Between the deal and the end of the game no card appears, and a face loses
\* cards only all four at once or with a player who leaves.
THEOREM CardsStay == Spec => CardsConserved
<1> DEFINE Stays ==
      game.has_started /\ game'.has_started =>
       \/ \A f \in Face : \/ Total(game', f) = Total(game, f)
                          \/ Total(game', f) = 0 /\ Total(game, f) = 4
       \/ \E u \in game.players \ game'.players :
            \A f \in Face : Total(game', f) = Total(game, f) - game.hand[u][f]
<1>1. ASSUME Inv, CardInv, [Next]_vars PROVE Stays
  <2> SUFFICES ASSUME game.has_started, game'.has_started PROVE Stays
    OBVIOUS
  <2>0. game' # NoGame /\ game \in Game
    BY <1>1, NoGameIs DEF Inv, TypeOK
  <2>1. ASSUME NEW g, game' = ProcessGameUpdate(g, NoGame), KeepsFaces(game, g)
        PROVE  Stays
    BY <2>0, <2>1, UpdateIs DEF KeepsFaces
  <2>2. ASSUME NEW u \in User, Leave(u) PROVE Stays
    <3>1. game' = Remove(game, u) /\ game' \in Game /\ Counted(game)
      BY <1>1, <2>0, <2>2, LeaveIs DEF CardInv
    <3>2. game'.players = game.players \ {u}
      BY <2>0, <3>1, RemoveIs
    <3>3. \A f \in Face : Total(game', f) = Total(game, f) - game.hand[u][f]
      BY <2>0, <3>1, RemoveCards
    <3>4. CASE u \in game.players
      BY <3>2, <3>3, <3>4
    <3>5. CASE u \notin game.players
      <4>1. game.hand[u] = NoCards
        BY <3>1, <3>5 DEF Counted
      <4>2. \A f \in Face : Total(game, f) \in Nat
        BY <2>0, TotalIs
      <4>3. \A f \in Face : Total(game', f) = Total(game, f)
        BY <3>3, <4>1, <4>2, NoCardsIs
      <4>4. QED
        BY <4>3
    <3>6. QED
      BY <3>4, <3>5
  <2>3. ASSUME NEW u \in User, Add(u) PROVE Stays
    <3>1. PICK g : game' = ProcessGameUpdate(g, NoGame) /\ KeepsFaces(game, g)
      BY <1>1, <2>3, AddIs
    <3>2. QED
      BY <2>1, <3>1
  <2>4. ASSUME NEW u \in User, Check(u) PROVE Stays
    <3>1. PICK g : game' = ProcessGameUpdate(g, NoGame) /\ KeepsFaces(game, g)
      BY <1>1, <2>4, CheckIs
    <3>2. QED
      BY <2>1, <3>1
  <2>5. ASSUME NEW u \in User, AddRefused(u) PROVE Stays
    <3>1. game' \in Game
      BY <1>1, <2>5, AddRefusedOK DEF Inv, TypeOK
    <3>2. /\ game'.hand = game.hand /\ game'.below = game.below
          /\ game'.top = game.top
      BY <2>0, <2>5 DEF AddRefused, Game
    <3>3. QED
      BY <2>0, <3>1, <3>2, SameTotal
  <2>6. ASSUME NEW u \in User, Join(u) \/ Start(u) \/ StartBroken(u) PROVE Stays
    BY <2>6 DEF Join, Start, StartBroken, MayAdd, MayStart
  <2>7. CASE Forget
    BY <2>0, <2>7 DEF Forget
  <2>8. CASE UNCHANGED vars
    BY <2>8 DEF vars
  <2>9. QED
    BY <1>1, <2>2, <2>3, <2>4, <2>5, <2>6, <2>7, <2>8 DEF Next
<1>2. QED
  BY <1>1, CardInvariance, PTL DEF Spec, CardsConserved

\* Who gets the fourth card of a face discards all of them in the same step.
THEOREM QuartetsGo == Spec => QuartetsAreDiscarded
<1> DEFINE Goes == \A u \in User :
                     Quartet(game'.hand[u]) /\ game.has_started => Quartet(game.hand[u])
<1>1. ASSUME Inv, CardInv, [Next]_vars PROVE Goes
  <2> SUFFICES ASSUME game.has_started PROVE Goes
    OBVIOUS
  <2>0. game \in Game
    BY <1>1 DEF Inv, TypeOK
  <2>1. ~Quartet(NoCards)
    BY NoCardsIs DEF Quartet
  <2>2. CASE game' = NoGame
    BY <2>1, <2>2, NoGameIs
  <2>3. ASSUME NEW u \in User, Leave(u), game' # NoGame PROVE Goes
    <3>1. game' = Remove(game, u)
      BY <1>1, <2>3, LeaveIs
    <3>2. \A q \in User : game'.hand[q] = IF q = u THEN NoCards ELSE game.hand[q]
      BY <2>0, <3>1, RemoveIs
    <3>3. QED
      BY <2>1, <3>2
  <2>4. ASSUME NEW u \in User, Add(u), game' # NoGame PROVE Goes
    <3>1. PICK g : /\ Playable(g) /\ game' = ProcessGameUpdate(g, NoGame)
                   /\ \A q \in User : \A x \in Face : g.hand[q][x] =< game.hand[q][x]
      BY <1>1, <2>4, AddIs
    <3>2. game' = g /\ g \in Game
      BY <2>4, <3>1, UpdateIs DEF Playable
    <3>3. QED
      BY <2>0, <3>1, <3>2, DiscardsNoQuartet
  <2>5. ASSUME NEW u \in User, Check(u), game' # NoGame PROVE Goes
    <3>1. PICK g : /\ game' = ProcessGameUpdate(g, NoGame)
                   /\ \A q \in User : Quartet(g.hand[q]) => Quartet(game.hand[q])
      BY <1>1, <2>5, CheckIs
    <3>2. game' = g
      BY <2>5, <3>1, UpdateIs
    <3>3. QED
      BY <3>1, <3>2
  <2>6. ASSUME NEW u \in User, AddRefused(u) PROVE Goes
    BY <2>0, <2>6 DEF AddRefused, Game
  <2>7. ASSUME NEW u \in User, Join(u) \/ Start(u) \/ StartBroken(u) PROVE Goes
    BY <2>7 DEF Join, Start, StartBroken, MayAdd, MayStart
  <2>8. CASE Forget
    BY <2>2, <2>8 DEF Forget
  <2>9. CASE UNCHANGED vars
    BY <2>9 DEF vars
  <2>10. QED
    BY <1>1, <2>2, <2>3, <2>4, <2>5, <2>6, <2>7, <2>8, <2>9 DEF Next
<1>2. QED
  BY <1>1, CardInvariance, PTL DEF Spec, QuartetsAreDiscarded

\* The number of cards in a bag.
LEMMA SizeIs ==
  ASSUME NEW b \in Hand
  PROVE  Size(b) \in Nat /\ (b = NoCards => Size(b) = 0)
<1>1. DOMAIN b = Face /\ IsFiniteSet(Face) /\ \A f \in Face : b[f] \in Nat
  BY FaceAssumption DEF Hand
<1>2. Size(b) = SumFunctionOnSet(b, Face)
  BY <1>1 DEF Size, SumFunction
<1>3. SumFunctionOnSet(b, Face) \in Nat
  BY <1>1, SumStep
<1>4. SumFunctionOnSet(b, Face) = 0 <=> \A f \in Face : b[f] = 0
  BY <1>1, SumZero
<1>5. QED
  BY <1>2, <1>3, <1>4, NoCardsIs

\* Who played the last card and was not checked is out as soon as the next
\* player adds to the stack.
THEOREM UncheckedLastCard == Spec => UncheckedLastCardWins
<1> DEFINE Wins == /\ game.has_started /\ game'.has_started
                   /\ Size(Stack(game')) > Size(Stack(game))
                   /\ game.hand[PrevPlayer(game)] = NoCards
                   => PrevPlayer(game) \notin game'.players
<1>1. ASSUME Inv, CardInv, [Next]_vars PROVE Wins
  <2> SUFFICES ASSUME game.has_started, game'.has_started,
                      Size(Stack(game')) > Size(Stack(game)),
                      game.hand[PrevPlayer(game)] = NoCards
               PROVE  PrevPlayer(game) \notin game'.players
    OBVIOUS
  <2>0. game \in Game /\ game' # NoGame
    BY <1>1, NoGameIs DEF Inv, TypeOK
  <2>1. Size(Stack(game)) \in Nat
    BY <2>0, StackType, SizeIs
  <2>2. Stack(game') # Stack(game)
    <3> DEFINE n == Size(Stack(game))
    <3>1. n \in Nat
      BY <2>1
    <3>2. Size(Stack(game')) > n
      OBVIOUS
    <3> HIDE DEF n
    <3>3. Size(Stack(game')) # n
      BY <3>1, <3>2
    <3>4. QED
      BY <3>3 DEF n
  <2>3. Stack(game') # NoCards
    <3>1. Size(NoCards) = 0
      BY NoCardsIs, SizeIs
    <3> DEFINE n == Size(Stack(game))
    <3>2. n \in Nat /\ Size(Stack(game')) > n
      BY <2>1
    <3> HIDE DEF n
    <3>3. Size(Stack(game')) # 0
      BY <3>2
    <3>4. QED
      BY <3>1, <3>3
  <2>4. ASSUME NEW u \in User, Add(u) PROVE PrevPlayer(game) \notin game'.players
    <3>1. PICK g : /\ game' = ProcessGameUpdate(g, NoGame)
                   /\ game.hand[PrevPlayer(game)] = NoCards =>
                        PrevPlayer(game) \notin g.players
      BY <1>1, <2>4, AddIs
    <3>2. QED
      BY <2>0, <3>1, UpdateIs
  <2>5. ASSUME NEW u \in User, Leave(u) PROVE FALSE
    <3>1. game' = Remove(game, u)
      BY <1>1, <2>0, <2>5, LeaveIs
    <3>2. game'.below = game.below /\ game'.top = game.top
      BY <2>0, <3>1, RemoveIs
    <3>3. QED
      BY <2>2, <3>2 DEF Stack
  <2>6. ASSUME NEW u \in User, Check(u) PROVE FALSE
    <3>1. PICK g : game' = ProcessGameUpdate(g, NoGame) /\ Stack(g) = NoCards
      BY <1>1, <2>6, CheckIs
    <3>2. QED
      BY <2>0, <2>3, <3>1, UpdateIs
  <2>7. ASSUME NEW u \in User, AddRefused(u) PROVE FALSE
    <3>1. game'.below = game.below /\ game'.top = game.top
      BY <2>0, <2>7 DEF AddRefused, Game
    <3>2. QED
      BY <2>2, <3>1 DEF Stack
  <2>8. ASSUME NEW u \in User, Join(u) \/ Start(u) \/ StartBroken(u) PROVE FALSE
    BY <2>8 DEF Join, Start, StartBroken, MayAdd, MayStart
  <2>9. ~Forget
    BY <2>0 DEF Forget
  <2>10. ~UNCHANGED vars
    BY <2>2 DEF vars
  <2>11. QED
    BY <1>1, <2>4, <2>5, <2>6, <2>7, <2>8, <2>9, <2>10 DEF Next
<1>2. QED
  BY <1>1, CardInvariance, PTL DEF Spec, UncheckedLastCardWins
=============================================================================
