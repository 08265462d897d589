------------------------------ MODULE UnoProofs ------------------------------
(***************************************************************************)
(* UNO keeps its types, its turn, its penalty and its count of wins and    *)
(* losses, for any users, colours, faces and modes, and implements the     *)
(* turn-based game.                                                        *)
(***************************************************************************)
EXTENDS Uno, GameFProofs

\* A game being played, between the handlers and in the middle of one.
Running(g) ==
  /\ g \in Game
  /\ g.has_started
  /\ g.current \in g.players
  /\ Cardinality(g.players) >= 2

\* Between the handlers nobody joins a running game, so that its players are
\* at most those of the deal, and a lobby has no penalty to draw.
Rounds ==
  /\ CurrentOK(game)
  /\ game.has_started =>
       /\ Cardinality(game.players) >= 2
       /\ game.initial_players >= Cardinality(game.players)
  /\ ~game.has_started => game.draw_count = 0

\* A win is counted of somebody who is gone, and as long as nobody is gone none
\* is; a loss ends the game.
Counted ==
  game.has_started =>
    /\ losses = Zero
    /\ \A p \in game.players : wins[p] = 0
    /\ game.initial_players = Cardinality(game.players) => wins = Zero

Inv == TypeOK /\ Rounds /\ Counted /\ EmptyHandHasTurn /\ PenaltyShows /\ OneWinOneLoss

-----------------------------------------------------------------------------
(* What the helpers of the handlers make of a running game.                *)

LEMMA NoGameType == NoGame \in Game /\ CurrentOK(NoGame)
BY UserAssumption, UnoAssumption DEF NoGame, Game, CurrentOK

LEMMA TurnNextIs ==
  ASSUME NEW g, Running(g)
  PROVE  LET next == Neighbour(g.players, g.current, g.dir_forwards)
         IN  /\ TurnNext(g) = [g EXCEPT !.current = next]
             /\ next \in g.players \ {g.current}
<1>1. g.players \subseteq User /\ g.current \in g.players
  BY DEF Running, Game
<1>2. g.players # {g.current}
  <2>1. Cardinality({g.current}) = 1
    BY FS_Singleton
  <2>2. Cardinality(g.players) >= 2
    BY DEF Running
  <2>3. QED
    BY <2>1, <2>2
<1>3. QED
  BY <1>1, <1>2, NeighbourIsOther DEF TurnNext

\* A turn that is passed on leaves a running game.
LEMMA TurnNextRuns ==
  ASSUME NEW g, Running(g)
  PROVE  Running(TurnNext(g))
<1> DEFINE next == Neighbour(g.players, g.current, g.dir_forwards)
<1>1. TurnNext(g) = [g EXCEPT !.current = next] /\ next \in g.players
  BY TurnNextIs
<1> HIDE DEF next
<1>2. QED
  BY <1>1 DEF Running, Game

\* Who is left when u is removed from a game of two or more, and whose turn it
\* is: that of u's neighbour if it was u's.
LEMMA RemoveIs ==
  ASSUME NEW g, Running(g), NEW u \in g.players, NEW r, r = Remove(g, u)
  PROVE  /\ r \in Game /\ r.has_started
         /\ r.players = g.players \ {u}
         /\ Cardinality(r.players) = Cardinality(g.players) - 1
         /\ r.current \in r.players
         /\ r.current = IF u = g.current
                        THEN Neighbour(g.players, u, g.dir_forwards) ELSE g.current
         /\ \A q \in User : r.hand[q] = IF q = u THEN 0 ELSE g.hand[q]
         /\ r.top_card = g.top_card /\ r.draw_count = g.draw_count
         /\ r.dir_forwards = g.dir_forwards
         /\ r.modes = g.modes /\ r.initial_players = g.initial_players
<1> DEFINE next == IF u = g.current
                   THEN Neighbour(g.players, u, g.dir_forwards) ELSE g.current
           hand == [g.hand EXCEPT ![u] = 0]
<1>1. g \in Game /\ g.players \subseteq User /\ u \in User /\ g.has_started
  BY DEF Running, Game
<1>2. next \in g.players \ {u}
  BY TurnNextIs DEF Running
<1>3. (IF u = g.current THEN TurnNext(g) ELSE g) = [g EXCEPT !.current = next]
  BY <1>1, TurnNextIs DEF Game
<1>4. hand \in [User -> 0..MAX_HAND] /\ \A q \in User : hand[q] = IF q = u THEN 0 ELSE g.hand[q]
  BY <1>1, UnoAssumption DEF Game
<1> HIDE DEF next
<1>5. RemovePlayer(g, u) = [g EXCEPT !.players = @ \ {u}, !.current = next]
  BY <1>1, <1>3 DEF RemovePlayer, Game
<1>6. r = [g EXCEPT !.players = @ \ {u}, !.current = next, !.hand = hand]
  BY <1>1, <1>5 DEF Remove, Game
<1> HIDE DEF hand
<1>7. r \in Game
  BY <1>1, <1>2, <1>4, <1>6 DEF Game
<1>8. Cardinality(g.players \ {u}) = Cardinality(g.players) - 1
  BY <1>1, PlayersAreFinite, FS_RemoveElement
<1>9. r.players = g.players \ {u} /\ r.current = next /\ r.hand = hand
  BY <1>1, <1>6 DEF Game
<1>10. /\ r.has_started /\ r.top_card = g.top_card /\ r.draw_count = g.draw_count
       /\ r.dir_forwards = g.dir_forwards
       /\ r.modes = g.modes /\ r.initial_players = g.initial_players
  BY <1>1, <1>6 DEF Game
<1>11. QED
  BY <1>2, <1>4, <1>7, <1>8, <1>9, <1>10 DEF next

\* The game after a card is put down and the turn has passed on.
Turned(g, u, card) == TurnAfter(Put(g, u, card), card.face)

\* Whose turn it is then: the neighbour's, or the one after.
NextTurn(g, u, card) ==
  LET p    == Put(g, u, card)
      next == Neighbour(g.players, u, p.dir_forwards)
  IN  IF Skips(p, card.face) THEN Neighbour(g.players, next, p.dir_forwards) ELSE next

LEMMA PutIs ==
  ASSUME NEW g, Running(g), NEW u \in User, g.hand[u] > 0, NEW card \in TopCard,
         NEW p, p = Put(g, u, card), p.draw_count =< MAX_DRAW
  PROVE  /\ Running(p)
         /\ p.players = g.players /\ p.current = g.current
         /\ p.top_card = card
         /\ \A q \in User : p.hand[q] = IF q = u THEN g.hand[q] - 1 ELSE g.hand[q]
         /\ p.draw_count = g.draw_count + Penalty(card.face)
         /\ p.modes = g.modes /\ p.initial_players = g.initial_players
<1> DEFINE hand == [g.hand EXCEPT ![u] = g.hand[u] - 1]
           draw == g.draw_count + Penalty(card.face)
           dir  == IF card.face = "R" THEN ~g.dir_forwards ELSE g.dir_forwards
<1>1. g \in Game
  BY DEF Running
<1>2. hand \in [User -> 0..MAX_HAND]
  BY <1>1, UnoAssumption DEF Game
<1>3. draw \in Nat
  BY <1>1, UnoAssumption DEF Game, Penalty
<1>4. dir \in BOOLEAN
  BY <1>1 DEF Game
<1>5. p = [g EXCEPT !.top_card = card, !.hand = hand, !.draw_count = draw,
                    !.dir_forwards = dir]
  BY <1>1 DEF Put, Game
<1> HIDE DEF hand, draw, dir
<1>6. p.draw_count = draw /\ draw \in 0..MAX_DRAW
  BY <1>1, <1>3, <1>5, UnoAssumption DEF Game
<1>7. p \in Game
  BY <1>1, <1>2, <1>4, <1>5, <1>6 DEF Game
<1>8. QED
  BY <1>1, <1>5, <1>6, <1>7 DEF Running, Game, hand, draw

\* The turn comes back to u at once only if there is one other player.
LEMMA TurnedIs ==
  ASSUME NEW g, Running(g), NEW u \in User, g.current = u, g.hand[u] > 0,
         NEW card \in TopCard, Put(g, u, card).draw_count =< MAX_DRAW,
         NEW t, t = Turned(g, u, card)
  PROVE  /\ Running(t)
         /\ t.players = g.players /\ t.current = NextTurn(g, u, card)
         /\ t.current = u => /\ Skips(Put(g, u, card), card.face)
                             /\ Cardinality(g.players) = 2
         /\ \A q \in User : t.hand[q] = IF q = u THEN g.hand[q] - 1 ELSE g.hand[q]
         /\ t.top_card = card /\ t.draw_count = g.draw_count + Penalty(card.face)
         /\ t.dir_forwards = Put(g, u, card).dir_forwards
         /\ t.modes = g.modes /\ t.initial_players = g.initial_players
<1> DEFINE p    == Put(g, u, card)
           f    == p.dir_forwards
           next == Neighbour(g.players, u, f)
           to   == NextTurn(g, u, card)
<1> HIDE DEF f, next, p, to
<1>1. Running(p) /\ p.players = g.players /\ p.current = u
  BY PutIs DEF p
<1>2. p \in Game /\ g.players \subseteq User /\ u \in g.players
      /\ Cardinality(g.players) \in Nat /\ Cardinality(g.players) >= 2
  BY <1>1, PlayersAreFinite DEF Running, Game
<1>3. TurnNext(p) = [p EXCEPT !.current = next] /\ next \in g.players \ {u}
  BY <1>1, TurnNextIs DEF f, next
<1>4. t = [p EXCEPT !.current = to] /\ to \in g.players
      /\ (to = u => Skips(p, card.face) /\ Cardinality(g.players) = 2)
  <2>1. CASE ~Skips(p, card.face)
    <3>1. t = TurnNext(p) /\ to = next
      BY <2>1 DEF Turned, TurnAfter, NextTurn, p, to, next, f
    <3>2. QED
      BY <1>3, <3>1
  <2>2. CASE Skips(p, card.face)
    <3> DEFINE q == TurnNext(p)
    <3>1. t = TurnNext(q) /\ to = Neighbour(g.players, next, f)
      BY <2>2 DEF Turned, TurnAfter, NextTurn, p, to, next, f
    <3>2. Running(q)
      BY <1>1, TurnNextRuns
    <3>3. q.players = g.players /\ q.current = next /\ q.dir_forwards = f /\ q \in Game
      BY <1>1, <1>2, <1>3, <3>2 DEF Game, Running, f
    <3>4. t = [q EXCEPT !.current = to] /\ to \in g.players
      BY <3>1, <3>2, <3>3, TurnNextIs
    <3>5. t = [p EXCEPT !.current = to]
      BY <1>2, <1>3, <3>3, <3>4 DEF Game
    <3>6. ASSUME to = u PROVE Cardinality(g.players) = 2
      <4>1. Cardinality(g.players) =< 2
        BY <1>2, <3>1, <3>6, NeighbourTwice DEF next
      <4>2. QED
        BY <1>2, <4>1
    <3>7. QED
      BY <2>2, <3>4, <3>5, <3>6
  <2>3. QED
    BY <2>1, <2>2
<1>5. /\ t.players = p.players /\ t.current = to /\ t.hand = p.hand
      /\ t.top_card = p.top_card /\ t.draw_count = p.draw_count
      /\ t.dir_forwards = p.dir_forwards
      /\ t.modes = p.modes /\ t.initial_players = p.initial_players
      /\ t.has_started = p.has_started
  BY <1>2, <1>4 DEF Game
<1>6. t \in Game
  BY <1>2, <1>4 DEF Game
<1>7. Running(t)
  BY <1>1, <1>2, <1>4, <1>5, <1>6 DEF Running
<1>8. /\ \A q \in User : p.hand[q] = IF q = u THEN g.hand[q] - 1 ELSE g.hand[q]
      /\ p.top_card = card /\ p.draw_count = g.draw_count + Penalty(card.face)
      /\ p.modes = g.modes /\ p.initial_players = g.initial_players
  BY PutIs DEF p
<1>9. QED
  BY <1>1, <1>4, <1>5, <1>7, <1>8 DEF p, to

\* DrawCards is what u draws: at least one card, and all of the penalty.
LEMMA DrawIs ==
  ASSUME NEW g, Running(g), NEW u \in User, DrawCards(g, u).hand[u] =< MAX_HAND,
         NEW h, h = DrawCards(g, u)
  PROVE  /\ Running(h)
         /\ h.players = g.players /\ h.current = g.current
         /\ \A q \in User \ {u} : h.hand[q] = g.hand[q]
         /\ h.hand[u] > 0 /\ (g.draw_count > 0 => h.hand[u] = g.hand[u] + g.draw_count)
         /\ h.draw_count = 0 /\ h.top_card = g.top_card
         /\ h.dir_forwards = g.dir_forwards
         /\ h.modes = g.modes /\ h.initial_players = g.initial_players
<1> DEFINE n    == g.hand[u] + (IF g.draw_count > 1 THEN g.draw_count ELSE 1)
           hand == [g.hand EXCEPT ![u] = n]
<1>1. g \in Game
  BY DEF Running
<1>2. h = [g EXCEPT !.hand = hand, !.draw_count = 0]
  BY <1>1 DEF DrawCards, Game
<1>3. h.hand = hand
  BY <1>1, <1>2 DEF Game
<1>4. hand[u] = n /\ \A q \in User \ {u} : hand[q] = g.hand[q]
  BY <1>1 DEF Game
<1>5. n \in 0..MAX_HAND /\ n > 0 /\ (g.draw_count > 0 => n = g.hand[u] + g.draw_count)
  <2>1. g.hand[u] \in Nat /\ g.draw_count \in Nat
    BY <1>1, UnoAssumption DEF Game
  <2>2. n =< MAX_HAND
    BY <1>3, <1>4
  <2>3. QED
    BY <2>1, <2>2, UnoAssumption
<1>6. hand \in [User -> 0..MAX_HAND]
  BY <1>1, <1>5 DEF Game
<1> HIDE DEF n, hand
<1>7. h \in Game
  <2>1. 0 \in 0..MAX_DRAW
    BY UnoAssumption
  <2>2. QED
    BY <1>1, <1>2, <1>6, <2>1 DEF Game
<1>8. /\ h.players = g.players /\ h.current = g.current /\ h.has_started = g.has_started
      /\ h.draw_count = 0 /\ h.top_card = g.top_card
      /\ h.dir_forwards = g.dir_forwards
      /\ h.modes = g.modes /\ h.initial_players = g.initial_players
  BY <1>1, <1>2 DEF Game
<1>9. Running(h)
  BY <1>7, <1>8 DEF Running
<1>10. QED
  BY <1>3, <1>4, <1>5, <1>8, <1>9 DEF n

\* processGameUpdate ends a game that one player is left of.
LEMMA UpdateIs ==
  ASSUME NEW g \in Game, g.has_started
  PROVE  ProcessGameUpdate(g, NoGame) = IF Cardinality(g.players) >= 2 THEN g ELSE NoGame
BY UnoAssumption DEF ProcessGameUpdate

\* Nobody plays out of turn.
LEMMA TurnIsRunning ==
  ASSUME Inv, NEW u \in User, HasTurn(game, u)
  PROVE  Running(game) /\ game.current = u /\ u \in game.players
BY DEF Inv, TypeOK, Rounds, HasTurn, Running, Game

\* The end of cmd_play never draws: either the turn has passed on, or the card
\* is an "R" or an "S", which have no penalty to draw.
LEMMA NeverAutoDrawn ==
  ASSUME NEW g, Running(g), NEW u \in User, g.current = u, g.hand[u] > 0,
         NEW card \in TopCard, Put(g, u, card).draw_count =< MAX_DRAW,
         NEW t, t = Turned(g, u, card)
  PROVE  LET after == ProcessGameUpdate(IF Done(t, u) THEN Remove(t, u) ELSE t, NoGame)
         IN  AutoDrawn(after, u, card.face) = after
<1> DEFINE left  == IF Done(t, u) THEN Remove(t, u) ELSE t
           after == ProcessGameUpdate(left, NoGame)
<1>1. /\ Running(t) /\ t.players = g.players /\ t.top_card = card
      /\ t.current = u => Skips(Put(g, u, card), card.face)
  BY TurnedIs
<1>2. /\ left \in Game /\ left.has_started /\ left.top_card = card
      /\ HasTurn(left, u) => t.current = u
  <2>1. CASE Done(t, u)
    <3>1. u \in t.players
      BY <1>1 DEF Running
    <3>2. /\ Remove(t, u) \in Game /\ Remove(t, u).has_started
          /\ Remove(t, u).players = t.players \ {u}
          /\ Remove(t, u).top_card = t.top_card
      BY <1>1, <3>1, RemoveIs
    <3>3. QED
      BY <1>1, <2>1, <3>2 DEF HasTurn
  <2>2. CASE ~Done(t, u)
    BY <1>1, <2>2 DEF Running, HasTurn
  <2>3. QED
    BY <2>1, <2>2
<1> HIDE DEF left
<1>3. after \in {left, NoGame}
  BY DEF ProcessGameUpdate
<1>4. SUFFICES ASSUME AutoDraws(after, card.face), HasTurn(after, u) PROVE FALSE
  BY DEF AutoDrawn, left
<1>5. after = left
  BY <1>3, <1>4 DEF HasTurn, NoGame
<1>6. Skips(Put(g, u, card), card.face)
  BY <1>1, <1>2, <1>4, <1>5
<1>7. card.face \in {"R", "S"}
  BY <1>6 DEF Skips
<1>8. QED
  BY <1>2, <1>4, <1>5, <1>7 DEF AutoDraws

\* What cmd_play does: the card is put down, the turn passes on, and a player
\* without cards is removed.
LEMMA PlayIs ==
  ASSUME Inv, NEW u \in User, Play(u)
  PROVE  \E card, t :
           /\ card \in TopCard
           /\ Running(game) /\ game.current = u /\ u \in game.players
           /\ MayPlay(game, u, card) /\ Put(game, u, card).draw_count =< MAX_DRAW
           /\ t = Turned(game, u, card)
           /\ IF Done(t, u)
              THEN game' = ProcessGameUpdate(Remove(t, u), NoGame) /\ Count(t, u)
              ELSE game' = t /\ UNCHANGED <<wins, losses>>
<1>1. Running(game) /\ game.current = u /\ u \in game.players
  BY TurnIsRunning DEF Play
<1>2. PICK color \in Color, face \in Face :
        LET card  == [suit |-> color, face |-> face]
            t     == Turned(game, u, card)
            after == ProcessGameUpdate(IF Done(t, u) THEN Remove(t, u) ELSE t, NoGame)
        IN  /\ MayPlay(game, u, card)
            /\ Put(game, u, card).draw_count =< MAX_DRAW
            /\ game' = AutoDrawn(after, u, face)
            /\ IF Done(t, u) THEN Count(t, u) ELSE UNCHANGED <<wins, losses>>
  BY DEF Play, Turned
<1> DEFINE card  == [suit |-> color, face |-> face]
           t     == Turned(game, u, card)
           after == ProcessGameUpdate(IF Done(t, u) THEN Remove(t, u) ELSE t, NoGame)
<1>3. card \in TopCard /\ card.face = face
  BY DEF TopCard
<1> HIDE DEF card
<1>4. /\ MayPlay(game, u, card) /\ Put(game, u, card).draw_count =< MAX_DRAW
      /\ game' = AutoDrawn(after, u, card.face)
      /\ IF Done(t, u) THEN Count(t, u) ELSE UNCHANGED <<wins, losses>>
  BY <1>2, <1>3 DEF card
<1>5. game.hand[u] > 0
  BY <1>4 DEF MayPlay
<1>6. game' = after
  BY <1>1, <1>3, <1>4, <1>5, NeverAutoDrawn
<1>7. ProcessGameUpdate(t, NoGame) = t
  <2>1. Running(t)
    BY <1>1, <1>3, <1>4, <1>5, TurnedIs
  <2>2. QED
    BY <2>1, UpdateIs DEF Running
<1> HIDE DEF t
<1>8. QED
  BY <1>1, <1>3, <1>4, <1>6, <1>7 DEF t

-----------------------------------------------------------------------------
(* The count of wins and losses.                                           *)

\* A player who is one of two leaves one other.
LEMMA OtherOfTwo ==
  ASSUME NEW S, S \subseteq User, NEW u \in S, Cardinality(S) = 2,
         NEW v \in S \ {u}, NEW w \in S \ {u}
  PROVE  v = w
<1>1. IsFiniteSet(S)
  BY PlayersAreFinite
<1>2. IsFiniteSet(S \ {u}) /\ Cardinality(S \ {u}) = 1
  BY <1>1, FS_RemoveElement
<1>3. \E x : S \ {u} = {x}
  BY <1>2, FS_Singleton
<1>4. QED
  BY <1>3

\* Who is removed from a game as it was dealt may win, and who is left of two
\* may lose; nobody else does.
LEMMA CountIs ==
  ASSUME TypeOK, Counted, OneWinOneLoss,
         NEW g \in Game, g.has_started = game.has_started, g.players = game.players,
         g.initial_players = game.initial_players,
         NEW u \in User, Count(g, u)
  PROVE  /\ wins' \in [User -> Nat] /\ losses' \in [User -> Nat]
         /\ OneWinOneLoss'
         /\ g.has_started /\ Cardinality(g.players) > 2 =>
              losses' = Zero /\ \A p \in g.players \ {u} : wins'[p] = 0
         /\ u \notin g.players \/ ~g.has_started => UNCHANGED <<wins, losses>>
<1> DEFINE W == WinsOf(g, u)
           L == LossesOf(g, u)
<1>1. /\ wins' = [p \in User |-> IF p \in W THEN wins[p] + 1 ELSE wins[p]]
      /\ losses' = [p \in User |-> IF p \in L THEN losses[p] + 1 ELSE losses[p]]
  BY DEF Count
<1>2. wins \in [User -> Nat] /\ losses \in [User -> Nat] /\ g.players \subseteq User
  BY DEF TypeOK, Game
<1>3. W # {} => /\ W = {u} /\ u \in g.players /\ g.has_started
                /\ wins = Zero /\ losses = Zero
  BY DEF WinsOf, Finishes, Counted
<1>4. L # {} => /\ L = g.players \ {u} /\ u \in g.players /\ g.has_started
                /\ Cardinality(g.players) = 2 /\ losses = Zero
                /\ \A p \in g.players : wins[p] = 0
  BY UnoAssumption DEF LossesOf, Finishes, Counted
<1>5. \A v, w \in L : v = w
  BY <1>2, <1>4, OtherOfTwo
<1> HIDE DEF W, L
<1>6. wins' \in [User -> Nat] /\ losses' \in [User -> Nat]
  BY <1>1, <1>2
<1>7. OneWinOneLoss'
  <2>1. ASSUME NEW v \in User, NEW w \in User, wins'[v] > 0, wins'[w] > 0
        PROVE  v = w /\ wins'[v] = 1
    <3>1. CASE W = {}
      BY <1>1, <1>2, <2>1, <3>1 DEF OneWinOneLoss
    <3>2. CASE W # {}
      BY <1>1, <1>3, <2>1, <3>2 DEF Zero
    <3>3. QED
      BY <3>1, <3>2
  <2>2. ASSUME NEW v \in User, NEW w \in User, losses'[v] > 0, losses'[w] > 0
        PROVE  v = w /\ losses'[v] = 1
    <3>1. CASE L = {}
      BY <1>1, <1>2, <2>2, <3>1 DEF OneWinOneLoss
    <3>2. CASE L # {}
      BY <1>1, <1>4, <1>5, <2>2, <3>2 DEF Zero
    <3>3. QED
      BY <3>1, <3>2
  <2>3. ASSUME NEW v \in User PROVE wins'[v] = 0 \/ losses'[v] = 0
    <3>1. CASE L # {} /\ v \in L
      BY <1>1, <1>3, <1>4, <2>3, <3>1
    <3>2. CASE v \notin L /\ v \in W
      BY <1>1, <1>3, <3>2 DEF Zero
    <3>3. CASE v \notin L /\ v \notin W
      BY <1>1, <3>3 DEF OneWinOneLoss
    <3>4. QED
      BY <3>1, <3>2, <3>3
  <2>4. QED
    BY <2>1, <2>2, <2>3 DEF OneWinOneLoss
<1>8. ASSUME g.has_started, Cardinality(g.players) > 2
      PROVE  losses' = Zero /\ \A p \in g.players \ {u} : wins'[p] = 0
  <2>1. L = {} /\ losses = Zero /\ \A p \in g.players : wins[p] = 0
    BY <1>4, <1>8 DEF Counted
  <2>2. losses' = Zero
    BY <1>1, <2>1 DEF Zero
  <2>3. QED
    BY <1>1, <1>2, <1>3, <2>1, <2>2
<1>9. ASSUME u \notin g.players \/ ~g.has_started
      PROVE  UNCHANGED <<wins, losses>>
  BY <1>1, <1>2, <1>3, <1>4, <1>9
<1>10. QED
  BY <1>6, <1>7, <1>8, <1>9

-----------------------------------------------------------------------------
(* One lemma per handler.                                                  *)

LEMMA OverOK ==
  ASSUME game' = NoGame, wins' \in [User -> Nat], losses' \in [User -> Nat], OneWinOneLoss'
  PROVE  Inv'
<1>1. game' \in Game /\ CurrentOK(game') /\ game'.has_started = FALSE /\ game'.draw_count = 0
  BY NoGameType DEF NoGame
<1>2. QED
  BY <1>1 DEF Inv, TypeOK, Rounds, Counted, EmptyHandHasTurn, PenaltyShows

LEMMA JoinOK ==
  ASSUME Inv, NEW u \in User, Join(u)
  PROVE  Inv'
<1>1. PICK modes \in ModeSet \cup {{}} : game' = [AddPlayer(game, u) EXCEPT !.modes = modes]
  BY DEF Join, Inv, TypeOK, Game
<1>2. game \in Game /\ ~game.has_started /\ game.draw_count = 0 /\ UNCHANGED <<wins, losses>>
  BY DEF Join, MayAdd, Inv, TypeOK, Rounds
<1>3. game' = [game EXCEPT !.players = @ \cup {u}, !.modes = modes]
  BY <1>1, <1>2 DEF AddPlayer, Game
<1>4. game' \in Game
  BY <1>2, <1>3 DEF Game
<1>5. /\ game'.players = game.players \cup {u} /\ game'.has_started = FALSE
      /\ game'.current = game.current /\ game'.draw_count = 0
  BY <1>2, <1>3 DEF Game
<1>6. CurrentOK(game')
  BY <1>2, <1>5 DEF Inv, Rounds, CurrentOK
<1>7. QED
  BY <1>2, <1>4, <1>5, <1>6
     DEF Inv, TypeOK, Rounds, Counted, EmptyHandHasTurn, PenaltyShows, OneWinOneLoss

LEMMA ForgetOK == Inv /\ Forget => Inv'
BY OverOK DEF Forget, Inv, TypeOK, OneWinOneLoss

LEMMA DealOK ==
  ASSUME Inv, NEW u \in User, Deal(u)
  PROVE  Inv'
<1>1. PICK first \in game.players, color \in Color, face \in Face :
        game' = [StartWith(game, first) EXCEPT
                  !.hand = [p \in User |-> IF p \in game.players THEN DEALT ELSE 0],
                  !.top_card = [suit |-> color, face |-> face],
                  !.initial_players = Cardinality(game.players)]
  BY DEF Deal
<1> DEFINE hand == [p \in User |-> IF p \in game.players THEN DEALT ELSE 0]
           card == [suit |-> color, face |-> face]
           n    == Cardinality(game.players)
<1>2. game \in Game /\ game.players \subseteq User /\ game.draw_count = 0 /\ n >= 2
  BY UnoAssumption DEF Inv, TypeOK, Rounds, Deal, MayStart, Game
<1>3. hand \in [User -> 0..MAX_HAND] /\ \A p \in game.players : hand[p] > 0
  BY <1>2, UnoAssumption
<1>4. n \in 0..MaxAddr
  <2>1. IsFiniteSet(1..MaxAddr) /\ Cardinality(1..MaxAddr) = MaxAddr
    BY UserAssumption, FS_Interval
  <2>2. game.players \in SUBSET (1..MaxAddr)
    BY <1>2, UserAssumption
  <2>3. n =< MaxAddr
    BY <2>1, <2>2, FS_Subset
  <2>4. QED
    BY <1>2, <2>3, PlayersAreFinite, UserAssumption
<1>5. card \in TopCard
  BY DEF TopCard
<1>6. game' = [game EXCEPT !.has_started = TRUE, !.current = first, !.hand = hand,
                           !.top_card = card, !.initial_players = n]
  BY <1>1, <1>2 DEF StartWith, Game
<1> HIDE DEF hand, card, n
<1>7. game' \in Game
  BY <1>2, <1>3, <1>4, <1>5, <1>6 DEF Game
<1>8. /\ game'.players = game.players /\ game'.has_started = TRUE
      /\ game'.current = first /\ game'.draw_count = 0
      /\ game'.hand = hand /\ game'.initial_players = n
  BY <1>2, <1>6 DEF Game
<1>9. wins' = Zero /\ losses' = Zero
  BY DEF Deal
<1>10. TypeOK'
  BY <1>7, <1>9 DEF TypeOK, Zero
<1>11. Rounds'
  BY <1>2, <1>4, <1>8 DEF Rounds, CurrentOK, n
<1>12. Counted'
  BY <1>2, <1>8, <1>9 DEF Counted, Zero
<1>13. EmptyHandHasTurn'
  BY <1>3, <1>8 DEF EmptyHandHasTurn
<1>14. PenaltyShows' /\ OneWinOneLoss'
  BY <1>8, <1>9 DEF PenaltyShows, OneWinOneLoss, Zero
<1>15. QED
  BY <1>10, <1>11, <1>12, <1>13, <1>14 DEF Inv

LEMMA LobbyLeaveOK ==
  ASSUME Inv, NEW u \in User, Leave(u), u \notin game.players \/ ~game.has_started
  PROVE  Inv'
<1> DEFINE r    == Remove(game, u)
           hand == [game.hand EXCEPT ![u] = 0]
<1>1. /\ game \in Game /\ CurrentOK(game) /\ game.players \subseteq User
      /\ u \notin game.players \/ u # game.current
      /\ ~game.has_started => game.draw_count = 0
  BY UserAssumption DEF Inv, TypeOK, Rounds, CurrentOK, NoUser, Game
<1>2. UNCHANGED <<wins, losses>> /\ OneWinOneLoss'
  BY <1>1, CountIs DEF Leave, Inv, TypeOK, Counted, OneWinOneLoss
<1>3. hand \in [User -> 0..MAX_HAND] /\ \A q \in User \ {u} : hand[q] = game.hand[q]
  BY <1>1, UnoAssumption DEF Game
<1>4. r = [game EXCEPT !.players = @ \ {u}, !.hand = hand]
  <2>1. RemovePlayer(game, u) = [game EXCEPT !.players = @ \ {u}]
    BY <1>1 DEF RemovePlayer, Game
  <2>2. QED
    BY <1>1, <2>1 DEF Remove, Game
<1>5. game' = ProcessGameUpdate(r, NoGame)
  BY DEF Leave
<1> HIDE DEF r, hand
<1>6. /\ r \in Game
      /\ r.players = game.players \ {u} /\ r.has_started = game.has_started
      /\ r.current = game.current /\ r.draw_count = game.draw_count
      /\ r.hand = hand /\ r.top_card = game.top_card /\ r.modes = game.modes
      /\ r.initial_players = game.initial_players
  <2>1. r \in Game
    BY <1>1, <1>3, <1>4 DEF Game
  <2>2. QED
    BY <1>1, <1>4, <2>1 DEF Game
<1>7. CASE game' = NoGame
  BY <1>2, <1>7, OverOK DEF Inv, TypeOK
<1>8. CASE game' = r
  <2>1. CASE game.has_started
    <3>1. r.players = game.players
      BY <1>6, <2>1
    <3>2. TypeOK' /\ Rounds'
      BY <1>1, <1>2, <1>6, <1>8, <3>1 DEF Inv, TypeOK, Rounds, CurrentOK
    <3>3. Counted' /\ PenaltyShows'
      BY <1>1, <1>2, <1>6, <1>8, <3>1 DEF Inv, Counted, PenaltyShows
    <3>4. EmptyHandHasTurn'
      BY <1>1, <1>3, <1>6, <1>8, <2>1, <3>1 DEF Inv, EmptyHandHasTurn
    <3>5. QED
      BY <1>2, <3>2, <3>3, <3>4 DEF Inv
  <2>2. CASE ~game.has_started
    <3>1. TypeOK' /\ Rounds'
      BY <1>1, <1>2, <1>6, <1>8, <2>2 DEF Inv, TypeOK, Rounds, CurrentOK
    <3>2. Counted' /\ PenaltyShows' /\ EmptyHandHasTurn'
      BY <1>1, <1>6, <1>8, <2>2 DEF Counted, PenaltyShows, EmptyHandHasTurn
    <3>3. QED
      BY <1>2, <3>1, <3>2 DEF Inv
  <2>3. QED
    BY <2>1, <2>2
<1>9. QED
  BY <1>5, <1>7, <1>8 DEF ProcessGameUpdate

\* A game of more than two goes on without a player who leaves or has won, and a
\* game of two is over.
LEMMA LossOK ==
  ASSUME Inv, game.has_started, NEW g, Running(g), g.players = game.players,
         g.initial_players = game.initial_players,
         NEW u \in g.players, Count(g, u), game' = ProcessGameUpdate(Remove(g, u), NoGame),
         \A p \in g.players \ {u} : g.hand[p] = 0 => Cardinality(g.players) = 2,
         g.draw_count > 0 => \/ g.top_card.face \in {"D2", "WD4"}
                             \/ g.top_card.face = "R" /\ "WD4_REV" \in g.modes
  PROVE  Inv'
<1> DEFINE r == Remove(g, u)
<1>1. g \in Game /\ g.has_started = TRUE /\ u \in User /\ game.has_started = TRUE
  BY DEF Running, Game, Inv, TypeOK
<1>2. /\ wins' \in [User -> Nat] /\ losses' \in [User -> Nat] /\ OneWinOneLoss'
      /\ Cardinality(g.players) > 2 =>
           losses' = Zero /\ \A p \in g.players \ {u} : wins'[p] = 0
  BY <1>1, CountIs DEF Inv
<1>3. /\ r \in Game /\ r.has_started
      /\ r.players = g.players \ {u}
      /\ Cardinality(r.players) = Cardinality(g.players) - 1
      /\ r.current \in r.players
      /\ \A q \in User : r.hand[q] = IF q = u THEN 0 ELSE g.hand[q]
      /\ r.top_card = g.top_card /\ r.draw_count = g.draw_count
      /\ r.modes = g.modes /\ r.initial_players = g.initial_players
  BY RemoveIs
<1> HIDE DEF r
<1>4. game' = IF Cardinality(r.players) >= 2 THEN r ELSE NoGame
  BY <1>3, UpdateIs DEF r
<1>5. Cardinality(g.players) \in Nat /\ g.initial_players \in Nat
      /\ g.initial_players >= Cardinality(g.players) /\ g.players \subseteq User
  <2>1. g.players \subseteq User
    BY <1>1 DEF Game
  <2>2. Cardinality(g.players) \in Nat
    BY <2>1, PlayersAreFinite
  <2>3. g.initial_players \in Nat
    BY <1>1, UserAssumption DEF Game
  <2>4. QED
    BY <2>1, <2>2, <2>3 DEF Inv, Rounds
<1>6. CASE Cardinality(r.players) < 2
  BY <1>2, <1>3, <1>4, <1>5, <1>6, OverOK
<1>7. CASE Cardinality(r.players) >= 2
  <2>1. game' = r /\ Cardinality(g.players) > 2
    BY <1>3, <1>4, <1>5, <1>7
  <2>2. TypeOK'
    BY <1>2, <1>3, <2>1 DEF TypeOK
  <2>8. /\ r.players \subseteq User /\ r.players = g.players \ {u}
        /\ r.initial_players > Cardinality(r.players)
    BY <1>3, <1>5
  <2>3. Rounds'
    <3>1. r.initial_players >= Cardinality(r.players)
      BY <1>3, <1>5
    <3>2. QED
      BY <1>3, <1>7, <2>1, <2>8, <3>1 DEF Rounds, CurrentOK
  <2>4. Counted'
    <3>1. r.initial_players # Cardinality(r.players)
      BY <1>3, <1>5
    <3>2. losses' = Zero /\ \A p \in r.players : wins'[p] = 0
      BY <1>2, <2>1, <2>8
    <3>3. QED
      BY <2>1, <3>1, <3>2 DEF Counted, Zero
  <2>5. EmptyHandHasTurn'
    <3>1. \A p \in r.players : r.hand[p] # 0
      BY <1>3, <1>5, <2>1
    <3>2. QED
      BY <2>1, <3>1 DEF EmptyHandHasTurn
  <2>6. PenaltyShows'
    BY <1>3, <2>1 DEF PenaltyShows
  <2>7. QED
    BY <1>2, <2>2, <2>3, <2>4, <2>5, <2>6 DEF Inv
<1>8. QED
  BY <1>3, <1>5, <1>6, <1>7

LEMMA LeaveOK ==
  ASSUME Inv, NEW u \in User, Leave(u)
  PROVE  Inv'
<1>1. CASE u \notin game.players \/ ~game.has_started
  BY <1>1, LobbyLeaveOK
<1>2. CASE u \in game.players /\ game.has_started
  <2>1. Running(game)
    BY <1>2 DEF Inv, TypeOK, Rounds, CurrentOK, Running
  <2>2. /\ \A p \in game.players \ {u} : game.hand[p] = 0 => Cardinality(game.players) = 2
        /\ game.draw_count > 0 => \/ game.top_card.face \in {"D2", "WD4"}
                                  \/ game.top_card.face = "R" /\ "WD4_REV" \in game.modes
    BY <1>2 DEF Inv, EmptyHandHasTurn, PenaltyShows
  <2>3. QED
    BY <1>2, <2>1, <2>2, LossOK DEF Leave
<1>3. QED
  BY <1>1, <1>2

\* A game whose players have not changed goes on.
LEMMA GoesOnOK ==
  ASSUME Inv, Running(game), NEW g, Running(g), g.players = game.players,
         g.initial_players = game.initial_players,
         game' = g, UNCHANGED <<wins, losses>>,
         \A p \in g.players : g.hand[p] = 0 => p = g.current /\ Cardinality(g.players) = 2,
         g.draw_count > 0 => \/ g.top_card.face \in {"D2", "WD4"}
                             \/ g.top_card.face = "R" /\ "WD4_REV" \in g.modes
  PROVE  Inv'
<1>1. TypeOK' /\ OneWinOneLoss'
  BY DEF Inv, TypeOK, OneWinOneLoss, Running
<1>6. /\ game.has_started /\ g.has_started /\ g \in Game /\ g.players \subseteq User
      /\ g.current \in g.players /\ Cardinality(g.players) >= 2
      /\ g.initial_players >= Cardinality(g.players)
      /\ losses = Zero /\ \A p \in g.players : wins[p] = 0
      /\ g.initial_players = Cardinality(g.players) => wins = Zero
  BY DEF Inv, Rounds, Counted, Running, Game
<1>2. Rounds'
  BY <1>6 DEF Rounds, CurrentOK
<1>3. Counted'
  BY <1>6 DEF Counted
<1>4. EmptyHandHasTurn' /\ PenaltyShows'
  BY DEF EmptyHandHasTurn, PenaltyShows
<1>5. QED
  BY <1>1, <1>2, <1>3, <1>4 DEF Inv

\* A card that is put down keeps the penalty visible, and the player who put it
\* down had the turn, so that nobody else is without cards.
LEMMA PlayOK ==
  ASSUME Inv, NEW u \in User, Play(u)
  PROVE  Inv'
<1>1. PICK card, t :
         /\ card \in TopCard
         /\ Running(game) /\ game.current = u /\ u \in game.players
         /\ MayPlay(game, u, card) /\ Put(game, u, card).draw_count =< MAX_DRAW
         /\ t = Turned(game, u, card)
         /\ IF Done(t, u)
            THEN game' = ProcessGameUpdate(Remove(t, u), NoGame) /\ Count(t, u)
            ELSE game' = t /\ UNCHANGED <<wins, losses>>
  BY PlayIs
<1>2. game.hand[u] > 0 /\ (game.draw_count > 0 => Answers(game, card.face))
  BY <1>1 DEF MayPlay
<1>3. /\ Running(t) /\ t.players = game.players
      /\ t.current = u => Cardinality(game.players) = 2
      /\ \A q \in User : t.hand[q] = IF q = u THEN game.hand[q] - 1 ELSE game.hand[q]
      /\ t.top_card = card /\ t.draw_count = game.draw_count + Penalty(card.face)
      /\ t.modes = game.modes /\ t.initial_players = game.initial_players
  BY <1>1, <1>2, TurnedIs
<1>4. game.players \subseteq User /\ game.draw_count \in Nat /\ game.has_started
  BY <1>1, UnoAssumption DEF Running, Game
<1>5. \A p \in t.players \ {u} : t.hand[p] # 0
  BY <1>1, <1>2, <1>3, <1>4 DEF Inv, EmptyHandHasTurn
<1>6. t.draw_count > 0 => \/ t.top_card.face \in {"D2", "WD4"}
                          \/ t.top_card.face = "R" /\ "WD4_REV" \in t.modes
  <2>1. CASE game.draw_count > 0
    BY <1>2, <1>3, <2>1 DEF Answers
  <2>2. CASE game.draw_count = 0
    BY <1>3, <2>2 DEF Penalty
  <2>3. QED
    BY <1>4, <2>1, <2>2
<1>7. CASE Done(t, u)
  BY <1>1, <1>3, <1>4, <1>5, <1>6, <1>7, LossOK
<1>8. CASE ~Done(t, u)
  <2>1. \A p \in t.players : t.hand[p] = 0 => p = t.current /\ Cardinality(t.players) = 2
    BY <1>3, <1>5, <1>8 DEF Done
  <2>2. QED
    BY <1>1, <1>3, <1>6, <1>8, <2>1, GoesOnOK
<1>9. QED
  BY <1>7, <1>8

\* Drawing takes all of the penalty.
LEMMA DrawOK ==
  ASSUME Inv, NEW u \in User, Draw(u)
  PROVE  Inv'
<1> DEFINE h == DrawCards(game, u)
           t == TurnNext(h)
<1>1. Running(game) /\ game.current = u /\ game.players \subseteq User
  BY TurnIsRunning DEF Draw, Running, Game
<1>2. /\ Running(h) /\ h.players = game.players
      /\ \A q \in User \ {u} : h.hand[q] = game.hand[q]
      /\ h.hand[u] > 0 /\ h.draw_count = 0
      /\ h.initial_players = game.initial_players
  BY <1>1, DrawIs DEF Draw
<1> HIDE DEF h
<1>3. /\ Running(t) /\ t.players = h.players /\ t.hand = h.hand /\ t.draw_count = h.draw_count
      /\ t.initial_players = h.initial_players
  <2>1. Running(t)
    BY <1>2, TurnNextRuns
  <2>2. QED
    BY <1>2, <2>1, TurnNextIs DEF Running, Game
<1>4. game' = t /\ UNCHANGED <<wins, losses>>
  BY DEF Draw, h
<1> HIDE DEF t
<1>5. \A p \in t.players : t.hand[p] # 0
  BY <1>1, <1>2, <1>3 DEF Inv, EmptyHandHasTurn, Running
<1>6. QED
  BY <1>1, <1>2, <1>3, <1>4, <1>5, GoesOnOK

-----------------------------------------------------------------------------

LEMMA StepOK == Inv /\ [Next]_vars => Inv'
<1> SUFFICES ASSUME Inv, [Next]_vars PROVE Inv'
  OBVIOUS
<1>1. ASSUME NEW u \in User, Join(u) PROVE Inv'
  BY <1>1, JoinOK
<1>2. ASSUME NEW u \in User, Leave(u) PROVE Inv'
  BY <1>2, LeaveOK
<1>3. ASSUME NEW u \in User, Deal(u) PROVE Inv'
  BY <1>3, DealOK
<1>4. ASSUME NEW u \in User, Play(u) PROVE Inv'
  BY <1>4, PlayOK
<1>5. ASSUME NEW u \in User, Draw(u) PROVE Inv'
  BY <1>5, DrawOK
<1>6. CASE Forget
  BY <1>6, ForgetOK
<1>7. CASE UNCHANGED vars
  BY <1>7 DEF vars, Inv, TypeOK, Rounds, Counted, EmptyHandHasTurn, PenaltyShows, OneWinOneLoss
<1>8. QED
  BY <1>1, <1>2, <1>3, <1>4, <1>5, <1>6, <1>7 DEF Next

LEMMA Initially == Init => Inv
<1> SUFFICES ASSUME Init PROVE Inv
  OBVIOUS
<1>1. game \in Game /\ CurrentOK(game) /\ game.has_started = FALSE /\ game.draw_count = 0
  BY NoGameType DEF Init, NoGame
<1>2. QED
  BY <1>1 DEF Init, Zero, Inv, TypeOK, Rounds, Counted, EmptyHandHasTurn, PenaltyShows, OneWinOneLoss

LEMMA Invariance == Spec => []Inv
BY Initially, StepOK, PTL DEF Spec

\* The members of the game and the counts keep their types; no hand and no
\* penalty becomes negative or grows past what the guards allow.
THEOREM TypeCorrect == Spec => []TypeOK
<1>1. Inv => TypeOK
  BY DEF Inv
<1>2. QED
  BY <1>1, Invariance, PTL

\* A player without cards stays in a running game only while it is their turn,
\* and then there is one other player.
THEOREM EmptyHandsGo == Spec => []EmptyHandHasTurn
<1>1. Inv => EmptyHandHasTurn
  BY DEF Inv
<1>2. QED
  BY <1>1, Invariance, PTL

\* However players leave and finish, a game counts one win and one loss at most.
THEOREM WinsAndLosses == Spec => []OneWinOneLoss
<1>1. Inv => OneWinOneLoss
  BY DEF Inv
<1>2. QED
  BY <1>1, Invariance, PTL

\* The top card tells whether there is a penalty that a card may answer.
THEOREM PenaltyIsVisible == Spec => []PenaltyShows
<1>1. Inv => PenaltyShows
  BY DEF Inv
<1>2. QED
  BY <1>1, Invariance, PTL

-----------------------------------------------------------------------------
(* The penalty within a game.                                              *)

\* A penalty shrinks only when the player whose turn it is draws all of it.
DrawnByCurrent ==
  game.has_started /\ game'.has_started /\ game'.draw_count < game.draw_count =>
    /\ game'.draw_count = 0
    /\ game'.hand[game.current] = game.hand[game.current] + game.draw_count

LEMMA LeaveKeepsPenalty ==
  ASSUME Inv, NEW u \in User, Leave(u), game.has_started, game'.has_started
  PROVE  game'.draw_count = game.draw_count
<1>1. game \in Game
  BY DEF Inv, TypeOK
<1>2. RemovePlayer(game, u).draw_count = game.draw_count
  BY <1>1 DEF RemovePlayer, TurnNext, Game
<1>3. Remove(game, u).draw_count = game.draw_count
  BY <1>1, <1>2 DEF Remove, RemovePlayer, TurnNext, Game
<1>4. game' \in {Remove(game, u), NoGame}
  BY DEF Leave, ProcessGameUpdate
<1>5. QED
  BY <1>3, <1>4 DEF NoGame

LEMMA PlayKeepsPenalty ==
  ASSUME Inv, NEW u \in User, Play(u), game'.has_started
  PROVE  game'.draw_count >= game.draw_count
<1>1. PICK card, t :
         /\ card \in TopCard
         /\ Running(game) /\ game.current = u
         /\ MayPlay(game, u, card) /\ Put(game, u, card).draw_count =< MAX_DRAW
         /\ t = Turned(game, u, card)
         /\ IF Done(t, u) THEN game' = ProcessGameUpdate(Remove(t, u), NoGame) ELSE game' = t
  BY PlayIs
<1>2. /\ Running(t) /\ t.players = game.players
      /\ t.draw_count = game.draw_count + Penalty(card.face)
  BY <1>1, TurnedIs DEF MayPlay
<1>3. t.draw_count >= game.draw_count
  <2>1. game.draw_count \in Nat /\ Penalty(card.face) \in {0, 2, 4}
    BY <1>1, UnoAssumption DEF Running, Game, Penalty
  <2>2. QED
    BY <1>2, <2>1
<1>4. CASE Done(t, u)
  <2>1. u \in t.players
    BY <1>1, <1>2 DEF Running
  <2>2. Remove(t, u).draw_count = t.draw_count
    BY <1>2, <2>1, RemoveIs
  <2>3. game' \in {Remove(t, u), NoGame}
    BY <1>1, <1>4 DEF ProcessGameUpdate
  <2>4. game' = Remove(t, u)
    BY <2>3 DEF NoGame
  <2>5. QED
    BY <1>3, <2>2, <2>4
<1>5. QED
  BY <1>1, <1>3, <1>4

LEMMA DrawTakesPenalty ==
  ASSUME Inv, NEW u \in User, Draw(u), game.draw_count > 0
  PROVE  /\ game'.draw_count = 0
         /\ game'.hand[game.current] = game.hand[game.current] + game.draw_count
<1> DEFINE h == DrawCards(game, u)
<1>1. Running(game) /\ game.current = u
  BY TurnIsRunning DEF Draw
<1>2. Running(h) /\ h.draw_count = 0 /\ h.hand[u] = game.hand[u] + game.draw_count
  BY <1>1, DrawIs DEF Draw
<1> HIDE DEF h
<1>3. game' = TurnNext(h)
  BY DEF Draw, h
<1>4. game'.hand = h.hand /\ game'.draw_count = h.draw_count
  BY <1>2, <1>3, TurnNextIs DEF Running, Game
<1>5. QED
  BY <1>1, <1>2, <1>4

\* Within a game a penalty grows or passes on until it is drawn whole, whoever
\* joins, leaves, plays or reverses it.
THEOREM PenaltyDrawnWhole == Spec => PenaltyIsDrawn
<1>1. ASSUME Inv, [Next]_vars PROVE DrawnByCurrent
  <2> SUFFICES ASSUME game.has_started, game'.has_started,
                      game'.draw_count < game.draw_count
               PROVE  /\ game'.draw_count = 0
                      /\ game'.hand[game.current] = game.hand[game.current] + game.draw_count
    BY DEF DrawnByCurrent
  <2>1. game \in Game /\ game.draw_count \in Nat /\ game' \in Game /\ game'.draw_count \in Nat
    BY <1>1, StepOK, UnoAssumption DEF Inv, TypeOK, Game
  <2>2. game.draw_count > 0
    BY <2>1
  <2>3. ~UNCHANGED vars
    BY <2>1 DEF vars
  <2>4. \A u \in User : ~Join(u) /\ ~Deal(u)
    BY DEF Join, Deal, MayAdd, MayStart
  <2>5. \A u \in User : ~Leave(u)
    BY <1>1, <2>1, LeaveKeepsPenalty
  <2>6. \A u \in User : ~Play(u)
    BY <1>1, <2>1, PlayKeepsPenalty
  <2>7. ~Forget
    BY DEF Forget, NoGame
  <2>8. PICK u \in User : Draw(u)
    BY <1>1, <2>3, <2>4, <2>5, <2>6, <2>7 DEF Next
  <2>9. QED
    BY <1>1, <2>2, <2>8, DrawTakesPenalty
<1>2. QED
  BY <1>1, Invariance, PTL DEF Spec, PenaltyIsDrawn, DrawnByCurrent

-----------------------------------------------------------------------------
(* UNO is a turn-based game.                                               *)

\* The operators of the framework in the words of the abstract specification.
LEMMA SameNeighbour ==
  ASSUME NEW S, NEW u, NEW f
  PROVE  AsTurnGame!Neighbour(S, u, f) = Neighbour(S, u, f)
BY DEF AsTurnGame!Neighbour, AsTurnGame!NextIn, AsTurnGame!Least,
       AsTurnGame!PrevIn, AsTurnGame!Greatest, Neighbour, NextIn, PrevIn, Least, Greatest

LEMMA SameCardinality ==
  ASSUME NEW S
  PROVE  AsTurnGame!Cardinality(S) = Cardinality(S)
BY DEF AsTurnGame!Cardinality, Cardinality

LEMMA NoGameEnds == game' = NoGame => AsTurnGame!End
BY DEF NoGame, AsTurnGame!End, NoUser, AsTurnGame!NoUser

\* A game whose turn is held by a successor among the players left is a turn.
LEMMA IsTurn ==
  ASSUME Running(game), NEW g \in Game, g.has_started, game' = g,
         g.players \subseteq game.players, Cardinality(g.players) >= 2,
         g.current \in g.players,
         LET next == Neighbour(g.players, game.current, g.dir_forwards)
         IN  g.current \in {game.current, next, Neighbour(g.players, next, g.dir_forwards)}
  PROVE  AsTurnGame!Turn
<1>1. /\ game.has_started = TRUE /\ g.has_started = TRUE /\ g.dir_forwards \in BOOLEAN
  BY DEF Running, Game
<1>2. g.current \in AsTurnGame!Successors(g.players, game.current, g.dir_forwards)
  BY SameNeighbour DEF AsTurnGame!Successors
<1>3. QED
  BY <1>1, <1>2, SameCardinality, UnoAssumption DEF AsTurnGame!Turn

LEMMA JoinImplements ==
  ASSUME Inv, NEW u \in User, Join(u)
  PROVE  AsTurnGame!Join(u)
<1>1. PICK modes : game' = [AddPlayer(game, u) EXCEPT !.modes = modes]
  BY DEF Join
<1>2. game \in Game /\ ~game.has_started /\ u \notin game.players
  BY DEF Join, MayAdd, Inv, TypeOK
<1>3. game' = [game EXCEPT !.players = @ \cup {u}, !.modes = modes]
  BY <1>1, <1>2 DEF AddPlayer, Game
<1>4. QED
  BY <1>2, <1>3 DEF Game, AsTurnGame!Join

LEMMA DealImplements ==
  ASSUME Inv, NEW u \in User, Deal(u)
  PROVE  AsTurnGame!Start
<1>1. PICK first \in game.players, color \in Color, face \in Face \ Wild :
        game' = [StartWith(game, first) EXCEPT
                  !.hand = [p \in User |-> IF p \in game.players THEN DEALT ELSE 0],
                  !.top_card = [suit |-> color, face |-> face],
                  !.initial_players = Cardinality(game.players)]
  BY DEF Deal
<1>2. game \in Game /\ MayStart(game)
  BY DEF Inv, TypeOK, Deal
<1>3. /\ game'.players = game.players /\ game'.has_started = TRUE
      /\ game'.current = first /\ game'.dir_forwards = game.dir_forwards
  BY <1>1, <1>2 DEF StartWith, Game
<1>4. QED
  BY <1>2, <1>3, SameCardinality DEF MayStart, AsTurnGame!Start

LEMMA DrawImplements ==
  ASSUME Inv, NEW u \in User, Draw(u)
  PROVE  AsTurnGame!Turn
<1> DEFINE h == DrawCards(game, u)
           t == TurnNext(h)
<1>1. Running(game) /\ game.current = u
  BY TurnIsRunning DEF Draw
<1>2. /\ Running(h) /\ h.players = game.players /\ h.current = u
      /\ h.dir_forwards = game.dir_forwards
  BY <1>1, DrawIs DEF Draw
<1> HIDE DEF h
<1>3. /\ Running(t) /\ t.players = h.players /\ t.dir_forwards = h.dir_forwards
      /\ t.current = Neighbour(h.players, u, h.dir_forwards)
  <2>1. Running(t)
    BY <1>2, TurnNextRuns
  <2>2. QED
    BY <1>2, <2>1, TurnNextIs DEF Running, Game
<1>4. game' = t
  BY DEF Draw, h
<1> HIDE DEF t
<1>5. QED
  BY <1>1, <1>2, <1>3, <1>4, IsTurn DEF Running

\* A player who leaves hands the turn to a neighbour, if it was theirs.
LEMMA LeaveImplements ==
  ASSUME Inv, NEW u \in User, Leave(u)
  PROVE  AsTurnGame!LeaveLobby(u) \/ AsTurnGame!Turn \/ AsTurnGame!End
           \/ UNCHANGED AsTurnGame!vars
<1> DEFINE r == Remove(game, u)
<1>1. game \in Game /\ CurrentOK(game) /\ game.players \subseteq User
  BY DEF Inv, TypeOK, Rounds, CurrentOK
<1>2. game' = ProcessGameUpdate(r, NoGame) /\ game' \in {r, NoGame}
  BY DEF Leave, ProcessGameUpdate
<1>3. CASE game.has_started /\ u \in game.players
  <2>1. Running(game)
    BY <1>1, <1>3 DEF Inv, Rounds, CurrentOK, Running
  <2>2. /\ r \in Game /\ r.has_started
        /\ r.players = game.players \ {u} /\ r.current \in r.players
        /\ r.current = IF u = game.current
                       THEN Neighbour(game.players, u, game.dir_forwards) ELSE game.current
        /\ r.dir_forwards = game.dir_forwards
    BY <1>3, <2>1, RemoveIs
  <2> HIDE DEF r
  <2>3. CASE game' = r /\ game' # NoGame
    <3>1. Cardinality(r.players) >= 2
      BY <1>2, <2>2, <2>3, UpdateIs
    <3>2. r.current \in {game.current, Neighbour(r.players, game.current, r.dir_forwards)}
      <4>1. CASE u # game.current
        BY <2>2, <4>1
      <4>2. CASE u = game.current
        <5>1. r.current = Neighbour(game.players, u, game.dir_forwards) /\ r.current # u
          BY <2>2, <4>2
        <5>2. Neighbour(r.players, u, r.dir_forwards) = r.current
          BY <1>1, <1>3, <2>2, <5>1, NeighbourWithout
        <5>3. QED
          BY <4>2, <5>2
      <4>3. QED
        BY <4>1, <4>2
    <3>3. QED
      BY <2>1, <2>2, <2>3, <3>1, <3>2, IsTurn
  <2>4. QED
    BY <1>2, <2>3, NoGameEnds
<1>4. CASE ~game.has_started \/ u \notin game.players
  <2>1. u \notin game.players \/ u # game.current
    BY <1>1, <1>4, UserAssumption DEF CurrentOK, NoUser
  <2>2. RemovePlayer(game, u) = [game EXCEPT !.players = @ \ {u}]
    BY <1>1, <2>1 DEF RemovePlayer, Game
  <2>3. /\ r.players = game.players \ {u}
        /\ r.has_started = game.has_started /\ r.current = game.current
        /\ r.dir_forwards = game.dir_forwards
    BY <1>1, <2>2 DEF Remove, Game
  <2> HIDE DEF r
  <2>4. CASE game' = r
    <3>1. CASE u \in game.players
      BY <1>4, <2>3, <2>4, <3>1 DEF AsTurnGame!LeaveLobby
    <3>2. CASE u \notin game.players
      BY <2>3, <2>4, <3>2 DEF AsTurnGame!vars
    <3>3. QED
      BY <3>1, <3>2
  <2>5. QED
    BY <1>2, <2>4, NoGameEnds
<1>5. QED
  BY <1>3, <1>4

\* cmd_play: the turn is with the neighbour or the one after, in the direction
\* after the card, and stays so among the players left if its player has won.
LEMMA PlayImplements ==
  ASSUME Inv, NEW u \in User, Play(u)
  PROVE  AsTurnGame!Turn \/ AsTurnGame!End
<1>1. PICK card, t :
         /\ card \in TopCard
         /\ Running(game) /\ game.current = u /\ u \in game.players
         /\ MayPlay(game, u, card) /\ Put(game, u, card).draw_count =< MAX_DRAW
         /\ t = Turned(game, u, card)
         /\ IF Done(t, u) THEN game' = ProcessGameUpdate(Remove(t, u), NoGame) ELSE game' = t
  BY PlayIs
<1> DEFINE S    == game.players
           f    == t.dir_forwards
           next == Neighbour(S, u, f)
           then == Neighbour(S, next, f)
<1>2. /\ Running(t) /\ t.players = S /\ t.current = NextTurn(game, u, card)
      /\ f = Put(game, u, card).dir_forwards
  BY <1>1, TurnedIs DEF MayPlay
<1>3. t.current \in {next, then}
  BY <1>2 DEF NextTurn
<1>4. S \subseteq User /\ u \in User /\ S # {u} /\ next \in S \ {u} /\ next \in User
  <2>1. S \subseteq User
    BY <1>1 DEF Running, Game
  <2>2. Cardinality({u}) = 1 /\ Cardinality(S) >= 2
    BY <1>1, FS_Singleton DEF Running
  <2>3. S # {u}
    BY <2>2
  <2>4. next \in S \ {u}
    BY <1>1, <2>1, <2>3, NeighbourIsOther
  <2>5. QED
    BY <2>1, <2>3, <2>4
<1>5. CASE ~Done(t, u)
  BY <1>1, <1>2, <1>3, <1>5, IsTurn DEF Running
<1>6. CASE Done(t, u)
  <2> DEFINE r == Remove(t, u)
  <2>1. t.current # u
    BY <1>6 DEF Done
  <2>2. /\ r \in Game /\ r.has_started /\ r.players = S \ {u} /\ r.current = t.current
        /\ r.current \in r.players /\ r.dir_forwards = f
    BY <1>1, <1>2, <2>1, RemoveIs
  <2>3. Neighbour(S \ {u}, u, f) = next
    BY <1>4, NeighbourWithout
  <2>4. ASSUME t.current = then
        PROVE  Neighbour(S \ {u}, next, f) = then
    <3>1. next \in User /\ next \in S \ {u} /\ S \subseteq User
      BY <1>4
    <3> HIDE DEF next, f, S
    <3>2. u # Neighbour(S, next, f)
      BY <2>1, <2>4
    <3>3. Neighbour(S \ {u}, next, f) = Neighbour(S, next, f)
      BY <3>1, <3>2, NeighbourWithout
    <3>4. QED
      BY <3>3
  <2> HIDE DEF r, next, then, f
  <2>5. CASE game' = r /\ game' # NoGame
    <3>1. Cardinality(r.players) >= 2
      BY <1>1, <1>6, <2>2, <2>5, UpdateIs DEF r
    <3>2. r.current \in {u, Neighbour(r.players, u, f),
                         Neighbour(r.players, Neighbour(r.players, u, f), f)}
      BY <1>3, <2>2, <2>3, <2>4
    <3>3. QED
      BY <1>1, <2>2, <2>5, <3>1, <3>2, IsTurn
  <2>6. game' \in {r, NoGame}
    BY <1>1, <1>6 DEF ProcessGameUpdate, r
  <2>7. QED
    BY <2>5, <2>6, NoGameEnds
<1>7. QED
  BY <1>5, <1>6

LEMMA NextImplements ==
  ASSUME Inv, [Next]_vars
  PROVE  [AsTurnGame!Next]_(AsTurnGame!vars)
<1>1. ASSUME NEW u \in User, Join(u) PROVE AsTurnGame!Next
  BY <1>1, JoinImplements DEF AsTurnGame!Next
<1>2. ASSUME NEW u \in User, Leave(u) PROVE [AsTurnGame!Next]_(AsTurnGame!vars)
  BY <1>2, LeaveImplements DEF AsTurnGame!Next
<1>3. ASSUME NEW u \in User, Deal(u) PROVE AsTurnGame!Next
  BY <1>3, DealImplements DEF AsTurnGame!Next
<1>4. ASSUME NEW u \in User, Play(u) PROVE AsTurnGame!Next
  BY <1>4, PlayImplements DEF AsTurnGame!Next
<1>5. ASSUME NEW u \in User, Draw(u) PROVE AsTurnGame!Next
  BY <1>5, DrawImplements DEF AsTurnGame!Next
<1>6. CASE Forget
  BY <1>6, NoGameEnds DEF Forget, AsTurnGame!Next
<1>7. CASE UNCHANGED vars
  BY <1>7 DEF vars, AsTurnGame!vars
<1>8. QED
  BY <1>1, <1>2, <1>3, <1>4, <1>5, <1>6, <1>7 DEF Next

\* UNO implements the turn-based game: after a reversal, a skip and a removal in
\* one handler the turn is still with one of the next two players who are left.
THEOREM Refinement == Spec => ImplementsTurnGame
<1>1. Init => AsTurnGame!Init
  BY DEF Init, NoGame, AsTurnGame!Init, NoUser, AsTurnGame!NoUser
<1>2. QED
  BY <1>1, NextImplements, Invariance, PTL DEF Spec, ImplementsTurnGame, AsTurnGame!Spec
=============================================================================
