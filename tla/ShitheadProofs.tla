--------------------------- MODULE ShitheadProofs ---------------------------
(***************************************************************************)
(* Shithead for any users, ranks and sizes: no card is lost or appears,    *)
(* hands are full as long as there is a draw stack, who has no cards is    *)
(* gone, whose turn it is has a move, and the turn passes on by one.       *)
(* The bounds of a hand follow from the number of cards of a rank in the   *)
(* whole game, so the invariant counts cards over all hands and piles.     *)
(***************************************************************************)
EXTENDS Shithead, GameFProofs

Cards == [Card -> Nat]

\* The types but for the bounds of the bags.
Loose ==
  [players      : SUBSET User,
   has_started  : BOOLEAN,
   current      : User \cup {NoUser},
   dir_forwards : {TRUE},
   hand         : [User -> Cards],
   draw_stack   : Cards,
   play_stack   : Cards,
   top          : Card \cup {Lowest}]

\* No more cards of a rank than the deck has, none with who does not play, and
\* the pile and what it is compared with begin anew together.
Counted(g) ==
  /\ \A c \in Card : Total(g, c) =< NUM_PER_FACE
  /\ \A q \in User \ g.players : g.hand[q] = NoCards
  /\ g.play_stack = NoCards => g.top = Lowest

\* A running game, also in the middle of a handler.
Running(g) ==
  /\ g \in Loose
  /\ g.has_started
  /\ g.current \in g.players
  /\ Cardinality(g.players) >= 2
  /\ Counted(g)

\* The pile of a lobby is empty.
Lobby(g) == ~g.has_started => g.current = NoUser /\ g.play_stack = NoCards

-----------------------------------------------------------------------------
(* Bags of cards                                                           *)

LEMMA CardsAreFinite == IsFiniteSet(Card)
<1>1. Card \in SUBSET Nat /\ \A c \in Card : c =< 14
  BY CardAssumption
<1>2. QED
  BY <1>1, FS_BoundedSetOfNaturals

\* The number of cards in a bag.
LEMMA SizeIs ==
  ASSUME NEW b \in Cards
  PROVE  /\ Size(b) = SumFunctionOnSet(b, Card)
         /\ Size(b) \in Nat
         /\ Size(b) = 0 <=> b = NoCards
<1>1. DOMAIN b = Card /\ \A c \in Card : b[c] \in Nat
  BY DEF Cards
<1>2. Size(b) = SumFunctionOnSet(b, Card)
  BY <1>1 DEF Size, SumFunction
<1>3. SumFunctionOnSet(b, Card) = 0 <=> \A c \in Card : b[c] = 0
  BY <1>1, CardsAreFinite, SumZero
<1>4. b = NoCards <=> \A c \in Card : b[c] = 0
  BY DEF Cards, NoCards
<1>5. SumFunctionOnSet(b, Card) \in Nat
  BY <1>1, CardsAreFinite, SumStep
<1>6. QED
  BY <1>2, <1>3, <1>4, <1>5

\* Cards that are put together, and cards that are taken out.
LEMMA PlusIs ==
  ASSUME NEW a \in Cards, NEW b \in Cards
  PROVE  /\ Plus(a, b) \in Cards
         /\ \A c \in Card : Plus(a, b)[c] = a[c] + b[c]
         /\ Size(Plus(a, b)) = Size(a) + Size(b)
<1>1. \A c \in Card : a[c] \in Nat /\ b[c] \in Nat /\ Plus(a, b)[c] = a[c] + b[c]
  BY DEF Plus, Cards
<1>2. Plus(a, b) \in Cards
  BY <1>1 DEF Plus, Cards
<1>3. SumFunctionOnSet(Plus(a, b), Card) = SumFunctionOnSet(a, Card) + SumFunctionOnSet(b, Card)
  BY <1>1, CardsAreFinite, SumPlus
<1>4. QED
  BY <1>1, <1>2, <1>3, SizeIs

LEMMA MinusIs ==
  ASSUME NEW a \in Cards, NEW b \in Cards, \A c \in Card : b[c] =< a[c]
  PROVE  /\ Minus(a, b) \in Cards
         /\ \A c \in Card : Minus(a, b)[c] = a[c] - b[c]
         /\ Size(Minus(a, b)) = Size(a) - Size(b)
<1>1. \A c \in Card : a[c] \in Nat /\ b[c] \in Nat /\ Minus(a, b)[c] = a[c] - b[c]
  BY DEF Minus, Cards
<1>2. Minus(a, b) \in Cards
  BY <1>1 DEF Minus, Cards
<1>3. \A c \in Card : a[c] = Minus(a, b)[c] + b[c] /\ Minus(a, b)[c] \in Nat /\ b[c] \in Nat
  BY <1>1
<1>4. SumFunctionOnSet(a, Card) = SumFunctionOnSet(Minus(a, b), Card) + SumFunctionOnSet(b, Card)
  BY <1>3, CardsAreFinite, SumPlus
<1>5. Size(a) = Size(Minus(a, b)) + Size(b) /\ Size(Minus(a, b)) \in Nat /\ Size(b) \in Nat
  BY <1>2, <1>4, SizeIs
<1>6. QED
  BY <1>1, <1>2, <1>5

LEMMA OnlyIs ==
  ASSUME NEW card \in Card, NEW n \in Nat
  PROVE  /\ Only(card, n) \in Cards
         /\ \A c \in Card : Only(card, n)[c] = IF c = card THEN n ELSE 0
BY DEF Only, Cards

LEMMA NoCardsIs == NoCards \in Cards /\ \A c \in Card : NoCards[c] = 0
BY DEF NoCards, Cards

LEMMA DrawnIs ==
  ASSUME NEW b, NEW n, NEW d \in Drawn(b, n)
  PROVE  d \in Cards /\ Size(d) = n /\ \A c \in Card : d[c] =< b[c]
BY CountAssumption DEF Drawn, Bag, Cards

-----------------------------------------------------------------------------
(* The cards of a rank in all hands                                        *)

LEMMA InHandsIs ==
  ASSUME NEW hand \in [User -> Cards], NEW c \in Card
  PROVE  /\ InHands(hand, User, c) \in Nat
         /\ \A q \in User : hand[q][c] \in Nat /\ hand[q][c] =< InHands(hand, User, c)
<1> DEFINE f == [q \in User |-> hand[q][c]]
<1>1. IsFiniteSet(User)
  BY PlayersAreFinite
<1>2. \A q \in User : f[q] \in Nat /\ f[q] = hand[q][c]
  BY DEF Cards
<1>3. InHands(hand, User, c) = SumFunctionOnSet(f, User)
  BY DEF InHands
<1> HIDE DEF f
<1>4. SumFunctionOnSet(f, User) \in Nat
  BY <1>1, <1>2, SumStep
<1>5. \A q \in User : f[q] =< SumFunctionOnSet(f, User)
  BY <1>1, <1>2, SumElement
<1>6. QED
  BY <1>2, <1>3, <1>4, <1>5

\* One hand changes.
LEMMA InHandsExcept ==
  ASSUME NEW hand \in [User -> Cards], NEW new \in [User -> Cards], NEW u \in User,
         \A q \in User \ {u} : new[q] = hand[q], NEW c \in Card
  PROVE  InHands(new, User, c) + hand[u][c] = InHands(hand, User, c) + new[u][c]
<1> DEFINE f == [q \in User |-> hand[q][c]]
           g == [q \in User |-> new[q][c]]
<1>1. IsFiniteSet(User)
  BY PlayersAreFinite
<1>2. \A q \in User : f[q] \in Nat /\ g[q] \in Nat /\ f[q] = hand[q][c] /\ g[q] = new[q][c]
  BY DEF Cards
<1>3. \A q \in User \ {u} : f[q] = g[q]
  OBVIOUS
<1>4. /\ InHands(hand, User, c) = SumFunctionOnSet(f, User)
      /\ InHands(new, User, c) = SumFunctionOnSet(g, User)
  BY DEF InHands
<1> HIDE DEF f, g
<1>5. SumFunctionOnSet(g, User) + f[u] = SumFunctionOnSet(f, User) + g[u]
  BY <1>1, <1>2, <1>3, SumExcept
<1>6. QED
  BY <1>2, <1>4, <1>5

\* Only the hands of the players S have cards.
LEMMA InHandsOfPlayers ==
  ASSUME NEW hand \in [User -> Cards], NEW S \in SUBSET User, NEW d, NEW c \in Card,
         \A q \in S : d[q] = hand[q], \A q \in User \ S : hand[q] = NoCards
  PROVE  InHands(hand, User, c) = InHands(d, S, c)
<1> DEFINE f == [q \in User |-> hand[q][c]]
           g == [q \in S |-> d[q][c]]
<1>1. IsFiniteSet(User) /\ IsFiniteSet(S)
  BY PlayersAreFinite
<1>2. \A q \in User : f[q] \in Nat
  BY DEF Cards
<1>3. \A q \in S : f[q] \in Nat /\ f[q] = g[q]
  BY <1>2
<1>4. \A q \in User \ S : f[q] = 0
  BY NoCardsIs
<1>5. /\ InHands(hand, User, c) = SumFunctionOnSet(f, User)
      /\ InHands(d, S, c) = SumFunctionOnSet(g, S)
  BY DEF InHands
<1> HIDE DEF f, g
<1>6. SumFunctionOnSet(f, User) = SumFunctionOnSet(f, S)
  BY <1>1, <1>2, <1>4, SumWithoutZeros
<1>7. SumFunctionOnSet(f, S) = SumFunctionOnSet(g, S)
  BY <1>1, <1>3, SumSame
<1>8. QED
  BY <1>5, <1>6, <1>7

-----------------------------------------------------------------------------
(* What the helpers of the handlers make of a running game                 *)

\* What u holds and what lies on the table.
Own(g, u, c) == g.hand[u][c] + g.draw_stack[c] + g.play_stack[c]

\* As long as only u's hand changes the cards of the others do not matter.
LEMMA TotalMoves ==
  ASSUME NEW g \in Loose, NEW h \in Loose, NEW u \in User,
         \A q \in User \ {u} : h.hand[q] = g.hand[q], NEW c \in Card
  PROVE  /\ Total(g, c) \in Nat /\ Total(h, c) \in Nat
         /\ Total(h, c) + Own(g, u, c) = Total(g, c) + Own(h, u, c)
<1>1. g.hand \in [User -> Cards] /\ h.hand \in [User -> Cards]
  BY DEF Loose
<1>2. InHands(h.hand, User, c) + g.hand[u][c] = InHands(g.hand, User, c) + h.hand[u][c]
  BY <1>1, InHandsExcept
<1>3. /\ InHands(h.hand, User, c) \in Nat /\ h.hand[u][c] \in Nat
      /\ InHands(g.hand, User, c) \in Nat /\ g.hand[u][c] \in Nat
  BY <1>1, InHandsIs
<1>4. /\ g.draw_stack[c] \in Nat /\ g.play_stack[c] \in Nat
      /\ h.draw_stack[c] \in Nat /\ h.play_stack[c] \in Nat
  BY DEF Loose, Cards
<1>5. QED
  BY <1>2, <1>3, <1>4 DEF Total, Own

\* A player who takes part moves cards, or loses some.
LEMMA MovedRuns ==
  ASSUME NEW g, Running(g), NEW u \in g.players, NEW h \in Loose,
         h.has_started, h.players = g.players, h.current = g.current,
         \A q \in User \ {u} : h.hand[q] = g.hand[q],
         \A c \in Card : Own(h, u, c) =< Own(g, u, c),
         h.play_stack = NoCards => h.top = Lowest
  PROVE  Running(h)
<1>1. g \in Loose /\ u \in User
  BY DEF Running, Loose
<1>2. ASSUME NEW c \in Card PROVE Total(h, c) =< NUM_PER_FACE
  <2>1. /\ Total(g, c) \in Nat /\ Total(h, c) \in Nat
        /\ Total(h, c) + Own(g, u, c) = Total(g, c) + Own(h, u, c)
    BY <1>1, TotalMoves
  <2>2. Own(g, u, c) \in Nat /\ Own(h, u, c) \in Nat
    BY <1>1 DEF Own, Loose, Cards
  <2>3. Total(g, c) =< NUM_PER_FACE /\ NUM_PER_FACE \in Nat
    BY CountAssumption DEF Running, Counted
  <2>4. Own(h, u, c) =< Own(g, u, c)
    OBVIOUS
  <2>5. QED
    BY <2>1, <2>2, <2>3, <2>4
<1>3. QED
  BY <1>1, <1>2 DEF Running, Counted

\* The types' bounds are those of the deck.
LEMMA CountedIsTyped ==
  ASSUME NEW g \in Loose, Counted(g)
  PROVE  g \in Game
<1>1. /\ g.hand \in [User -> Cards] /\ g.draw_stack \in Cards /\ g.play_stack \in Cards
  BY DEF Loose
<1>2. ASSUME NEW c \in Card
      PROVE  /\ \A q \in User : g.hand[q][c] \in 0..NUM_PER_FACE
             /\ g.draw_stack[c] \in 0..NUM_PER_FACE
             /\ g.play_stack[c] \in 0..NUM_PER_FACE
  <2>1. /\ InHands(g.hand, User, c) \in Nat
        /\ \A q \in User : g.hand[q][c] \in Nat /\ g.hand[q][c] =< InHands(g.hand, User, c)
    BY <1>1, InHandsIs
  <2>2. g.draw_stack[c] \in Nat /\ g.play_stack[c] \in Nat
    BY <1>1 DEF Cards
  <2>3. InHands(g.hand, User, c) + g.draw_stack[c] + g.play_stack[c] =< NUM_PER_FACE
    BY DEF Counted, Total
  <2>4. NUM_PER_FACE \in Nat
    BY CountAssumption
  <2>5. QED
    BY <2>1, <2>2, <2>3, <2>4
<1>3. g.draw_stack \in Bag /\ g.play_stack \in Bag
  BY <1>1, <1>2 DEF Bag, Cards
<1>4. g.hand \in [User -> Bag]
  BY <1>1, <1>2 DEF Bag, Cards
<1>5. QED
  BY <1>3, <1>4 DEF Loose, Game

LEMMA TypedIsLoose ==
  ASSUME NEW g \in Game
  PROVE  g \in Loose
<1>1. \A b \in Bag : b \in Cards
  BY CountAssumption DEF Bag, Cards
<1>2. QED
  BY <1>1 DEF Game, Loose

\* Among two or more players the next one is another.
LEMMA NextIsOther ==
  ASSUME NEW S, S \subseteq User, NEW u \in S, S # {u}
  PROVE  NextIn(S, u) \in S \ {u}
<1>1. Neighbour(S, u, TRUE) \in S \ {u}
  BY NeighbourIsOther
<1>2. Neighbour(S, u, TRUE) = NextIn(S, u)
  BY DEF Neighbour
<1>3. QED
  BY <1>1, <1>2

LEMMA NoGameIs ==
  /\ NoGame \in Loose /\ Counted(NoGame) /\ Lobby(NoGame)
  /\ NoGame.has_started = FALSE /\ NoGame.players = {}
  /\ NoGame.current = NoUser /\ NoGame.dir_forwards = TRUE
<1>1. /\ NoGame \in Loose /\ Lobby(NoGame)
      /\ NoGame.has_started = FALSE /\ NoGame.players = {}
      /\ NoGame.current = NoUser /\ NoGame.dir_forwards = TRUE
      /\ \A q \in User : NoGame.hand[q] = NoCards
      /\ NoGame.draw_stack = NoCards /\ NoGame.play_stack = NoCards
      /\ NoGame.top = Lowest
  BY NoCardsIs DEF NoGame, Loose, Lobby
<1> HIDE DEF NoGame
<1>2. ASSUME NEW c \in Card PROVE Total(NoGame, c) =< NUM_PER_FACE
  <2>1. NoGame.hand \in [User -> Cards]
    BY <1>1 DEF Loose
  <2> DEFINE f == [q \in User |-> NoGame.hand[q][c]]
  <2>2. IsFiniteSet(User) /\ \A q \in User : f[q] \in Nat /\ f[q] = 0
    BY <1>1, PlayersAreFinite, NoCardsIs
  <2>3. InHands(NoGame.hand, User, c) = SumFunctionOnSet(f, User)
    BY DEF InHands
  <2> HIDE DEF f
  <2>4. SumFunctionOnSet(f, User) = 0
    BY <2>2, SumZero
  <2>5. NoGame.draw_stack[c] = 0 /\ NoGame.play_stack[c] = 0
    BY <1>1, NoCardsIs
  <2>6. QED
    BY <2>3, <2>4, <2>5, CountAssumption DEF Total
<1>3. QED
  BY <1>1, <1>2 DEF Counted

\* Two games that differ in who plays and whose turn it is.
SameCards(g, h) ==
  /\ \A q \in User : h.hand[q] = g.hand[q]
  /\ h.draw_stack = g.draw_stack
  /\ h.play_stack = g.play_stack
  /\ h.top = g.top

LEMMA SameTotal ==
  ASSUME NEW g \in Loose, NEW h \in Loose, SameCards(g, h)
  PROVE  \A c \in Card : Total(h, c) = Total(g, c)
<1>1. h.hand = g.hand
  BY DEF Loose, SameCards
<1>2. QED
  BY <1>1 DEF SameCards, Total

\* Passing the turn on gives it to another player.
LEMMA TurnNextIs ==
  ASSUME NEW g, Running(g), NEW t, t = TurnNext(g)
  PROVE  /\ Running(t) /\ SameCards(g, t)
         /\ t.players = g.players
         /\ t.current = NextIn(g.players, g.current)
         /\ t.current # g.current
<1> DEFINE next == NextIn(g.players, g.current)
<1>1. /\ g \in Loose /\ g.players \subseteq User /\ g.current \in g.players
      /\ g.dir_forwards = TRUE /\ g.has_started /\ Cardinality(g.players) >= 2
  BY DEF Running, Loose
<1>2. g.players # {g.current}
  <2>1. Cardinality({g.current}) = 1
    BY FS_Singleton
  <2>2. QED
    BY <1>1, <2>1
<1>3. next \in g.players \ {g.current}
  BY <1>1, <1>2, NextIsOther
<1>4. t = [g EXCEPT !.current = next]
  BY <1>1 DEF TurnNext, Neighbour
<1> HIDE DEF next
<1>5. /\ t \in Loose /\ t.has_started /\ t.players = g.players /\ t.current = next
      /\ t.dir_forwards = TRUE /\ SameCards(g, t)
  BY <1>1, <1>3, <1>4 DEF Loose, SameCards
<1>6. \A c \in Card : Total(t, c) = Total(g, c)
  BY <1>1, <1>5, SameTotal
<1>7. Counted(t)
  BY <1>5, <1>6 DEF Counted, Running, SameCards
<1>8. QED
  BY <1>1, <1>3, <1>5, <1>7 DEF Running, next

\* Removing a player who has no turn takes that player's cards away.
LEMMA RemoveIs ==
  ASSUME NEW g \in Loose, Counted(g), NEW u \in User, NEW r, r = Remove(g, u)
  PROVE  /\ r \in Loose /\ Counted(r)
         /\ r.players = g.players \ {u} /\ r.has_started = g.has_started
         /\ u = g.current => u \notin g.players \/ r.current = NextIn(g.players, u)
         /\ u # g.current \/ u \notin g.players => r.current = g.current
         /\ r.hand[u] = NoCards
         /\ \A q \in User \ {u} : r.hand[q] = g.hand[q]
         /\ r.draw_stack = g.draw_stack /\ r.play_stack = g.play_stack /\ r.top = g.top
         /\ \A c \in Card : Total(r, c) = Total(g, c) - g.hand[u][c]
<1> DEFINE next == IF u = g.current /\ u \in g.players
                   THEN NextIn(g.players, u) ELSE g.current
           hand == [g.hand EXCEPT ![u] = NoCards]
<1>1. g.players \subseteq User /\ g.dir_forwards = TRUE
  BY DEF Loose
<1>2. next \in User \cup {NoUser}
  <2>1. g.current \in User \cup {NoUser}
    BY DEF Loose
  <2>2. u \in g.players => NextIn(g.players, u) \in User
    BY <1>1, NeighbourIsMember
  <2>3. QED
    BY <2>1, <2>2
<1>3. hand \in [User -> Cards] /\ hand[u] = NoCards /\ \A q \in User \ {u} : hand[q] = g.hand[q]
  BY NoCardsIs DEF Loose
<1>4. RemovePlayer(g, u) = [g EXCEPT !.players = @ \ {u}, !.current = next]
  <2>1. CASE u \notin g.players
    <3>1. g.players \ {u} = g.players /\ next = g.current /\ RemovePlayer(g, u) = g
      BY <2>1 DEF RemovePlayer
    <3> HIDE DEF next
    <3>2. QED
      BY <3>1 DEF Loose
  <2>2. CASE u \in g.players /\ u = g.current
    <3>1. RemovePlayer(g, u) = [TurnNext(g) EXCEPT !.players = @ \ {u}]
      BY <2>2 DEF RemovePlayer
    <3>2. TurnNext(g) = [g EXCEPT !.current = next]
      BY <1>1, <2>2 DEF TurnNext, Neighbour
    <3> HIDE DEF next
    <3>3. QED
      BY <3>1, <3>2 DEF Loose
  <2>3. CASE u \in g.players /\ u # g.current
    <3>1. RemovePlayer(g, u) = [g EXCEPT !.players = @ \ {u}] /\ next = g.current
      BY <2>3 DEF RemovePlayer
    <3> HIDE DEF next
    <3>2. QED
      BY <3>1 DEF Loose
  <2>4. QED
    BY <2>1, <2>2, <2>3
<1> HIDE DEF next
<1>5. r = [g EXCEPT !.players = @ \ {u}, !.current = next, !.hand = hand]
  BY <1>4 DEF Remove, Loose
<1>6. r.hand = hand
  BY <1>5 DEF Loose
<1> HIDE DEF hand
<1>7. /\ r \in Loose /\ r.players = g.players \ {u} /\ r.has_started = g.has_started
      /\ r.dir_forwards = TRUE /\ r.current = next
      /\ r.draw_stack = g.draw_stack /\ r.play_stack = g.play_stack /\ r.top = g.top
  BY <1>1, <1>2, <1>3, <1>5 DEF Loose
<1>8. ASSUME NEW c \in Card
      PROVE  /\ Total(r, c) = Total(g, c) - g.hand[u][c]
             /\ Total(r, c) =< NUM_PER_FACE
  <2>1. /\ Total(r, c) \in Nat /\ Total(g, c) \in Nat
        /\ Total(r, c) + Own(g, u, c) = Total(g, c) + Own(r, u, c)
    BY <1>3, <1>6, <1>7, TotalMoves
  <2>2. r.hand[u][c] = 0 /\ g.hand[u][c] \in Nat
    BY <1>3, <1>6, NoCardsIs DEF Loose, Cards
  <2>3. g.draw_stack[c] \in Nat /\ g.play_stack[c] \in Nat
    BY DEF Loose, Cards
  <2>4. /\ Own(g, u, c) = g.hand[u][c] + g.draw_stack[c] + g.play_stack[c]
        /\ Own(r, u, c) = r.hand[u][c] + g.draw_stack[c] + g.play_stack[c]
    BY <1>7 DEF Own
  <2>5. Total(g, c) =< NUM_PER_FACE /\ NUM_PER_FACE \in Nat
    BY CountAssumption DEF Counted
  <2>6. QED
    BY <2>1, <2>2, <2>3, <2>4, <2>5
<1>9. Counted(r)
  <2>1. \A q \in User \ r.players : r.hand[q] = NoCards
    BY <1>3, <1>6, <1>7 DEF Counted
  <2>2. QED
    BY <1>7, <1>8, <2>1 DEF Counted
<1>10. QED
  BY <1>3, <1>6, <1>7, <1>8, <1>9 DEF next

\* Cards on the pile.  Only a 10 makes cards disappear.
LEMMA PutIs ==
  ASSUME NEW g, Running(g), NEW u \in g.players, NEW card \in Card,
         NEW n \in 0..g.hand[u][card], NEW p, p = Put(g, u, card, n)
  PROVE  /\ Running(p)
         /\ p.players = g.players /\ p.current = g.current
         /\ \A q \in User \ {u} : p.hand[q] = g.hand[q]
         /\ p.draw_stack = g.draw_stack
         /\ card # 10 => \A c \in Card : Total(p, c) = Total(g, c)
         /\ card = 10 => /\ p.play_stack = NoCards
                         /\ \A c \in Card :
                              IF c = 10 THEN Total(p, c) =< Total(g, c)
                              ELSE Total(p, c) = Total(g, c) - g.play_stack[c]
<1> DEFINE put  == Only(card, n)
           left == Minus(g.hand[u], put)
           hand == [g.hand EXCEPT ![u] = left]
           pile == IF card = 10 THEN NoCards ELSE Plus(g.play_stack, put)
           top  == IF card = 10 THEN Lowest
                   ELSE IF n = 0 \/ card = 4 THEN g.top ELSE card
<1>1. /\ g \in Loose /\ u \in User /\ g.hand \in [User -> Cards] /\ g.hand[u] \in Cards
      /\ g.play_stack \in Cards /\ g.draw_stack \in Cards /\ g.top \in Card \cup {Lowest}
      /\ g.has_started
  BY DEF Running, Loose
<1>2. n \in Nat /\ n =< g.hand[u][card]
  BY <1>1 DEF Cards
<1>3. put \in Cards /\ \A c \in Card : put[c] = IF c = card THEN n ELSE 0
  BY <1>2, OnlyIs
<1>4. left \in Cards /\ \A c \in Card : left[c] = g.hand[u][c] - put[c]
  <2>1. \A c \in Card : put[c] =< g.hand[u][c]
    BY <1>1, <1>2, <1>3 DEF Cards
  <2> HIDE DEF put
  <2>2. QED
    BY <1>1, <1>3, <2>1, MinusIs
<1>5. /\ pile \in Cards
      /\ card # 10 => \A c \in Card : pile[c] = g.play_stack[c] + put[c]
      /\ card = 10 => pile = NoCards
  <2> HIDE DEF put
  <2>1. QED
    BY <1>1, <1>3, PlusIs, NoCardsIs
<1>6. top \in Card \cup {Lowest}
  BY <1>1
<1>7. pile = NoCards => top = Lowest
  <2> HIDE DEF put, pile
  <2> SUFFICES ASSUME pile = NoCards, card # 10 PROVE top = Lowest
    OBVIOUS
  <2>1. \A c \in Card : g.play_stack[c] \in Nat /\ put[c] \in Nat /\ g.play_stack[c] + put[c] = 0
    BY <1>1, <1>3, <1>5, NoCardsIs DEF Cards
  <2>2. \A c \in Card : g.play_stack[c] = 0 /\ put[c] = 0
    BY <2>1
  <2>3. n = 0
    BY <1>3, <2>2
  <2>4. g.play_stack = NoCards
    BY <1>1, <2>2 DEF Cards, NoCards
  <2>5. QED
    BY <2>3, <2>4 DEF Running, Counted
<1> HIDE DEF put, left, pile, top
<1>8. p = [g EXCEPT !.hand = hand, !.play_stack = pile, !.top = top]
  BY <1>1 DEF Put, Loose, put, left, pile, top
<1>9. hand \in [User -> Cards] /\ hand[u] = left /\ \A q \in User \ {u} : hand[q] = g.hand[q]
  BY <1>1, <1>4
<1> HIDE DEF hand
<1>10. /\ p \in Loose /\ p.hand = hand /\ p.play_stack = pile /\ p.top = top
       /\ p.players = g.players /\ p.current = g.current /\ p.has_started
       /\ p.draw_stack = g.draw_stack
  BY <1>1, <1>5, <1>6, <1>8, <1>9 DEF Loose
<1>11. ASSUME NEW c \in Card
       PROVE  /\ g.hand[u][c] \in Nat /\ g.play_stack[c] \in Nat /\ g.draw_stack[c] \in Nat
              /\ put[c] \in Nat /\ put[c] =< g.hand[u][c]
              /\ Own(g, u, c) = g.hand[u][c] + g.draw_stack[c] + g.play_stack[c]
              /\ Own(p, u, c) = IF card = 10 THEN g.hand[u][c] - put[c] + g.draw_stack[c]
                                ELSE Own(g, u, c)
  <2>1. g.hand[u][c] \in Nat /\ g.play_stack[c] \in Nat /\ g.draw_stack[c] \in Nat
    BY <1>1 DEF Cards
  <2>2. put[c] \in Nat /\ put[c] =< g.hand[u][c]
    BY <1>2, <1>3, <2>1
  <2>3. Own(g, u, c) = g.hand[u][c] + g.draw_stack[c] + g.play_stack[c]
    BY DEF Own
  <2>4. Own(p, u, c) = g.hand[u][c] - put[c] + g.draw_stack[c] + pile[c]
    BY <1>4, <1>9, <1>10 DEF Own
  <2>5. pile[c] = IF card = 10 THEN 0 ELSE g.play_stack[c] + put[c]
    BY <1>5, NoCardsIs
  <2>6. QED
    BY <2>1, <2>2, <2>3, <2>4, <2>5
<1>12. Running(p)
  <2>1. \A c \in Card : Own(p, u, c) =< Own(g, u, c)
    BY <1>11
  <2>2. QED
    BY <1>7, <1>9, <1>10, <2>1, MovedRuns
<1>13. ASSUME NEW c \in Card
       PROVE  /\ Total(g, c) \in Nat /\ Total(p, c) \in Nat
              /\ Total(p, c) + Own(g, u, c) = Total(g, c) + Own(p, u, c)
  BY <1>1, <1>9, <1>10, TotalMoves
<1>14. card # 10 => \A c \in Card : Total(p, c) = Total(g, c)
  BY <1>11, <1>13
<1>15. ASSUME card = 10, NEW c \in Card
       PROVE  IF c = 10 THEN Total(p, c) =< Total(g, c)
              ELSE Total(p, c) = Total(g, c) - g.play_stack[c]
  <2>1. c # 10 => put[c] = 0
    BY <1>3, <1>15
  <2>2. /\ Own(p, u, c) = g.hand[u][c] - put[c] + g.draw_stack[c]
        /\ Own(g, u, c) = g.hand[u][c] + g.draw_stack[c] + g.play_stack[c]
        /\ g.hand[u][c] \in Nat /\ g.play_stack[c] \in Nat /\ g.draw_stack[c] \in Nat
        /\ put[c] \in Nat
    BY <1>11, <1>15
  <2>3. /\ Total(g, c) \in Nat /\ Total(p, c) \in Nat
        /\ Total(p, c) + Own(g, u, c) = Total(g, c) + Own(p, u, c)
    BY <1>13
  <2> DEFINE held == g.hand[u][c]
             pile0 == g.play_stack[c]
             draw == g.draw_stack[c]
             gone == put[c]
             old  == Total(g, c)
             new  == Total(p, c)
  <2>4. /\ held \in Nat /\ pile0 \in Nat /\ draw \in Nat /\ gone \in Nat
        /\ old \in Nat /\ new \in Nat
        /\ new + (held + draw + pile0) = old + (held - gone + draw)
    BY <2>2, <2>3
  <2> HIDE DEF held, pile0, draw, gone, old, new
  <2>5. new = old - pile0 - gone
    BY <2>4
  <2>6. IF c = 10 THEN new =< old ELSE new = old - pile0
    <3>1. c # 10 => gone = 0
      BY <2>1 DEF gone
    <3>2. QED
      BY <2>4, <2>5, <3>1
  <2>7. QED
    BY <2>6 DEF pile0, old, new
<1>16. QED
  BY <1>5, <1>9, <1>10, <1>12, <1>14, <1>15

\* Cards d go from the draw stack to u's hand.
MovedTo(g, u, d, r) ==
  r = [g EXCEPT !.hand[u] = Plus(@, d), !.draw_stack = Minus(@, d)]

LEMMA MovedToIs ==
  ASSUME NEW g, Running(g), NEW u \in g.players, NEW d \in Cards,
         \A c \in Card : d[c] =< g.draw_stack[c], NEW r, MovedTo(g, u, d, r)
  PROVE  /\ Running(r)
         /\ r.players = g.players /\ r.current = g.current
         /\ r.hand[u] \in Cards /\ Size(r.hand[u]) = Size(g.hand[u]) + Size(d)
         /\ \A q \in User \ {u} : r.hand[q] = g.hand[q]
         /\ r.draw_stack \in Cards /\ Size(r.draw_stack) = Size(g.draw_stack) - Size(d)
         /\ g.draw_stack = NoCards => r.draw_stack = NoCards
         /\ r.play_stack = g.play_stack
         /\ \A c \in Card : Total(r, c) = Total(g, c)
<1> DEFINE more == Plus(g.hand[u], d)
           hand == [g.hand EXCEPT ![u] = more]
           rest == Minus(g.draw_stack, d)
<1>1. /\ g \in Loose /\ u \in User /\ g.hand \in [User -> Cards] /\ g.hand[u] \in Cards
      /\ g.play_stack \in Cards /\ g.draw_stack \in Cards /\ g.has_started
  BY DEF Running, Loose
<1>2. /\ more \in Cards /\ \A c \in Card : more[c] = g.hand[u][c] + d[c]
      /\ Size(more) = Size(g.hand[u]) + Size(d)
  BY <1>1, PlusIs
<1>3. /\ rest \in Cards /\ \A c \in Card : rest[c] = g.draw_stack[c] - d[c]
      /\ Size(rest) = Size(g.draw_stack) - Size(d)
  BY <1>1, MinusIs
<1> HIDE DEF more, rest
<1>4. r = [g EXCEPT !.hand = hand, !.draw_stack = rest]
  BY <1>1 DEF MovedTo, Loose, more, rest
<1>5. hand \in [User -> Cards] /\ hand[u] = more /\ \A q \in User \ {u} : hand[q] = g.hand[q]
  BY <1>1, <1>2
<1> HIDE DEF hand
<1>6. /\ r \in Loose /\ r.hand = hand /\ r.draw_stack = rest /\ r.play_stack = g.play_stack
      /\ r.players = g.players /\ r.current = g.current /\ r.has_started /\ r.top = g.top
  BY <1>1, <1>3, <1>4, <1>5 DEF Loose
<1>7. ASSUME NEW c \in Card PROVE Own(r, u, c) = Own(g, u, c) /\ Own(g, u, c) \in Nat
  <2>1. /\ g.hand[u][c] \in Nat /\ g.play_stack[c] \in Nat /\ g.draw_stack[c] \in Nat
        /\ d[c] \in Nat
    BY <1>1 DEF Cards
  <2>2. QED
    BY <1>2, <1>3, <1>5, <1>6, <2>1 DEF Own
<1>8. Running(r)
  <2>1. \A c \in Card : Own(r, u, c) =< Own(g, u, c)
    BY <1>7
  <2>2. r.play_stack = NoCards => r.top = Lowest
    BY <1>6 DEF Running, Counted
  <2>3. QED
    BY <1>5, <1>6, <2>1, <2>2, MovedRuns
<1>9. ASSUME NEW c \in Card PROVE Total(r, c) = Total(g, c)
  <2>1. /\ Total(g, c) \in Nat /\ Total(r, c) \in Nat
        /\ Total(r, c) + Own(g, u, c) = Total(g, c) + Own(r, u, c)
    BY <1>1, <1>5, <1>6, TotalMoves
  <2>2. QED
    BY <1>7, <2>1
<1>10. g.draw_stack = NoCards => rest = NoCards
  <2> SUFFICES ASSUME g.draw_stack = NoCards PROVE rest = NoCards
    OBVIOUS
  <2>1. \A c \in Card : d[c] \in Nat /\ d[c] =< 0 /\ rest[c] = 0 - d[c]
    BY <1>3, NoCardsIs DEF Cards
  <2>2. \A c \in Card : rest[c] = 0
    BY <2>1
  <2>3. QED
    BY <1>3, <2>2 DEF Cards, NoCards
<1>11. QED
  BY <1>2, <1>3, <1>5, <1>6, <1>8, <1>9, <1>10

\* A refill moves cards from the draw stack to u's hand, and leaves a draw stack
\* only if the hand is full.
LEMMA RefilledIs ==
  ASSUME NEW g, Running(g), NEW u \in g.players, NEW r \in Refilled(g, u)
  PROVE  /\ Running(r)
         /\ r.players = g.players /\ r.current = g.current
         /\ \A q \in User \ {u} : r.hand[q] = g.hand[q]
         /\ r.play_stack = g.play_stack
         /\ r.draw_stack # NoCards =>
              g.draw_stack # NoCards /\ Size(r.hand[u]) >= MIN_IN_HAND
         /\ \A c \in Card : Total(r, c) = Total(g, c)
<1> DEFINE held    == Size(g.hand[u])
           missing == IF held < MIN_IN_HAND THEN MIN_IN_HAND - held ELSE 0
           n       == IF missing < Size(g.draw_stack) THEN missing ELSE Size(g.draw_stack)
<1>1. PICK d \in Drawn(g.draw_stack, n) :
        r = [g EXCEPT !.hand[u] = Plus(@, d), !.draw_stack = Minus(@, d)]
  BY DEF Refilled
<1>2. /\ g \in Loose /\ u \in User /\ g.hand \in [User -> Cards] /\ g.hand[u] \in Cards
      /\ g.draw_stack \in Cards /\ g.has_started
  BY DEF Running, Loose
<1>3. d \in Cards /\ Size(d) = n /\ \A c \in Card : d[c] =< g.draw_stack[c]
  BY DrawnIs
<1>4. MovedTo(g, u, d, r)
  BY <1>1, <1>2 DEF MovedTo
<1>5. held \in Nat /\ Size(g.draw_stack) \in Nat /\ MIN_IN_HAND \in Nat
  BY <1>2, SizeIs, CountAssumption
<1>6. /\ Size(r.hand[u]) = held + n
      /\ r.draw_stack \in Cards /\ Size(r.draw_stack) = Size(g.draw_stack) - n
      /\ g.draw_stack = NoCards => r.draw_stack = NoCards
  BY <1>3, <1>4, MovedToIs
<1>7. r.draw_stack # NoCards => Size(r.draw_stack) # 0
  BY <1>6, SizeIs
<1>8. r.draw_stack # NoCards => Size(r.hand[u]) >= MIN_IN_HAND
  <2> SUFFICES ASSUME r.draw_stack # NoCards PROVE held + n >= MIN_IN_HAND
    BY <1>6
  <2>1. Size(g.draw_stack) - n # 0
    BY <1>6, <1>7
  <2>2. QED
    BY <1>5, <2>1
<1>9. QED
  BY <1>3, <1>4, <1>6, <1>8, MovedToIs

\* Passing the turn on and taking a player without cards out of the game: the
\* turn is with the player's neighbour.
LEMMA FinishIs ==
  ASSUME NEW g, Running(g), NEW u, u = g.current, NEW f, f = Finish(g, u)
  PROVE  /\ f \in Loose /\ Counted(f) /\ f.has_started
         /\ f.players = IF g.hand[u] = NoCards THEN g.players \ {u} ELSE g.players
         /\ f.current = NextIn(g.players, u)
         /\ f.current \in f.players /\ f.current # u
         /\ SameCards(g, f)
         /\ \A c \in Card : Total(f, c) = Total(g, c)
<1> DEFINE t == TurnNext(g)
<1>1. /\ Running(t) /\ SameCards(g, t) /\ t.players = g.players
      /\ t.current = NextIn(g.players, u) /\ t.current # u
  BY TurnNextIs
<1>2. f = IF t.hand[u] = NoCards THEN Remove(t, u) ELSE t
  BY <1>1 DEF Finish
<1> HIDE DEF t
<1>3. /\ g \in Loose /\ u \in User /\ u \in g.players
      /\ t \in Loose /\ Counted(t) /\ t.has_started /\ t.current \in t.players
  BY <1>1 DEF Running, Loose
<1>4. t.hand[u] = g.hand[u]
  BY <1>1, <1>3 DEF SameCards
<1>5. CASE g.hand[u] # NoCards
  <2>1. f = t
    BY <1>2, <1>4, <1>5
  <2>2. \A c \in Card : Total(f, c) = Total(g, c)
    BY <1>1, <1>3, <2>1, SameTotal
  <2>3. QED
    BY <1>1, <1>3, <1>5, <2>1, <2>2
<1>6. CASE g.hand[u] = NoCards
  <2>1. f = Remove(t, u)
    BY <1>2, <1>4, <1>6
  <2>2. /\ f \in Loose /\ Counted(f) /\ f.players = t.players \ {u}
        /\ f.has_started = t.has_started /\ f.current = t.current
        /\ f.hand[u] = NoCards /\ \A q \in User \ {u} : f.hand[q] = t.hand[q]
        /\ f.draw_stack = t.draw_stack /\ f.play_stack = t.play_stack /\ f.top = t.top
    <3>1. u # t.current
      BY <1>1
    <3>2. f \in Loose
      BY <1>3, <2>1, <3>1, RemoveIs
    <3>3. f.players = t.players \ {u}
      BY <1>3, <2>1, <3>1, RemoveIs
    <3>4. f.has_started = t.has_started
      BY <1>3, <2>1, <3>1, RemoveIs
    <3>5. f.current = t.current
      BY <1>3, <2>1, <3>1, RemoveIs
    <3>6. f.hand[u] = NoCards /\ \A q \in User \ {u} : f.hand[q] = t.hand[q]
      BY <1>3, <2>1, <3>1, RemoveIs
    <3>7. f.draw_stack = t.draw_stack /\ f.play_stack = t.play_stack /\ f.top = t.top
      BY <1>3, <2>1, <3>1, RemoveIs
    <3>8. Counted(f)
      BY <1>3, <2>1, <3>1, RemoveIs
    <3>9. QED
      BY <3>2, <3>3, <3>4, <3>5, <3>6, <3>7, <3>8
  <2>3. SameCards(g, f)
    BY <1>1, <1>6, <2>2 DEF SameCards
  <2>4. \A c \in Card : Total(f, c) = Total(g, c)
    BY <1>3, <2>2, <2>3, SameTotal
  <2>5. QED
    BY <1>1, <1>3, <1>6, <2>2, <2>3, <2>4
<1>7. QED
  BY <1>5, <1>6

\* A game that goes on after an update has enough players.
LEMMA UpdateIs ==
  ASSUME NEW f, f \in Loose, Counted(f), f.has_started,
         f.players # {} => f.current \in f.players,
         NEW h, h = ProcessGameUpdate(f, NoGame)
  PROVE  h = NoGame \/ (h = f /\ Running(f))
<1>1. f.players \subseteq User
  BY DEF Loose
<1>2. CASE Cardinality(f.players) >= MIN_PLAYERS
  <2>1. h = f /\ Cardinality(f.players) >= 2
    BY <1>2, PlayersAssumption DEF ProcessGameUpdate
  <2>2. f.players # {}
    BY <1>1, <1>2, EnoughIsSome
  <2>3. QED
    BY <2>1, <2>2 DEF Running
<1>3. CASE ~(Cardinality(f.players) >= MIN_PLAYERS)
  BY <1>3 DEF ProcessGameUpdate
<1>4. QED
  BY <1>2, <1>3

-----------------------------------------------------------------------------
(* The inductive invariant                                                 *)

\* Every player has cards, and enough of them while there is a draw stack.
Fed(g) ==
  \A q \in g.players :
    /\ g.hand[q] # NoCards
    /\ g.draw_stack # NoCards => Size(g.hand[q]) >= MIN_IN_HAND

Sound(g) ==
  /\ g \in Loose
  /\ Counted(g)
  /\ Lobby(g)
  /\ g.has_started => Running(g) /\ Fed(g)

Inv == Sound(game)

\* A running game whose players are fed is sound.
LEMMA RunningIsSound ==
  ASSUME NEW g, Running(g), Fed(g)
  PROVE  Sound(g)
BY DEF Running, Sound, Lobby

LEMMA NoGameIsSound == Sound(NoGame)
BY NoGameIs DEF Sound

LEMMA Holder ==
  ASSUME Inv, NEW u \in User, HasTurn(game, u)
  PROVE  /\ Running(game) /\ Fed(game) /\ game \in Loose
         /\ u \in game.players /\ game.current = u /\ game.has_started
BY DEF Inv, Sound, HasTurn

LEMMA JoinOK ==
  ASSUME Inv, NEW u \in User, Join(u)
  PROVE  Inv'
<1>1. /\ game \in Loose /\ Counted(game) /\ Lobby(game) /\ ~game.has_started
      /\ game' = [game EXCEPT !.players = @ \cup {u}]
  BY DEF Inv, Sound, Join, MayAdd, AddPlayer
<1>2. /\ game' \in Loose /\ ~game'.has_started /\ game'.players = game.players \cup {u}
      /\ game'.current = game.current /\ SameCards(game, game')
  BY <1>1 DEF Loose, SameCards
<1>3. \A c \in Card : Total(game', c) = Total(game, c)
  BY <1>1, <1>2, SameTotal
<1>4. Counted(game') /\ Lobby(game')
  BY <1>1, <1>2, <1>3 DEF Counted, Lobby, SameCards
<1>5. QED
  BY <1>2, <1>4 DEF Inv, Sound

\* What is left of a game when u is removed and it is updated.
LEMMA LeaveIs ==
  ASSUME Inv, NEW u \in User, Leave(u)
  PROVE  \/ game' = NoGame
         \/ /\ Sound(game')
            /\ game' = Remove(game, u)
            /\ game.has_started => Running(game) /\ Running(game')
<1> DEFINE r == Remove(game, u)
<1>1. game \in Loose /\ Counted(game) /\ Lobby(game) /\ game' = ProcessGameUpdate(r, NoGame)
  BY DEF Inv, Sound, Leave
<1>2. /\ r \in Loose /\ Counted(r)
      /\ r.players = game.players \ {u} /\ r.has_started = game.has_started
      /\ u = game.current => u \notin game.players \/ r.current = NextIn(game.players, u)
      /\ u # game.current \/ u \notin game.players => r.current = game.current
      /\ \A q \in User \ {u} : r.hand[q] = game.hand[q]
      /\ r.draw_stack = game.draw_stack /\ r.play_stack = game.play_stack
  BY <1>1, RemoveIs
<1>3. CASE game.has_started
  <2>1. Running(game) /\ Fed(game) /\ game.players \subseteq User /\ game.current \in game.players
    BY <1>3 DEF Inv, Sound, Running, Loose
  <2>2. r.players # {} => r.current \in r.players
    <3> SUFFICES ASSUME r.players # {} PROVE r.current \in r.players
      OBVIOUS
    <3>1. CASE u = game.current
      <4>1. game.players # {u} /\ u \in game.players
        BY <1>2, <2>1, <3>1
      <4>2. NextIn(game.players, u) \in game.players \ {u}
        BY <2>1, <4>1, NextIsOther
      <4>3. QED
        BY <1>2, <3>1, <4>1, <4>2
    <3>2. CASE u # game.current
      BY <1>2, <2>1, <3>2
    <3>3. QED
      BY <3>1, <3>2
  <2> HIDE DEF r
  <2>3. game' = NoGame \/ (game' = r /\ Running(r))
    BY <1>1, <1>2, <1>3, <2>2, UpdateIs
  <2>4. Fed(r)
    BY <1>2, <2>1 DEF Fed
  <2>5. QED
    BY <2>1, <2>3, <2>4, RunningIsSound DEF r
<1>4. CASE ~game.has_started
  <2>1. Sound(r)
    <3>1. game.current = NoUser /\ game.play_stack = NoCards /\ u # NoUser /\ ~r.has_started
      BY <1>1, <1>2, <1>4, UserAssumption DEF Lobby, NoUser
    <3>2. Lobby(r)
      BY <1>2, <3>1 DEF Lobby
    <3>3. QED
      BY <1>2, <3>1, <3>2 DEF Sound
  <2>2. game' \in {r, NoGame}
    BY <1>1 DEF ProcessGameUpdate
  <2>3. QED
    BY <1>4, <2>1, <2>2
<1>5. QED
  BY <1>3, <1>4

LEMMA LeaveOK ==
  ASSUME Inv, NEW u \in User, Leave(u)
  PROVE  Inv'
BY LeaveIs, NoGameIsSound DEF Inv

\* cmd_deal: the hands and the rest of the deck.
LEMMA DealOK ==
  ASSUME Inv, NEW u \in User, Deal(u)
  PROVE  Inv'
<1>1. PICK first \in game.players, d \in Deals(game.players) :
       game' = [StartWith(game, first) EXCEPT
                 !.hand = [p \in User |-> IF p \in game.players THEN d[p] ELSE NoCards],
                 !.draw_stack =
                   [c \in Card |-> NUM_PER_FACE - InHands(d, game.players, c)]]
  BY DEF Deal
<1> DEFINE S    == game.players
           hand == [p \in User |-> IF p \in S THEN d[p] ELSE NoCards]
           rest == [c \in Card |-> NUM_PER_FACE - InHands(d, S, c)]
<1>2. /\ game \in Loose /\ Counted(game) /\ Lobby(game)
      /\ ~game.has_started /\ S \subseteq User /\ Cardinality(S) >= 2
  BY PlayersAssumption DEF Inv, Sound, Deal, MayStart, Loose
<1>3. \A p \in S : d[p] \in Cards /\ Size(d[p]) = MIN_IN_HAND
  <2>1. \A p \in S : d[p] \in Drawn(Deck, MIN_IN_HAND)
    BY DEF Deals
  <2>2. QED
    BY <2>1, DrawnIs
<1>4. /\ hand \in [User -> Cards] /\ \A p \in S : hand[p] = d[p]
      /\ \A p \in User \ S : hand[p] = NoCards
  BY <1>2, <1>3, NoCardsIs
<1>5. \A c \in Card : InHands(hand, User, c) = InHands(d, S, c)
  <2> HIDE DEF hand
  <2>1. QED
    BY <1>2, <1>4, InHandsOfPlayers
<1>6. ASSUME NEW c \in Card
      PROVE  InHands(hand, User, c) \in Nat /\ InHands(hand, User, c) =< NUM_PER_FACE
  <2>1. InHands(d, S, c) =< NUM_PER_FACE
    BY DEF Deals
  <2> HIDE DEF hand
  <2>2. QED
    BY <1>4, <1>5, <2>1, InHandsIs
<1>7. rest \in Cards /\ \A c \in Card : rest[c] + InHands(hand, User, c) = NUM_PER_FACE
  <2>1. \A c \in Card : rest[c] = NUM_PER_FACE - InHands(hand, User, c)
    BY <1>5
  <2> HIDE DEF hand
  <2>2. \A c \in Card : rest[c] \in Nat /\ rest[c] + InHands(hand, User, c) = NUM_PER_FACE
    BY <1>6, <2>1, CountAssumption
  <2>3. QED
    BY <2>2 DEF Cards
<1> HIDE DEF hand, rest
<1>8. game' = [game EXCEPT !.has_started = TRUE, !.current = first,
                           !.hand = hand, !.draw_stack = rest]
  BY <1>1 DEF StartWith, hand, rest
<1>9. /\ game' \in Loose /\ game'.has_started /\ game'.current = first /\ game'.players = S
      /\ game'.hand = hand /\ game'.draw_stack = rest /\ game'.play_stack = game.play_stack
      /\ game'.top = game.top
  BY <1>2, <1>4, <1>7, <1>8 DEF Loose
<1>10. Counted(game')
  <2>1. \A c \in Card : game.play_stack[c] = 0
    BY <1>2, NoCardsIs DEF Lobby
  <2>2. ASSUME NEW c \in Card PROVE Total(game', c) =< NUM_PER_FACE
    <3>1. Total(game', c) = InHands(hand, User, c) + rest[c] + 0
      BY <1>9, <2>1 DEF Total
    <3>2. rest[c] \in Nat
      BY <1>7 DEF Cards
    <3>3. QED
      BY <1>6, <1>7, <3>1, <3>2, CountAssumption
  <2>3. QED
    BY <1>2, <1>4, <1>9, <2>2 DEF Counted
<1>11. Fed(game')
  <2>1. ASSUME NEW p \in S PROVE hand[p] # NoCards /\ Size(hand[p]) >= MIN_IN_HAND
    <3>1. hand[p] \in Cards /\ Size(hand[p]) = MIN_IN_HAND
      BY <1>3, <1>4
    <3>2. MIN_IN_HAND \in Nat /\ MIN_IN_HAND # 0
      BY CountAssumption
    <3>3. QED
      BY <3>1, <3>2, SizeIs
  <2>2. QED
    BY <1>9, <2>1 DEF Fed
<1>12. QED
  BY <1>2, <1>9, <1>10, <1>11, RunningIsSound DEF Inv, Running

\* What cmd_play does, between the refill and the update.
LEMMA PlayIs ==
  ASSUME Inv, NEW u \in User, Play(u)
  PROVE  \E card, f :
           /\ card \in Card
           /\ f \in Loose /\ Counted(f) /\ f.has_started
           /\ f.players \in {game.players, game.players \ {u}}
           /\ f.current = NextIn(game.players, u)
           /\ f.current \in f.players /\ f.current # u
           /\ game' = ProcessGameUpdate(f, NoGame)
           /\ Fed(f)
           /\ card # 10 => \A c \in Card : Total(f, c) = Total(game, c)
           /\ card = 10 => /\ f.play_stack = NoCards
                           /\ \A c \in Card :
                                IF c = 10 THEN Total(f, c) =< Total(game, c)
                                ELSE Total(f, c) = Total(game, c) - game.play_stack[c]
<1>1. /\ Running(game) /\ Fed(game) /\ u \in game.players /\ game.current = u
      /\ game.players \subseteq User
  BY Holder DEF Play, Loose
<1>2. PICK card \in Card : \E n \in 0..game.hand[u][card] :
        \E full \in Refilled(Put(game, u, card, n), u) :
          game' = ProcessGameUpdate(Finish(full, u), NoGame)
  BY DEF Play
<1>20. PICK n \in 0..game.hand[u][card] :
        \E full \in Refilled(Put(game, u, card, n), u) :
          game' = ProcessGameUpdate(Finish(full, u), NoGame)
  BY <1>2
<1> DEFINE p == Put(game, u, card, n)
<1>3. PICK full \in Refilled(p, u) : game' = ProcessGameUpdate(Finish(full, u), NoGame)
  BY <1>20
<1>4. /\ Running(p) /\ p.players = game.players /\ p.current = game.current
      /\ \A q \in User \ {u} : p.hand[q] = game.hand[q]
      /\ p.draw_stack = game.draw_stack
      /\ card # 10 => \A c \in Card : Total(p, c) = Total(game, c)
      /\ card = 10 => /\ p.play_stack = NoCards
                      /\ \A c \in Card :
                           IF c = 10 THEN Total(p, c) =< Total(game, c)
                           ELSE Total(p, c) = Total(game, c) - game.play_stack[c]
  BY <1>1, PutIs
<1> HIDE DEF p
<1>5. /\ Running(full) /\ full.players = game.players /\ full.current = u
      /\ \A q \in User \ {u} : full.hand[q] = game.hand[q]
      /\ full.play_stack = p.play_stack
      /\ full.draw_stack # NoCards =>
           game.draw_stack # NoCards /\ Size(full.hand[u]) >= MIN_IN_HAND
      /\ \A c \in Card : Total(full, c) = Total(p, c)
  BY <1>1, <1>4, RefilledIs
<1> DEFINE f == Finish(full, u)
<1>6. /\ f \in Loose /\ Counted(f) /\ f.has_started
      /\ f.players = IF full.hand[u] = NoCards THEN game.players \ {u} ELSE game.players
      /\ f.current = NextIn(game.players, u)
      /\ f.current \in f.players /\ f.current # u
      /\ SameCards(full, f)
      /\ \A c \in Card : Total(f, c) = Total(full, c)
  BY <1>5, FinishIs
<1>7. game' = ProcessGameUpdate(f, NoGame)
  BY <1>3
<1> HIDE DEF f
<1>8. Fed(f)
  <2>1. ASSUME NEW q \in f.players
        PROVE  /\ f.hand[q] # NoCards
               /\ f.draw_stack # NoCards => Size(f.hand[q]) >= MIN_IN_HAND
    <3>1. q \in User /\ q \in game.players /\ f.hand[q] = full.hand[q]
          /\ f.draw_stack = full.draw_stack
      BY <1>1, <1>6 DEF SameCards
    <3>2. CASE q = u
      BY <1>5, <1>6, <3>1, <3>2
    <3>3. CASE q # u
      BY <1>1, <1>5, <3>1, <3>3 DEF Fed
    <3>4. QED
      BY <3>2, <3>3
  <2>2. QED
    BY <2>1 DEF Fed
<1>9. f.play_stack = p.play_stack
  BY <1>5, <1>6 DEF SameCards
<1>10. QED
  BY <1>4, <1>5, <1>6, <1>7, <1>8, <1>9

LEMMA PlayOK ==
  ASSUME Inv, NEW u \in User, Play(u)
  PROVE  Inv'
<1>1. PICK f :
        /\ f \in Loose /\ Counted(f) /\ f.has_started /\ f.current \in f.players
        /\ game' = ProcessGameUpdate(f, NoGame) /\ Fed(f)
  BY PlayIs
<1>2. game' = NoGame \/ (game' = f /\ Running(f))
  BY <1>1, UpdateIs
<1>3. QED
  BY <1>1, <1>2, RunningIsSound, NoGameIsSound DEF Inv

\* cmd_draw: a card for the hand, and the turn passes on.
LEMMA DrawIs ==
  ASSUME Inv, NEW u \in User, Draw(u)
  PROVE  /\ Running(game') /\ Fed(game')
         /\ game'.players = game.players
         /\ game'.current = NextIn(game.players, u)
         /\ \A c \in Card : Total(game', c) = Total(game, c)
<1>1. /\ Running(game) /\ Fed(game) /\ game \in Loose /\ u \in game.players /\ game.current = u
  BY Holder DEF Draw
<1>2. PICK d \in Drawn(game.draw_stack, 1) :
        game' = TurnNext([game EXCEPT !.hand[u] = Plus(@, d), !.draw_stack = Minus(@, d)])
  BY DEF Draw
<1> DEFINE h == [game EXCEPT !.hand[u] = Plus(@, d), !.draw_stack = Minus(@, d)]
<1>3. MovedTo(game, u, d, h)
  BY DEF MovedTo
<1>4. game' = TurnNext(h)
  BY <1>2
<1> HIDE DEF h
<1>5. d \in Cards /\ Size(d) = 1 /\ \A c \in Card : d[c] =< game.draw_stack[c]
  BY DrawnIs
<1>6. /\ Running(h) /\ h.players = game.players /\ h.current = u
      /\ h.hand[u] \in Cards /\ Size(h.hand[u]) = Size(game.hand[u]) + 1
      /\ \A q \in User \ {u} : h.hand[q] = game.hand[q]
      /\ game.draw_stack = NoCards => h.draw_stack = NoCards
      /\ \A c \in Card : Total(h, c) = Total(game, c)
  BY <1>1, <1>3, <1>5, MovedToIs
<1>7. /\ Running(game') /\ SameCards(h, game') /\ game'.players = h.players
      /\ game'.current = NextIn(h.players, h.current)
  BY <1>4, <1>6, TurnNextIs
<1>8. \A c \in Card : Total(game', c) = Total(h, c)
  BY <1>6, <1>7, SameTotal DEF Running
<1>9. ASSUME NEW q \in game.players
      PROVE  /\ game'.hand[q] # NoCards
             /\ game'.draw_stack # NoCards => Size(game'.hand[q]) >= MIN_IN_HAND
  <2>1. /\ q \in User /\ game'.hand[q] = h.hand[q] /\ game'.draw_stack = h.draw_stack
        /\ game.hand[q] \in Cards
    BY <1>1, <1>7 DEF SameCards, Loose
  <2>2. CASE q # u
    BY <1>1, <1>6, <2>1, <2>2 DEF Fed
  <2>3. CASE q = u
    <3>1. Size(game.hand[u]) \in Nat
      BY <2>1, <2>3, SizeIs
    <3>2. h.hand[u] # NoCards
      BY <1>6, <3>1, SizeIs
    <3>3. game'.draw_stack # NoCards => Size(game.hand[u]) >= MIN_IN_HAND
      BY <1>1, <1>6, <2>1 DEF Fed
    <3>4. game'.draw_stack # NoCards => Size(h.hand[u]) >= MIN_IN_HAND
      BY <1>6, <3>1, <3>3, CountAssumption
    <3>5. QED
      BY <2>1, <2>3, <3>2, <3>4
  <2>4. QED
    BY <2>2, <2>3
<1>10. Fed(game')
  BY <1>6, <1>7, <1>9 DEF Fed
<1>11. QED
  BY <1>6, <1>7, <1>8, <1>10

\* cmd_take_stack: the pile for the hand, and the turn passes on.
LEMMA TakeStackIs ==
  ASSUME Inv, NEW u \in User, TakeStack(u)
  PROVE  /\ Running(game') /\ Fed(game')
         /\ game'.players = game.players
         /\ game'.current = NextIn(game.players, u)
         /\ \A c \in Card : Total(game', c) = Total(game, c)
<1> DEFINE more == Plus(game.hand[u], game.play_stack)
           hand == [game.hand EXCEPT ![u] = more]
           h    == [game EXCEPT !.hand = hand, !.play_stack = NoCards, !.top = Lowest]
<1>1. /\ Running(game) /\ Fed(game) /\ game \in Loose /\ u \in game.players /\ game.current = u
      /\ u \in User /\ game.has_started
  BY Holder DEF TakeStack
<1>2. /\ game.hand \in [User -> Cards] /\ game.hand[u] \in Cards /\ game.play_stack \in Cards
      /\ game.draw_stack \in Cards
  BY <1>1 DEF Loose
<1>3. /\ more \in Cards /\ \A c \in Card : more[c] = game.hand[u][c] + game.play_stack[c]
      /\ Size(more) = Size(game.hand[u]) + Size(game.play_stack)
  BY <1>2, PlusIs
<1>4. game' = TurnNext(h)
  BY <1>1 DEF TakeStack, Loose
<1> HIDE DEF more
<1>5. hand \in [User -> Cards] /\ hand[u] = more /\ \A q \in User \ {u} : hand[q] = game.hand[q]
  BY <1>2, <1>3
<1> HIDE DEF hand
<1>6. /\ h \in Loose /\ h.has_started /\ h.players = game.players /\ h.current = game.current
      /\ h.hand = hand /\ h.play_stack = NoCards /\ h.top = Lowest
      /\ h.draw_stack = game.draw_stack
  BY <1>1, <1>5, NoCardsIs DEF Loose
<1> HIDE DEF h
<1>7. ASSUME NEW c \in Card PROVE Own(h, u, c) = Own(game, u, c) /\ Own(h, u, c) \in Nat
  <2>1. /\ game.hand[u][c] \in Nat /\ game.play_stack[c] \in Nat /\ game.draw_stack[c] \in Nat
    BY <1>2 DEF Cards
  <2>2. Own(h, u, c) = more[c] + game.draw_stack[c] + 0
    BY <1>5, <1>6, NoCardsIs DEF Own
  <2>3. QED
    BY <1>3, <2>1, <2>2 DEF Own
<1>8. Running(h)
  <2>1. \A c \in Card : Own(h, u, c) =< Own(game, u, c)
    BY <1>7
  <2>2. \A q \in User \ {u} : h.hand[q] = game.hand[q]
    BY <1>5, <1>6
  <2>3. QED
    BY <1>1, <1>6, <2>1, <2>2, MovedRuns
<1>9. ASSUME NEW c \in Card PROVE Total(h, c) = Total(game, c)
  <2>1. /\ Total(game, c) \in Nat /\ Total(h, c) \in Nat
        /\ Total(h, c) + Own(game, u, c) = Total(game, c) + Own(h, u, c)
    BY <1>1, <1>5, <1>6, TotalMoves
  <2>2. QED
    BY <1>7, <2>1
<1>10. /\ Running(game') /\ SameCards(h, game') /\ game'.players = h.players
       /\ game'.current = NextIn(h.players, h.current)
  BY <1>4, <1>8, TurnNextIs
<1>11. \A c \in Card : Total(game', c) = Total(h, c)
  BY <1>6, <1>10, SameTotal DEF Running
<1>12. ASSUME NEW q \in game.players
       PROVE  /\ game'.hand[q] # NoCards
              /\ game'.draw_stack # NoCards => Size(game'.hand[q]) >= MIN_IN_HAND
  <2>1. /\ q \in User /\ game'.hand[q] = hand[q] /\ game'.draw_stack = game.draw_stack
    BY <1>1, <1>6, <1>10 DEF SameCards, Loose
  <2>2. CASE q # u
    BY <1>1, <1>5, <2>1, <2>2 DEF Fed
  <2>3. CASE q = u
    <3>1. Size(game.hand[u]) \in Nat /\ Size(game.play_stack) \in Nat
      BY <1>2, SizeIs
    <3>2. game.hand[u] # NoCards
      BY <1>1 DEF Fed
    <3>3. Size(game.hand[u]) # 0
      BY <1>2, <3>2, SizeIs
    <3>4. Size(more) # 0
      BY <1>3, <3>1, <3>3
    <3>5. more # NoCards
      BY <1>3, <3>4, SizeIs
    <3>6. game'.draw_stack # NoCards => Size(game.hand[u]) >= MIN_IN_HAND
      BY <1>1, <2>1 DEF Fed
    <3>7. game'.draw_stack # NoCards => Size(more) >= MIN_IN_HAND
      BY <1>3, <3>1, <3>6, CountAssumption
    <3>8. QED
      BY <1>5, <2>1, <2>3, <3>5, <3>7
  <2>4. QED
    BY <2>2, <2>3
<1>13. Fed(game')
  BY <1>6, <1>10, <1>12 DEF Fed
<1>14. QED
  BY <1>1, <1>6, <1>9, <1>10, <1>11, <1>13

LEMMA StepOK == Inv /\ [Next]_vars => Inv'
<1> SUFFICES ASSUME Inv, [Next]_vars PROVE Inv'
  OBVIOUS
<1>1. ASSUME NEW u \in User, Join(u) PROVE Inv'
  BY <1>1, JoinOK
<1>2. ASSUME NEW u \in User, Leave(u) PROVE Inv'
  BY <1>2, LeaveOK
<1>3. ASSUME NEW u \in User, Deal(u) PROVE Inv'
  BY <1>3, DealOK
<1>4. ASSUME NEW u \in User, DealBroken(u) PROVE Inv'
  BY <1>4, NoGameIsSound DEF DealBroken, Inv
<1>5. ASSUME NEW u \in User, Play(u) PROVE Inv'
  BY <1>5, PlayOK
<1>6. ASSUME NEW u \in User, Draw(u) PROVE Inv'
  BY <1>6, DrawIs, RunningIsSound DEF Inv
<1>7. ASSUME NEW u \in User, TakeStack(u) PROVE Inv'
  BY <1>7, TakeStackIs, RunningIsSound DEF Inv
<1>8. CASE Forget
  BY <1>8, NoGameIsSound DEF Forget, Inv
<1>9. CASE UNCHANGED vars
  BY <1>9 DEF vars, Inv
<1>10. QED
  BY <1>1, <1>2, <1>3, <1>4, <1>5, <1>6, <1>7, <1>8, <1>9 DEF Next

LEMMA Invariance == Spec => []Inv
<1>1. Init => Inv
  BY NoGameIsSound DEF Init, Inv
<1>2. QED
  BY <1>1, StepOK, PTL DEF Spec

\* The types, with the deck's bounds: no hand, pile or draw stack ever has more
\* cards of a rank than there are.
THEOREM TypeCorrect == Spec => []TypeOK
<1>1. Inv => TypeOK
  BY CountedIsTyped DEF Inv, Sound, TypeOK
<1>2. QED
  BY <1>1, Invariance, PTL

\* A player keeps MIN_IN_HAND cards as long as there is a draw stack, whatever
\* the others do in between (comment of SPlayer::MIN_IN_HAND).
THEOREM FullHands == Spec => []HandsAreFull
<1>1. Inv => HandsAreFull
  BY DEF Inv, Sound, Fed, HandsAreFull
<1>2. QED
  BY <1>1, Invariance, PTL

\* Who has put down the last card leaves the game in the same step, so that the
\* turn never comes to a player without cards.
THEOREM FinishedPlayersGo == Spec => []FinishedPlayersAreGone
<1>1. Inv => FinishedPlayersAreGone
  BY DEF Inv, Sound, Fed, FinishedPlayersAreGone
<1>2. QED
  BY <1>1, Invariance, PTL

\* Whose turn it is has a move: without a draw stack and a pile any card may be
\* put down, and there is one.
THEOREM SomethingToDo == Spec => []NobodyIsStuck
<1>1. Inv => NobodyIsStuck
  <2> SUFFICES ASSUME Inv, game.has_started, game.play_stack = NoCards
               PROVE  \E c \in Card : game.hand[game.current][c] > 0 /\ Playable(game.top, c)
    BY DEF NobodyIsStuck
  <2>1. /\ game.top = Lowest /\ game.current \in User
        /\ game.hand[game.current] \in Cards /\ game.hand[game.current] # NoCards
    BY DEF Inv, Sound, Running, Counted, Fed, Loose
  <2>2. PICK c \in Card : game.hand[game.current][c] # 0
    BY <2>1 DEF Cards, NoCards
  <2>3. game.hand[game.current][c] > 0
    BY <2>1, <2>2 DEF Cards
  <2>4. c >= Lowest /\ Lowest # 7
    BY CardAssumption DEF Lowest
  <2>5. Playable(game.top, c)
    BY <2>1, <2>4 DEF Playable
  <2>6. QED
    BY <2>3, <2>5
<1>2. QED
  BY <1>1, Invariance, PTL

\* Cards disappear only with a player who leaves or under a 10.
THEOREM CardsStay == Spec => CardsConserved
<1> DEFINE Stays ==
      game.has_started /\ game'.has_started =>
       \/ \A c \in Card : Total(game', c) = Total(game, c)
       \/ \E u \in game.players \ game'.players :
            \A c \in Card : Total(game', c) = Total(game, c) - game.hand[u][c]
       \/ /\ game'.play_stack = NoCards
          /\ \A c \in Card : IF c = 10 THEN Total(game', c) =< Total(game, c)
                            ELSE Total(game', c) = Total(game, c) - game.play_stack[c]
<1>1. ASSUME Inv, [Next]_vars PROVE Stays
  <2> SUFFICES ASSUME game.has_started, game'.has_started PROVE Stays
    OBVIOUS
  <2>0. game' # NoGame
    BY NoGameIs
  <2>1. ASSUME NEW u \in User, Leave(u) PROVE Stays
    <3>1. game' = Remove(game, u) /\ game \in Loose /\ Counted(game)
      BY <1>1, <2>0, <2>1, LeaveIs DEF Inv, Sound
    <3>2. game'.players = game.players \ {u}
      BY <3>1, RemoveIs
    <3>3. \A c \in Card : Total(game', c) = Total(game, c) - game.hand[u][c]
      BY <3>1, RemoveIs
    <3>4. CASE u \in game.players
      BY <3>2, <3>3, <3>4
    <3>5. CASE u \notin game.players
      <4>1. game.hand[u] = NoCards
        BY <3>1, <3>5 DEF Counted
      <4>2. \A c \in Card : Total(game, c) \in Nat
        BY <3>1, TotalMoves
      <4>3. \A c \in Card : Total(game', c) = Total(game, c)
        BY <3>3, <4>1, <4>2, NoCardsIs
      <4>4. QED
        BY <4>3
    <3>6. QED
      BY <3>4, <3>5
  <2>2. ASSUME NEW u \in User, Play(u) PROVE Stays
    <3>1. PICK card, f :
            /\ f \in Loose /\ Counted(f) /\ f.has_started /\ f.current \in f.players
            /\ game' = ProcessGameUpdate(f, NoGame)
            /\ card # 10 => \A c \in Card : Total(f, c) = Total(game, c)
            /\ card = 10 => /\ f.play_stack = NoCards
                            /\ \A c \in Card :
                                 IF c = 10 THEN Total(f, c) =< Total(game, c)
                                 ELSE Total(f, c) = Total(game, c) - game.play_stack[c]
      BY <1>1, <2>2, PlayIs
    <3>2. game' = f
      BY <2>0, <3>1, UpdateIs
    <3>3. QED
      BY <3>1, <3>2
  <2>3. ASSUME NEW u \in User, Draw(u) \/ TakeStack(u) PROVE Stays
    BY <1>1, <2>3, DrawIs, TakeStackIs
  <2>4. ASSUME NEW u \in User, Join(u) \/ Deal(u) \/ DealBroken(u) PROVE Stays
    BY <2>4 DEF Join, Deal, DealBroken, MayAdd, MayStart
  <2>5. CASE Forget
    BY <2>0, <2>5 DEF Forget
  <2>6. CASE UNCHANGED vars
    BY <2>6 DEF vars
  <2>7. QED
    BY <1>1, <2>1, <2>2, <2>3, <2>4, <2>5, <2>6 DEF Next
<1>2. QED
  BY <1>1, Invariance, PTL DEF Spec, CardsConserved

-----------------------------------------------------------------------------
(* Shithead is a turn-based game.                                          *)

LEMMA SameNext ==
  ASSUME NEW S, NEW u
  PROVE  AsTurnGame!Neighbour(S, u, TRUE) = NextIn(S, u)
BY DEF AsTurnGame!Neighbour, AsTurnGame!NextIn, AsTurnGame!Least, NextIn, Least

LEMMA SameCardinality ==
  ASSUME NEW S
  PROVE  AsTurnGame!Cardinality(S) = Cardinality(S)
BY DEF AsTurnGame!Cardinality, Cardinality

LEMMA NoGameEnds == game' = NoGame => AsTurnGame!End
BY DEF NoGame, AsTurnGame!End, NoUser, AsTurnGame!NoUser

\* A running game whose turn is where it was, or with the next of the players
\* left, is a turn.
LEMMA IsTurn ==
  ASSUME Running(game), NEW g, Running(g), game' = g, g.players \subseteq game.players,
         g.current \in {game.current, NextIn(g.players, game.current)}
  PROVE  AsTurnGame!Turn
<1>1. /\ game.has_started = TRUE /\ g.has_started = TRUE /\ g.dir_forwards = TRUE
      /\ g.current \in g.players /\ Cardinality(g.players) >= 2
  BY DEF Running, Loose
<1>2. g.current \in AsTurnGame!Successors(g.players, game.current, TRUE)
  BY SameNext DEF AsTurnGame!Successors
<1>3. QED
  BY <1>1, <1>2, SameCardinality, PlayersAssumption DEF AsTurnGame!Turn

LEMMA JoinImplements ==
  ASSUME Inv, NEW u \in User, Join(u)
  PROVE  AsTurnGame!Join(u)
<1>1. game \in Loose
  BY DEF Inv, Sound
<1>2. QED
  BY <1>1 DEF Join, MayAdd, AddPlayer, Loose, AsTurnGame!Join

LEMMA LeaveImplements ==
  ASSUME Inv, NEW u \in User, Leave(u)
  PROVE  AsTurnGame!LeaveLobby(u) \/ AsTurnGame!Turn \/ AsTurnGame!End
           \/ UNCHANGED AsTurnGame!vars
<1>1. CASE game' = NoGame
  BY <1>1, NoGameEnds
<1>2. CASE /\ game' = Remove(game, u)
           /\ game.has_started => Running(game) /\ Running(game')
  <2> DEFINE r == Remove(game, u)
  <2>1. game \in Loose /\ Counted(game) /\ Lobby(game)
    BY DEF Inv, Sound
  <2>2. /\ r \in Loose /\ r.players = game.players \ {u}
        /\ r.has_started = game.has_started
        /\ u = game.current => u \notin game.players \/ r.current = NextIn(game.players, u)
        /\ u # game.current \/ u \notin game.players => r.current = game.current
    BY <2>1, RemoveIs
  <2> HIDE DEF r
  <2>3. game' = r
    BY <1>2 DEF r
  <2>4. CASE game.has_started
    <3>1. Running(game) /\ Running(r) /\ game.players \subseteq User
          /\ game.current \in game.players /\ r.players # {} /\ r.current \in r.players
      BY <1>2, <2>3, <2>4 DEF Running, Loose
    <3>2. r.current \in {game.current, NextIn(r.players, game.current)}
      <4>1. CASE u # game.current
        BY <2>2, <4>1
      <4>2. CASE u = game.current
        <5>1. r.current = NextIn(game.players, u) /\ u # NextIn(game.players, u)
          BY <2>2, <3>1, <4>2
        <5>2. NextIn(game.players \ {u}, u) = NextIn(game.players, u)
          BY <3>1, <4>2, <5>1, NextWithout
        <5>3. QED
          BY <2>2, <4>2, <5>1, <5>2
      <4>3. QED
        BY <4>1, <4>2
    <3>3. QED
      BY <2>2, <2>3, <3>1, <3>2, IsTurn
  <2>5. CASE ~game.has_started
    <3>1. r.current = game.current /\ r.dir_forwards = game.dir_forwards
      <4>1. game.current = NoUser /\ u # NoUser
        BY <2>1, <2>5, UserAssumption DEF Lobby, NoUser
      <4>2. QED
        BY <2>1, <2>2, <4>1 DEF Loose
    <3>2. CASE u \in game.players
      BY <2>2, <2>3, <2>5, <3>1, <3>2 DEF AsTurnGame!LeaveLobby
    <3>3. CASE u \notin game.players
      BY <2>2, <2>3, <3>1, <3>3 DEF AsTurnGame!vars
    <3>4. QED
      BY <3>2, <3>3
  <2>6. QED
    BY <2>4, <2>5
<1>3. QED
  BY <1>1, <1>2, LeaveIs

LEMMA DealImplements ==
  ASSUME Inv, NEW u \in User, Deal(u)
  PROVE  AsTurnGame!Start
<1>1. PICK first \in game.players, d \in Deals(game.players) :
       game' = [StartWith(game, first) EXCEPT
                 !.hand = [p \in User |-> IF p \in game.players THEN d[p] ELSE NoCards],
                 !.draw_stack =
                   [c \in Card |-> NUM_PER_FACE - InHands(d, game.players, c)]]
  BY DEF Deal
<1>2. game \in Loose /\ MayStart(game)
  BY DEF Inv, Sound, Deal
<1>3. /\ game'.players = game.players /\ game'.has_started = TRUE
      /\ game'.current = first /\ game'.dir_forwards = game.dir_forwards
  BY <1>1, <1>2 DEF StartWith, Loose
<1>4. QED
  BY <1>2, <1>3, SameCardinality DEF MayStart, AsTurnGame!Start

LEMMA PlayImplements ==
  ASSUME Inv, NEW u \in User, Play(u)
  PROVE  AsTurnGame!Turn \/ AsTurnGame!End
<1>1. /\ Running(game) /\ game.current = u /\ u \in User /\ game.players \subseteq User
      /\ game.players # {}
  BY Holder DEF Play, Loose
<1>2. PICK f :
        /\ f \in Loose /\ Counted(f) /\ f.has_started
        /\ f.players \in {game.players, game.players \ {u}}
        /\ f.current = NextIn(game.players, u)
        /\ f.current \in f.players /\ f.current # u
        /\ game' = ProcessGameUpdate(f, NoGame)
  BY PlayIs
<1>3. game' = NoGame \/ (game' = f /\ Running(f))
  BY <1>2, UpdateIs
<1>4. NextIn(game.players \ {u}, u) = NextIn(game.players, u)
  BY <1>1, <1>2, NextWithout
<1>5. f.current = NextIn(f.players, u)
  BY <1>2, <1>4
<1>6. QED
  BY <1>1, <1>2, <1>3, <1>5, IsTurn, NoGameEnds

LEMMA NextImplements ==
  ASSUME Inv, [Next]_vars
  PROVE  [AsTurnGame!Next]_(AsTurnGame!vars)
<1>1. ASSUME NEW u \in User, Join(u) PROVE AsTurnGame!Next
  BY <1>1, JoinImplements DEF AsTurnGame!Next
<1>2. ASSUME NEW u \in User, Leave(u) PROVE [AsTurnGame!Next]_(AsTurnGame!vars)
  BY <1>2, LeaveImplements DEF AsTurnGame!Next
<1>3. ASSUME NEW u \in User, Deal(u) PROVE AsTurnGame!Next
  BY <1>3, DealImplements DEF AsTurnGame!Next
<1>4. ASSUME NEW u \in User, DealBroken(u) PROVE AsTurnGame!Next
  BY <1>4, NoGameEnds DEF DealBroken, AsTurnGame!Next
<1>5. ASSUME NEW u \in User, Play(u) PROVE AsTurnGame!Next
  BY <1>5, PlayImplements DEF AsTurnGame!Next
<1>6. ASSUME NEW u \in User, Draw(u) \/ TakeStack(u) PROVE AsTurnGame!Next
  <2>1. Running(game) /\ game.current = u
    BY <1>6, Holder DEF Draw, TakeStack
  <2>2. Running(game') /\ game'.players = game.players /\ game'.current = NextIn(game.players, u)
    BY <1>6, DrawIs, TakeStackIs
  <2>3. QED
    BY <2>1, <2>2, IsTurn DEF AsTurnGame!Next
<1>7. CASE Forget
  BY <1>7, NoGameEnds DEF Forget, AsTurnGame!Next
<1>8. CASE UNCHANGED vars
  BY <1>8 DEF vars, AsTurnGame!vars
<1>9. QED
  BY <1>1, <1>2, <1>3, <1>4, <1>5, <1>6, <1>7, <1>8 DEF Next

\* Shithead implements the turn-based game: although a winner is removed after
\* the turn has passed on, it is with the next of the players who are left.
THEOREM Refinement == Spec => ImplementsTurnGame
<1>1. Init => AsTurnGame!Init
  BY DEF Init, NoGame, AsTurnGame!Init, NoUser, AsTurnGame!NoUser
<1>2. QED
  BY <1>1, NextImplements, Invariance, PTL DEF Spec, ImplementsTurnGame, AsTurnGame!Spec
=============================================================================
