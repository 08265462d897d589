---------------------------- MODULE GameFProofs ----------------------------
(***************************************************************************)
(* Facts about the operations of the game framework, for any finite set of *)
(* players: the neighbours exist and are players, and passing the turn on  *)
(* or removing a player leaves the turn with a player while one is left.   *)
(* Facts about sums over finite sets, with which the games count cards.    *)
(***************************************************************************)
EXTENDS GameF, TLAPS, FiniteSetTheorems, WellFoundedInduction

\* A set of addresses has a least one: the address order is well-founded.
LEMMA LeastExists ==
  ASSUME NEW S, S \subseteq Nat, S # {}
  PROVE  /\ Least(S) \in S
         /\ \A v \in S : Least(S) =< v
<1> DEFINE R == {ss \in Nat \X Nat : ss[1] < ss[2]}
<1>1. IsWellFoundedOn(R, Nat)
  BY NatLessThanWellFounded DEF OpToRel
<1> HIDE DEF R
<1>2. \E x \in S : \A y \in S : <<y, x>> \notin R
  BY <1>1, WFMin
<1>3. \E x \in S : \A y \in S : x =< y
  <2>1. PICK x \in S : \A y \in S : <<y, x>> \notin R
    BY <1>2
  <2>2. ASSUME NEW y \in S PROVE x =< y
    <3>1. x \in Nat /\ y \in Nat
      OBVIOUS
    <3>2. ~(y < x)
      BY <2>1, <3>1 DEF R
    <3>3. QED
      BY <3>1, <3>2
  <2>3. QED
    BY <2>2
<1>4. QED
  BY <1>3 DEF Least

\* A bounded set of addresses has a greatest one.
LEMMA GreatestExists ==
  ASSUME NEW n \in Nat, NEW S, S \subseteq 1..n, S # {}
  PROVE  /\ Greatest(S) \in S
         /\ \A v \in S : v =< Greatest(S)
<1> DEFINE T == {n - v : v \in S}
<1>1. T \subseteq Nat /\ T # {}
  OBVIOUS
<1>2. PICK t \in T : \A u \in T : t =< u
  BY <1>1, LeastExists
<1>3. PICK x \in S : t = n - x
  OBVIOUS
<1>4. ASSUME NEW v \in S PROVE v =< x
  <2>1. n - v \in T
    OBVIOUS
  <2>2. t =< n - v
    BY <1>2, <2>1
  <2>3. v \in Nat /\ x \in Nat
    OBVIOUS
  <2>4. QED
    BY <1>3, <2>2, <2>3
<1>5. \E y \in S : \A v \in S : v =< y
  BY <1>4
<1>6. QED
  BY <1>5 DEF Greatest

\* The neighbours of any user among some players are players.
LEMMA NeighbourIsMember ==
  ASSUME NEW S, S \subseteq User, S # {}, NEW u, NEW forwards
  PROVE  /\ NextIn(S, u) \in S
         /\ PrevIn(S, u) \in S
         /\ Neighbour(S, u, forwards) \in S
<1> DEFINE above == {v \in S : v > u}
           below == {v \in S : v < u}
<1>1. MaxAddr \in Nat /\ S \subseteq 1..MaxAddr /\ S \subseteq Nat
  BY UserAssumption
<1>2. NextIn(S, u) \in S
  <2>1. CASE above = {}
    BY <1>1, <2>1, LeastExists DEF NextIn
  <2>2. CASE above # {}
    <3>1. Least(above) \in above
      BY <1>1, <2>2, LeastExists
    <3>2. QED
      BY <2>2, <3>1 DEF NextIn
  <2>3. QED
    BY <2>1, <2>2
<1>3. PrevIn(S, u) \in S
  <2>1. CASE below = {}
    BY <1>1, <2>1, GreatestExists DEF PrevIn
  <2>2. CASE below # {}
    <3>1. below \subseteq 1..MaxAddr
      BY <1>1
    <3>2. Greatest(below) \in below
      BY <1>1, <2>2, <3>1, GreatestExists
    <3>3. QED
      BY <2>2, <3>2 DEF PrevIn
  <2>4. QED
    BY <2>1, <2>2
<1>4. QED
  BY <1>2, <1>3 DEF Neighbour

\* The neighbour of a player who is not alone is someone else.
LEMMA NeighbourIsOther ==
  ASSUME NEW S, S \subseteq User, NEW u \in S, S # {u}, NEW forwards
  PROVE  Neighbour(S, u, forwards) \in S \ {u}
<1> DEFINE above == {v \in S : v > u}
           below == {v \in S : v < u}
<1>1. MaxAddr \in Nat /\ S \subseteq 1..MaxAddr /\ S \subseteq Nat /\ u \in Nat
  BY UserAssumption
<1>2. PICK w \in S : w # u
  OBVIOUS
<1>3. NextIn(S, u) \in S \ {u}
  <2>1. CASE above = {}
    <3>1. w < u
      BY <1>1, <1>2, <2>1
    <3>2. Least(S) \in S /\ Least(S) =< w
      BY <1>1, LeastExists
    <3>3. Least(S) \in S \ {u}
      BY <1>1, <3>1, <3>2
    <3>4. QED
      BY <2>1, <3>3 DEF NextIn
  <2>2. CASE above # {}
    <3>1. Least(above) \in above
      BY <1>1, <2>2, LeastExists
    <3>2. Least(above) \in S \ {u}
      BY <1>1, <3>1
    <3>3. QED
      BY <2>2, <3>2 DEF NextIn
  <2>3. QED
    BY <2>1, <2>2
<1>4. PrevIn(S, u) \in S \ {u}
  <2>1. CASE below = {}
    <3>1. w > u
      BY <1>1, <1>2, <2>1
    <3>2. Greatest(S) \in S /\ w =< Greatest(S)
      BY <1>1, GreatestExists
    <3>3. Greatest(S) \in S \ {u}
      BY <1>1, <3>1, <3>2
    <3>4. QED
      BY <2>1, <3>3 DEF PrevIn
  <2>2. CASE below # {}
    <3>1. below \subseteq 1..MaxAddr
      BY <1>1
    <3>2. Greatest(below) \in below
      BY <1>1, <2>2, <3>1, GreatestExists
    <3>3. Greatest(below) \in S \ {u}
      BY <1>1, <3>2
    <3>4. QED
      BY <2>2, <3>3 DEF PrevIn
  <2>3. QED
    BY <2>1, <2>2
<1>5. QED
  BY <1>3, <1>4 DEF Neighbour

\* A lobby of users is finite, and so is every set of players.
LEMMA PlayersAreFinite ==
  ASSUME NEW S, S \subseteq User
  PROVE  IsFiniteSet(S) /\ Cardinality(S) \in Nat
<1>1. IsFiniteSet(1..MaxAddr)
  BY UserAssumption, FS_Interval
<1>2. IsFiniteSet(S)
  BY <1>1, UserAssumption, FS_Subset
<1>3. QED
  BY <1>2, FS_CardinalityType

\* Enough players are some players.
LEMMA EnoughIsSome ==
  ASSUME NEW S, S \subseteq User, Cardinality(S) >= MIN_PLAYERS
  PROVE  S # {}
BY MinAssumption, FS_EmptySet, PlayersAreFinite

-----------------------------------------------------------------------------
(* The order of play when players are removed                              *)

\* w is the player after address u among S: the least one above u, or the least
\* of all if there is none above.
IsNext(S, u, w) ==
  /\ w \in S
  /\ \/ w > u /\ \A v \in S : v > u => w =< v
     \/ \A v \in S : ~(v > u) /\ w =< v

\* There is exactly one next player, NextIn.
LEMMA NextIsNext ==
  ASSUME NEW S, S \subseteq User, S # {}, NEW u \in User
  PROVE  /\ IsNext(S, u, NextIn(S, u))
         /\ \A w : IsNext(S, u, w) => w = NextIn(S, u)
<1> DEFINE above == {v \in S : v > u}
<1>1. MaxAddr \in Nat /\ S \subseteq Nat /\ u \in Nat
  BY UserAssumption
<1>2. IsNext(S, u, NextIn(S, u))
  <2>1. CASE above = {}
    <3>1. Least(S) \in S /\ \A v \in S : Least(S) =< v
      BY <1>1, LeastExists
    <3>2. QED
      BY <2>1, <3>1 DEF NextIn, IsNext
  <2>2. CASE above # {}
    <3>1. Least(above) \in above /\ \A v \in above : Least(above) =< v
      BY <1>1, <2>2, LeastExists
    <3>2. NextIn(S, u) = Least(above)
      BY <2>2 DEF NextIn
    <3>3. QED
      BY <3>1, <3>2 DEF IsNext
  <2>3. QED
    BY <2>1, <2>2
<1>3. ASSUME NEW w, IsNext(S, u, w), NEW x, IsNext(S, u, x) PROVE w = x
  <2>1. w \in Nat /\ x \in Nat
    BY <1>1, <1>3 DEF IsNext
  <2>2. w =< x /\ x =< w
    BY <1>1, <1>3, <2>1 DEF IsNext
  <2>3. QED
    BY <2>1, <2>2
<1>4. QED
  BY <1>2, <1>3

\* Whoever leaves, the next player stays the next one, unless it is that one.
LEMMA NextWithout ==
  ASSUME NEW S, S \subseteq User, NEW u \in User, S # {},
         NEW x, x # NextIn(S, u)
  PROVE  NextIn(S \ {x}, u) = NextIn(S, u)
<1>1. IsNext(S, u, NextIn(S, u))
  BY NextIsNext
<1> DEFINE w == NextIn(S, u)
<1>2. IsNext(S \ {x}, u, w)
  BY <1>1 DEF IsNext
<1> HIDE DEF w
<1>3. S \ {x} \subseteq User /\ S \ {x} # {}
  BY <1>2 DEF IsNext
<1>4. QED
  BY <1>2, <1>3, NextIsNext DEF w

\* If the next player leaves, the one after is next.
LEMMA NextButOne ==
  ASSUME NEW S, S \subseteq User, NEW u \in User, S # {},
         S # {NextIn(S, u)}
  PROVE  NextIn(S \ {NextIn(S, u)}, u) = NextIn(S, NextIn(S, u))
<1> DEFINE w == NextIn(S, u)
           T == S \ {w}
<1>1. IsNext(S, u, w)
  BY NextIsNext
<1>2. w \in User /\ w \in S
  BY <1>1 DEF IsNext
<1> HIDE DEF w
<1>3. T \subseteq User /\ T # {}
  BY <1>2 DEF w
<1> DEFINE x == NextIn(S, w)
<1>4. IsNext(S, w, x)
  BY <1>2, NextIsNext
<1>5. x # w
  BY <1>2, <1>3, NeighbourIsOther DEF Neighbour
<1> HIDE DEF x
<1>6. S \subseteq Nat /\ u \in Nat
  BY UserAssumption
<1>7. IsNext(T, u, x)
  BY <1>1, <1>4, <1>5, <1>6 DEF IsNext
<1>8. x = NextIn(T, u)
  BY <1>3, <1>7, NextIsNext
<1>9. QED
  BY <1>8 DEF w, x

\* The same against the direction of play: w is the player before address u.
IsPrev(S, u, w) ==
  /\ w \in S
  /\ \/ w < u /\ \A v \in S : v < u => v =< w
     \/ \A v \in S : ~(v < u) /\ v =< w

\* There is exactly one previous player, PrevIn.
LEMMA PrevIsPrev ==
  ASSUME NEW S, S \subseteq User, S # {}, NEW u \in User
  PROVE  /\ IsPrev(S, u, PrevIn(S, u))
         /\ \A w : IsPrev(S, u, w) => w = PrevIn(S, u)
<1> DEFINE below == {v \in S : v < u}
<1>1. MaxAddr \in Nat /\ S \subseteq 1..MaxAddr /\ S \subseteq Nat /\ u \in Nat
  BY UserAssumption
<1>2. IsPrev(S, u, PrevIn(S, u))
  <2>1. CASE below = {}
    <3>1. Greatest(S) \in S /\ \A v \in S : v =< Greatest(S)
      BY <1>1, GreatestExists
    <3>2. QED
      BY <2>1, <3>1 DEF PrevIn, IsPrev
  <2>2. CASE below # {}
    <3>1. below \subseteq 1..MaxAddr
      BY <1>1
    <3>2. Greatest(below) \in below /\ \A v \in below : v =< Greatest(below)
      BY <1>1, <2>2, <3>1, GreatestExists
    <3>3. PrevIn(S, u) = Greatest(below)
      BY <2>2 DEF PrevIn
    <3>4. QED
      BY <3>2, <3>3 DEF IsPrev
  <2>3. QED
    BY <2>1, <2>2
<1>3. ASSUME NEW w, IsPrev(S, u, w), NEW x, IsPrev(S, u, x) PROVE w = x
  <2>1. w \in Nat /\ x \in Nat
    BY <1>1, <1>3 DEF IsPrev
  <2>2. w =< x /\ x =< w
    BY <1>1, <1>3, <2>1 DEF IsPrev
  <2>3. QED
    BY <2>1, <2>2
<1>4. QED
  BY <1>2, <1>3

\* In either direction the neighbour stays the same whoever else leaves.
LEMMA NeighbourWithout ==
  ASSUME NEW S, S \subseteq User, NEW u \in User, S # {}, NEW forwards,
         NEW x, x # Neighbour(S, u, forwards)
  PROVE  Neighbour(S \ {x}, u, forwards) = Neighbour(S, u, forwards)
<1>1. CASE forwards
  BY <1>1, NextWithout DEF Neighbour
<1>2. CASE ~forwards
  <2> DEFINE w == PrevIn(S, u)
  <2>1. IsPrev(S, u, w) /\ x # w
    BY <1>2, PrevIsPrev DEF Neighbour
  <2> HIDE DEF w
  <2>2. IsPrev(S \ {x}, u, w)
    BY <2>1 DEF IsPrev
  <2>3. S \ {x} \subseteq User /\ S \ {x} # {}
    BY <2>2 DEF IsPrev
  <2>4. w = PrevIn(S \ {x}, u)
    BY <2>2, <2>3, PrevIsPrev
  <2>5. QED
    BY <1>2, <2>4 DEF w, Neighbour
<1>3. QED
  BY <1>1, <1>2 DEF Neighbour

\* Who is their own neighbour's neighbour plays with one other at most.
LEMMA NeighbourTwice ==
  ASSUME NEW S, S \subseteq User, NEW u \in S, NEW forwards,
         Neighbour(S, Neighbour(S, u, forwards), forwards) = u
  PROVE  Cardinality(S) =< 2
<1> DEFINE w == Neighbour(S, u, forwards)
<1>1. S \subseteq Nat /\ u \in User /\ S # {}
  BY UserAssumption
<1>2. w \in S /\ w \in User
  BY <1>1, NeighbourIsMember
<1>3. S = {u, w}
  <2>1. ASSUME NEW x \in S, x # u, x # w PROVE FALSE
    <3>1. CASE forwards
      <4>1. IsNext(S, u, w) /\ IsNext(S, w, u)
        BY <1>1, <1>2, <3>1, NextIsNext DEF Neighbour
      <4> HIDE DEF w
      <4>2. QED
        BY <1>1, <1>2, <2>1, <4>1 DEF IsNext
    <3>2. CASE ~forwards
      <4>1. IsPrev(S, u, w) /\ IsPrev(S, w, u)
        BY <1>1, <1>2, <3>2, PrevIsPrev DEF Neighbour
      <4> HIDE DEF w
      <4>2. QED
        BY <1>1, <1>2, <2>1, <4>1 DEF IsPrev
    <3>3. QED
      BY <3>1, <3>2
  <2>2. QED
    BY <1>2, <2>1
<1> HIDE DEF w
<1>4. IsFiniteSet({u}) /\ Cardinality({u}) = 1
  BY FS_Singleton
<1>5. Cardinality({u} \cup {w}) = IF w \in {u} THEN Cardinality({u}) ELSE Cardinality({u}) + 1
  BY <1>4, FS_AddElement
<1>6. {u} \cup {w} = S
  BY <1>3
<1>7. QED
  BY <1>4, <1>5, <1>6

-----------------------------------------------------------------------------
(* Sums over finite sets, of cards in a hand or of a card in all hands.     *)
(* The library's sum is a recursive function on the subsets of the set; it  *)
(* is the only function that gives each subset the sum of its elements.     *)

\* A collection of finite sets has one that is in it without none of its elements.
LEMMA SmallestExists ==
  ASSUME NEW S, IsFiniteSet(S), NEW C, C \subseteq SUBSET S, C # {}
  PROVE  \E s \in C : \A x \in s : s \ {x} \notin C
<1> DEFINE R == StrictSubsetOrdering(S)
<1>1. IsWellFoundedOn(R, FiniteSubsetsOf(S))
  BY FS_StrictSubsetOrderingWellFounded
<1>2. C \subseteq FiniteSubsetsOf(S)
  BY FS_Subset DEF FiniteSubsetsOf
<1> HIDE DEF R
<1>3. PICK s \in C : \A t \in C : ~(<<t, s>> \in R)
  BY <1>1, <1>2, WFMin
<1>4. ASSUME NEW x \in s PROVE s \ {x} \notin C
  <2>1. s \in SUBSET S /\ s \ {x} \in SUBSET S /\ s \ {x} \subseteq s /\ s \ {x} # s
    OBVIOUS
  <2>2. <<s \ {x}, s>> \in R
    BY <2>1 DEF R, StrictSubsetOrdering
  <2>3. QED
    BY <1>3, <2>2
<1>5. QED
  BY <1>4

\* it[s] is the sum of f over s, for every subset s of S.
IsSums(f, S, it) ==
  /\ it \in [SUBSET S -> Nat]
  /\ it[{}] = 0
  /\ \A s \in SUBSET S : \A x \in s : it[s] = f[x] + it[s \ {x}]

LEMMA SumsExist ==
  ASSUME NEW f, NEW S, IsFiniteSet(S), \A x \in S : f[x] \in Nat
  PROVE  \E it : IsSums(f, S, it)
<1> DEFINE C == {s \in SUBSET S : ~ \E it : IsSums(f, s, it)}
<1> SUFFICES ASSUME C # {} PROVE FALSE
  OBVIOUS
<1>1. PICK s \in C : \A x \in s : s \ {x} \notin C
  <2>1. C \subseteq SUBSET S
    OBVIOUS
  <2> HIDE DEF C
  <2>2. QED
    BY <2>1, SmallestExists
<1>2. CASE s = {}
  <2>1. IsSums(f, s, [t \in SUBSET s |-> 0])
    BY <1>2 DEF IsSums
  <2>2. QED
    BY <2>1
<1>3. CASE s # {}
  <2>1. PICK x \in s : TRUE
    BY <1>3
  <2>2. PICK old : IsSums(f, s \ {x}, old)
    BY <1>1
  <2> DEFINE it == [t \in SUBSET s |-> IF x \in t THEN f[x] + old[t \ {x}] ELSE old[t]]
  <2>3. f[x] \in Nat /\ \A y \in s : f[y] \in Nat
    OBVIOUS
  <2>4. ASSUME NEW t \in SUBSET s PROVE it[t] \in Nat
    BY <2>2, <2>3 DEF IsSums
  <2>5. ASSUME NEW t \in SUBSET s, NEW y \in t PROVE it[t] = f[y] + it[t \ {y}]
    <3>1. CASE y = x
      BY <3>1
    <3>2. CASE y # x /\ x \in t
      <4>1. t \ {x} \in SUBSET (s \ {x}) /\ y \in t \ {x}
        BY <3>2
      <4>2. old[t \ {x}] = f[y] + old[(t \ {x}) \ {y}]
        BY <2>2, <4>1 DEF IsSums
      <4>3. (t \ {x}) \ {y} = (t \ {y}) \ {x} /\ (t \ {x}) \ {y} \in SUBSET (s \ {x})
        OBVIOUS
      <4>4. old[(t \ {x}) \ {y}] \in Nat /\ f[y] \in Nat
        BY <2>2, <2>3, <4>3 DEF IsSums
      <4>5. it[t] = f[x] + old[t \ {x}] /\ it[t \ {y}] = f[x] + old[(t \ {y}) \ {x}]
        BY <3>2
      <4> DEFINE rest == old[(t \ {x}) \ {y}]
      <4>6. it[t] = f[x] + (f[y] + rest) /\ it[t \ {y}] = f[x] + rest
        BY <4>2, <4>3, <4>5
      <4> HIDE DEF it, rest
      <4>7. rest \in Nat
        BY <4>4 DEF rest
      <4>8. QED
        BY <2>3, <4>4, <4>6, <4>7
    <3>3. CASE x \notin t
      <4>1. t \in SUBSET (s \ {x})
        BY <3>3
      <4>2. it[t] = old[t] /\ it[t \ {y}] = old[t \ {y}]
        BY <3>3
      <4>3. QED
        BY <2>2, <4>1, <4>2 DEF IsSums
    <3>4. QED
      BY <3>1, <3>2, <3>3
  <2>6. it[{}] = 0
    BY <2>2 DEF IsSums
  <2>7. it \in [SUBSET s -> Nat]
    BY <2>4
  <2> HIDE DEF it
  <2>8. IsSums(f, s, it)
    BY <2>5, <2>6, <2>7 DEF IsSums
  <2>9. QED
    BY <2>8
<1>4. QED
  BY <1>2, <1>3

\* The library's sum.
LEMMA SumIs ==
  ASSUME NEW f, NEW S, IsFiniteSet(S), NEW it, IsSums(f, S, it)
  PROVE  SumFunctionOnSet(f, S) = it[S]
<1> DEFINE Step(h) == [s \in SUBSET S |->
                        IF s = {} THEN 0
                        ELSE f[CHOOSE y \in s : TRUE] + h[s \ {CHOOSE y \in s : TRUE}]]
           sum == CHOOSE h : h = Step(h)
<1>1. SumFunctionOnSet(f, S) = sum[S]
  BY DEF SumFunctionOnSet, FoldFunctionOnSet, MapThenFoldSet
<1>2. it = Step(it)
  <2>1. ASSUME NEW s \in SUBSET S, s # {}
        PROVE  it[s] = f[CHOOSE y \in s : TRUE] + it[s \ {CHOOSE y \in s : TRUE}]
    <3>1. (CHOOSE y \in s : TRUE) \in s
      BY <2>1
    <3>2. QED
      BY <3>1 DEF IsSums
  <2>2. QED
    BY <2>1 DEF IsSums
<1>3. sum = Step(sum)
  BY <1>2
<1> DEFINE C == {s \in SUBSET S : sum[s] # it[s]}
<1>4. C = {}
  <2> SUFFICES ASSUME C # {} PROVE FALSE
    OBVIOUS
  <2>1. C \subseteq SUBSET S
    OBVIOUS
  <2> HIDE DEF C, sum
  <2>2. PICK s \in C : \A x \in s : s \ {x} \notin C
    BY <2>1, SmallestExists
  <2>3. s \in SUBSET S /\ sum[s] # it[s]
    BY DEF C
  <2>4. s # {}
    BY <1>2, <1>3, <2>3
  <2> DEFINE y == CHOOSE y \in s : TRUE
  <2>5. y \in s
    BY <2>4
  <2>6. sum[s] = f[y] + sum[s \ {y}] /\ it[s] = f[y] + it[s \ {y}]
    BY <1>2, <1>3, <2>3, <2>4
  <2> HIDE DEF y
  <2>7. sum[s \ {y}] = it[s \ {y}]
    BY <2>2, <2>3, <2>5 DEF C
  <2>8. QED
    BY <2>3, <2>6, <2>7
<1>5. QED
  BY <1>1, <1>4

\* The sums over the subsets of a subset.
LEMMA SumsOfSubset ==
  ASSUME NEW f, NEW S, NEW it, IsSums(f, S, it), NEW T \in SUBSET S
  PROVE  IsSums(f, T, [s \in SUBSET T |-> it[s]])
BY DEF IsSums

\* A sum is a number, and its elements can be taken out one by one.
LEMMA SumStep ==
  ASSUME NEW f, NEW S, IsFiniteSet(S), \A x \in S : f[x] \in Nat
  PROVE  /\ SumFunctionOnSet(f, S) \in Nat
         /\ S = {} => SumFunctionOnSet(f, S) = 0
         /\ \A x \in S : /\ SumFunctionOnSet(f, S \ {x}) \in Nat
                         /\ SumFunctionOnSet(f, S) = f[x] + SumFunctionOnSet(f, S \ {x})
<1>1. PICK it : IsSums(f, S, it)
  BY SumsExist
<1>2. \A T \in SUBSET S : SumFunctionOnSet(f, T) = it[T]
  <2> TAKE T \in SUBSET S
  <2>1. IsSums(f, T, [s \in SUBSET T |-> it[s]])
    BY <1>1, SumsOfSubset
  <2>2. IsFiniteSet(T)
    BY FS_Subset
  <2>3. QED
    BY <2>1, <2>2, SumIs
<1>3. SumFunctionOnSet(f, S) = it[S] /\ it[S] \in Nat /\ it[{}] = 0
  BY <1>1, <1>2 DEF IsSums
<1>4. ASSUME NEW x \in S
      PROVE  /\ SumFunctionOnSet(f, S \ {x}) \in Nat
             /\ SumFunctionOnSet(f, S) = f[x] + SumFunctionOnSet(f, S \ {x})
  <2>1. S \in SUBSET S /\ S \ {x} \in SUBSET S
    OBVIOUS
  <2>2. SumFunctionOnSet(f, S \ {x}) = it[S \ {x}]
    BY <1>2, <2>1
  <2>3. it[S] = f[x] + it[S \ {x}] /\ it[S \ {x}] \in Nat
    BY <1>1, <2>1 DEF IsSums
  <2>4. QED
    BY <1>3, <2>2, <2>3
<1>5. QED
  BY <1>3, <1>4

\* Sums of equal elements are equal.
LEMMA SumSame ==
  ASSUME NEW f, NEW g, NEW S, IsFiniteSet(S),
         \A x \in S : f[x] \in Nat /\ f[x] = g[x]
  PROVE  SumFunctionOnSet(f, S) = SumFunctionOnSet(g, S)
<1>1. PICK it : IsSums(f, S, it)
  BY SumsExist
<1>2. IsSums(g, S, it)
  BY <1>1 DEF IsSums
<1>3. QED
  BY <1>1, <1>2, SumIs

\* The sum of sums.
LEMMA SumPlus ==
  ASSUME NEW f, NEW g, NEW h, NEW S, IsFiniteSet(S),
         \A x \in S : f[x] \in Nat /\ g[x] \in Nat /\ h[x] = f[x] + g[x]
  PROVE  SumFunctionOnSet(h, S) = SumFunctionOnSet(f, S) + SumFunctionOnSet(g, S)
<1>1. PICK i : IsSums(f, S, i)
  BY SumsExist
<1>2. PICK j : IsSums(g, S, j)
  BY SumsExist
<1> DEFINE it == [s \in SUBSET S |-> i[s] + j[s]]
<1>3. IsSums(h, S, it)
  <2>1. it \in [SUBSET S -> Nat] /\ it[{}] = 0
    BY <1>1, <1>2 DEF IsSums
  <2>2. ASSUME NEW s \in SUBSET S, NEW x \in s PROVE it[s] = h[x] + it[s \ {x}]
    <3>1. /\ i[s] = f[x] + i[s \ {x}] /\ j[s] = g[x] + j[s \ {x}]
          /\ i[s \ {x}] \in Nat /\ j[s \ {x}] \in Nat
      BY <1>1, <1>2 DEF IsSums
    <3>2. f[x] \in Nat /\ g[x] \in Nat /\ h[x] = f[x] + g[x]
      OBVIOUS
    <3>3. it[s] = i[s] + j[s] /\ it[s \ {x}] = i[s \ {x}] + j[s \ {x}]
      OBVIOUS
    <3> HIDE DEF it
    <3>4. QED
      BY <3>1, <3>2, <3>3
  <2> HIDE DEF it
  <2>3. QED
    BY <2>1, <2>2 DEF IsSums
<1>4. QED
  BY <1>1, <1>2, <1>3, SumIs

\* A sum is zero if and only if all its elements are.
LEMMA SumZero ==
  ASSUME NEW f, NEW S, IsFiniteSet(S), \A x \in S : f[x] \in Nat
  PROVE  SumFunctionOnSet(f, S) = 0 <=> \A x \in S : f[x] = 0
<1>1. ASSUME SumFunctionOnSet(f, S) = 0, NEW x \in S PROVE f[x] = 0
  <2>1. /\ SumFunctionOnSet(f, S) = f[x] + SumFunctionOnSet(f, S \ {x})
        /\ SumFunctionOnSet(f, S \ {x}) \in Nat
    BY SumStep
  <2>2. f[x] \in Nat
    OBVIOUS
  <2>3. QED
    BY <1>1, <2>1, <2>2
<1>2. ASSUME \A x \in S : f[x] = 0 PROVE SumFunctionOnSet(f, S) = 0
  <2>1. IsSums(f, S, [s \in SUBSET S |-> 0])
    BY <1>2 DEF IsSums
  <2>2. QED
    BY <2>1, SumIs
<1>3. QED
  BY <1>1, <1>2

\* The sum when one element changes.
LEMMA SumExcept ==
  ASSUME NEW f, NEW g, NEW S, IsFiniteSet(S), NEW x \in S,
         \A y \in S : f[y] \in Nat /\ g[y] \in Nat,
         \A y \in S \ {x} : f[y] = g[y]
  PROVE  SumFunctionOnSet(g, S) + f[x] = SumFunctionOnSet(f, S) + g[x]
<1>1. IsFiniteSet(S \ {x}) /\ \A y \in S \ {x} : f[y] \in Nat /\ f[y] = g[y]
  BY FS_RemoveElement
<1>2. SumFunctionOnSet(f, S \ {x}) = SumFunctionOnSet(g, S \ {x})
  BY <1>1, SumSame
<1>3. /\ SumFunctionOnSet(f, S) = f[x] + SumFunctionOnSet(f, S \ {x})
      /\ SumFunctionOnSet(f, S \ {x}) \in Nat
  BY SumStep
<1>4. SumFunctionOnSet(g, S) = g[x] + SumFunctionOnSet(g, S \ {x})
  BY SumStep
<1>5. f[x] \in Nat /\ g[x] \in Nat
  OBVIOUS
<1>6. QED
  BY <1>2, <1>3, <1>4, <1>5

\* No element is larger than the sum.
LEMMA SumElement ==
  ASSUME NEW f, NEW S, IsFiniteSet(S), \A x \in S : f[x] \in Nat, NEW x \in S
  PROVE  f[x] =< SumFunctionOnSet(f, S)
<1>1. /\ SumFunctionOnSet(f, S) = f[x] + SumFunctionOnSet(f, S \ {x})
      /\ SumFunctionOnSet(f, S \ {x}) \in Nat
  BY SumStep
<1>2. f[x] \in Nat
  OBVIOUS
<1>3. QED
  BY <1>1, <1>2

\* A sum of larger elements is larger.
LEMMA SumMono ==
  ASSUME NEW f, NEW g, NEW S, IsFiniteSet(S),
         \A x \in S : f[x] \in Nat /\ g[x] \in Nat /\ f[x] =< g[x]
  PROVE  SumFunctionOnSet(f, S) =< SumFunctionOnSet(g, S)
<1> DEFINE more == [x \in S |-> g[x] - f[x]]
<1>1. \A x \in S : f[x] \in Nat /\ more[x] \in Nat /\ g[x] = f[x] + more[x]
  OBVIOUS
<1> HIDE DEF more
<1>2. SumFunctionOnSet(g, S) = SumFunctionOnSet(f, S) + SumFunctionOnSet(more, S)
  BY <1>1, SumPlus
<1>3. SumFunctionOnSet(f, S) \in Nat /\ SumFunctionOnSet(more, S) \in Nat
  BY <1>1, SumStep
<1>4. QED
  BY <1>2, <1>3

\* Elements that are zero can be left out of a sum.
LEMMA SumWithoutZeros ==
  ASSUME NEW f, NEW S, IsFiniteSet(S), NEW T \in SUBSET S,
         \A x \in S : f[x] \in Nat, \A x \in S \ T : f[x] = 0
  PROVE  SumFunctionOnSet(f, S) = SumFunctionOnSet(f, T)
<1>1. IsFiniteSet(T) /\ \A x \in T : f[x] \in Nat
  BY FS_Subset
<1>2. PICK j : IsSums(f, T, j)
  BY <1>1, SumsExist
<1> DEFINE it == [s \in SUBSET S |-> j[s \cap T]]
<1>3. it \in [SUBSET S -> Nat] /\ it[{}] = 0
  BY <1>2 DEF IsSums
<1>4. ASSUME NEW s \in SUBSET S, NEW x \in s PROVE it[s] = f[x] + it[s \ {x}]
  <2>1. it[s] = j[s \cap T] /\ it[s \ {x}] = j[(s \ {x}) \cap T]
    OBVIOUS
  <2> HIDE DEF it
  <2>2. CASE x \in T
    <3>1. (s \cap T) \ {x} = (s \ {x}) \cap T /\ x \in s \cap T
      BY <2>2
    <3>2. j[s \cap T] = f[x] + j[(s \cap T) \ {x}]
      BY <1>2, <3>1 DEF IsSums
    <3>3. QED
      BY <2>1, <3>1, <3>2
  <2>3. CASE x \notin T
    <3>1. s \cap T = (s \ {x}) \cap T
      BY <2>3
    <3>2. f[x] = 0 /\ j[s \cap T] \in Nat
      BY <1>2, <2>3 DEF IsSums
    <3>3. QED
      BY <2>1, <3>1, <3>2
  <2>4. QED
    BY <2>2, <2>3
<1>5. it[S] = j[T]
  <2>1. S \cap T = T
    OBVIOUS
  <2>2. QED
    BY <2>1
<1> HIDE DEF it
<1>6. IsSums(f, S, it)
  BY <1>3, <1>4 DEF IsSums
<1>7. QED
  BY <1>1, <1>2, <1>5, <1>6, SumIs
=============================================================================
