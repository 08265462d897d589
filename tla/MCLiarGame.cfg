CONSTANTS
  User <- MCUser
  MaxAddr = 4
  MIN_PLAYERS = 2
  six = six
  queen = queen
  Face <- MCFace
  Queen = queen
  NoFace = NoFace
SPECIFICATION Spec
INVARIANT TypeOK
INVARIANT CurrentIsPlayer
INVARIANT StackIsClaimed
PROPERTY CardsConserved
PROPERTY QuartetsAreDiscarded
PROPERTY UncheckedLastCardWins
PROPERTY ImplementsTurnGame
