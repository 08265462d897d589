CONSTANTS
  User <- MCUser
  MaxAddr = 4
  MIN_PLAYERS = 2
  Card <- MCCard
  NUM_PER_FACE = 2
  MIN_IN_HAND = 2
SPECIFICATION Spec
INVARIANT TypeOK
INVARIANT HandsAreFull
INVARIANT FinishedPlayersAreGone
INVARIANT NobodyIsStuck
PROPERTY CardsConserved
PROPERTY ImplementsTurnGame
