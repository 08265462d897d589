CONSTANTS
  User <- MCUser
  MaxAddr = 4
  MIN_PLAYERS = 2
  Color = {"r", "g"}
  Face <- MCFace
  ModeSet <- MCModeSet
  DEALT = 1
  MAX_HAND = 5
  MAX_DRAW = 6
SPECIFICATION Spec
INVARIANT TypeOK
INVARIANT EmptyHandHasTurn
INVARIANT OneWinOneLoss
INVARIANT PenaltyShows
PROPERTY PenaltyIsDrawn
PROPERTY ImplementsTurnGame
