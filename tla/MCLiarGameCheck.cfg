CONSTANTS
  User <- MCUser
  MaxAddr = 4
  MIN_PLAYERS = 3
  six = six
  queen = queen
  Face <- MCFace
  Queen = queen
  NoFace = NoFace
SPECIFICATION Spec
PROPERTY CheckedLastCardWins
