CONSTANTS
  User <- MCUser
  MaxAddr = 4
  MIN_PLAYERS = 2
  Color = {"r", "g"}
  Face <- MCFace
  ModeSet <- NoUModes
  DEALT = 1
  MAX_HAND = 5
  MAX_DRAW = 6
SPECIFICATION Spec
PROPERTY ReverseSendsBack
