CONSTANTS
  Nick = {a, b}
  Bot = Bot
  NoNick = NoNick
  NInst = 4
  AuthTypes = {0, 1}
  SEND_QUEUE_MAX = 2
  Chatter = {0}
  TIMEOUT = 1
  MAX_USERS = 1
  MAX_RARE = 1

SPECIFICATION Spec
INVARIANT TypeOK
INVARIANT ViewIsTruth
INVARIANT PendingIsAsked
INVARIANT WaitingIsPending
CHECK_DEADLOCK FALSE
PROPERTY WaitingJoinEnds
