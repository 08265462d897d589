CONSTANTS
  RECEIVE_BUFSIZE = 2
  MAX_SEND_RETRIES = 2
  LINE_SIZE = 2
  MAX_BYTES = 4
  MAX_SENDS = 1
  NoLine = NoLine

SPECIFICATION Spec
PROPERTY ImplementsLineStream
CHECK_DEADLOCK FALSE
