SPECIFICATION Spec
CONSTANTS
  Base = 2
  MaxDataLen = 3
  Limits = {0, 1, 15}
  Messages <- MCMessages
  MaxSends = 3
INVARIANTS Framed EndsForItsReason
PROPERTY Arrives
\* Both ends stop once the connection has ended.
CHECK_DEADLOCK FALSE
