SPECIFICATION Spec
CONSTANTS
  Readers = {r1, r2}
  Apps = {app}
  MsgIDs = {1, 2}
  DataLen = 3
  MaxMsgs = 3
  MaxUpdates = 2
  MaxSnaps = 1
INVARIANTS EveryMessageCounted SnapshotConsistent
PROPERTY UpdatesReturn
\* Read loops end, and the bounds on calls are reached.
CHECK_DEADLOCK FALSE
