SPECIFICATION Spec
CONSTANTS
  Upgraded = {u1, u2, t}
  Dialled = {d}
  Scenarios = {{u1, u2}, {t}, {d}}
  Talkers = {t, d}
  ChanCap = 1
  MsgLens = {2}
  ReadLens = {1, 3}
  MaxMsgs = 2
INVARIANTS StreamInOrder ServedUntilClosed
PROPERTY TornDown
\* The loops end, and nothing has to happen after that.
CHECK_DEADLOCK FALSE
