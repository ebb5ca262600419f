SPECIFICATION Safety
CONSTANTS
  Calls = {c1, c2}
  ReadCalls = {c1}
  BeginCalls = {c2}
  CtxCalls = {c2}
  Oversize = {}
  ChanCap = 1
  Faults = {"parent", "user", "peer", "panic"}
INVARIANTS TypeOK NilMeansWritten ErrNamesCause ConnErrNilOnlyWhenStuck CleanStop
PROPERTY ImplementsMsgDelivery
CHECK_DEADLOCK FALSE
