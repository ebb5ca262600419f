SPECIFICATION Spec
CONSTANTS
  Calls = {c1, c2}
  ReadCalls = {c1}
  BeginCalls = {}
  CtxCalls = {}
  Oversize = {}
  ChanCap = 1
  Faults = {"user"}
PROPERTY CloseStops
CHECK_DEADLOCK FALSE
