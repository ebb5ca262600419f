SPECIFICATION Spec
CONSTANTS
  Calls = {c1, c2}
  ReadCalls = {c1}
  BeginCalls = {}
  CtxCalls = {}
  Oversize = {c2}
  ChanCap = 1
  Faults = {"parent", "peer", "panic"}
PROPERTIES CallersReleased StopEnds
CHECK_DEADLOCK FALSE
