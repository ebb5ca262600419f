SPECIFICATION Spec
CONSTANTS
  Calls = {c1, c2, c3}
  CtxCalls = {c1, c2}
  ChanCap = 1
PROPERTY ReleasesCallers
CHECK_DEADLOCK FALSE
