SPECIFICATION Spec
CONSTANTS
  MaxGen = 3
  Interval = 2
  Calls = {c1, c2}
  BeginCalls = {c1}
INVARIANTS OneConnection DoneMeansGone
PROPERTIES DialSpacing WritesOnCurrent StopCompletes Redials
CHECK_DEADLOCK FALSE
