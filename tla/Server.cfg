SPECIFICATION Spec
CONSTANTS
  Acceptors = {a1, a2}
  Conns = {n1, n2, n3}
  Stoppers = {s1}
  MaxConn = 1
INVARIANTS TypeOK CountExact LimitHeld DoneMeansDrained
PROPERTY StopCompletes
CHECK_DEADLOCK FALSE
