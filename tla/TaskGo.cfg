SPECIFICATION Spec
CONSTANTS
  Tasks = {t1, t2, t3}
  Stoppers = {s1, s2}
INVARIANTS TypeOK CountMatches OneWinner FinishedMeansNoneRunning DoneNeverBlocks
PROPERTY StopReturns
CHECK_DEADLOCK FALSE
