SPECIFICATION Safety
CONSTANTS
  Tasks = {t1, t2}
  Stoppers = {s1}
INVARIANT TimeoutMeansUnfinished
CHECK_DEADLOCK FALSE
