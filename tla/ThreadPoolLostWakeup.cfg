SPECIFICATION FairSpec
CONSTANTS
  Task = {t1, t2}
  Worker = {w1, w2}
  Producer = {p1}
  NoTask = NoTask
PROPERTIES
  WaitIdleReturns
