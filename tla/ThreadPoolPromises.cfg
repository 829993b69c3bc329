SPECIFICATION FairSpec
CONSTANTS
  Task = {t1, t2, t3}
  Worker = {w1, w2}
  Producer = {p1, p2}
  NoTask = NoTask
INVARIANTS
  TypeOK
  WaitIdleSound
  DestroyDrains
PROPERTIES
  ImplementsExecutor
  DestroyReturns
