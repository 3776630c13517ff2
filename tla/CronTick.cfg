\* Two scheduler processes, one of which may die, and three jobs,
\* one of them with a working directory of its own.
SPECIFICATION Spec
CONSTANTS
  j1 = j1
  j2 = j2
  j3 = j3
  p1 = p1
  p2 = p2
  Jobs = {j1, j2, j3}
  Procs = {p1, p2}
  Editors = {}
  EditOps = {}
  Schedules <- MCMixed
  Repeats <- MCTwice
  Sequential = {j3}
  MaxParallel = 2
  MinGrace = 1
  MaxGrace = 2
  OneshotGrace = 1
  HasCroniter = TRUE
  CronNext <- MCCronNext
  MaxTime = 2
  MaxCrashes = 1
  MaxEdits = 0
  None = None
  NoJob = NoJob
INVARIANTS TypeOK CronInv NoLostMark
PROPERTIES AtMostOnce LedgerKept
CHECK_DEADLOCK FALSE
