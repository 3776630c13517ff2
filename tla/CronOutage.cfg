\* The croniter package is gone, and a scheduler process may die.
SPECIFICATION FairSpec
CONSTANTS
  j1 = j1
  j2 = j2
  p1 = p1
  p2 = p2
  Jobs = {j1, j2}
  Procs = {p1, p2}
  Editors = {}
  EditOps = {}
  Schedules <- MCMixed
  Repeats <- MCTwice
  Sequential = {j2}
  MaxParallel = 2
  MinGrace = 1
  MaxGrace = 2
  OneshotGrace = 1
  HasCroniter = FALSE
  CronNext <- MCCronNext
  MaxTime = 4
  MaxCrashes = 1
  MaxEdits = 0
  None = None
  NoJob = NoJob
INVARIANT RecurringNeverDisabled
PROPERTY OneShotRetired
CHECK_DEADLOCK FALSE
