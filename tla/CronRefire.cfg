\* One process, one recurring job, one edit of an unrelated field.
SPECIFICATION Spec
CONSTANTS
  e1 = e1
  j1 = j1
  p1 = p1
  Jobs = {j1}
  Procs = {p1}
  Editors = {e1}
  EditOps = {"edit"}
  Schedules <- MCRecurring
  Repeats <- MCForever
  Sequential = {}
  MaxParallel = 2
  MinGrace = 1
  MaxGrace = 2
  OneshotGrace = 1
  CronNext <- MCCronNext
  HasCroniter = TRUE
  MaxTime = 4
  MaxCrashes = 0
  MaxEdits = 1
  None = None
  NoJob = NoJob
PROPERTY AtMostOnce
CHECK_DEADLOCK FALSE
