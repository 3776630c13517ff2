\* One process, one recurring job with a long grace, one trigger.
SPECIFICATION Spec
CONSTANTS
  e1 = e1
  j1 = j1
  p1 = p1
  Jobs = {j1}
  Procs = {p1}
  Editors = {e1}
  EditOps = {"trigger"}
  Schedules <- MCRecurring
  Repeats <- MCForever
  Sequential = {}
  MaxParallel = 2
  MinGrace = 4
  MaxGrace = 4
  OneshotGrace = 1
  CronNext <- MCCronNext
  HasCroniter = TRUE
  MaxTime = 3
  MaxCrashes = 0
  MaxEdits = 1
  None = None
  NoJob = NoJob
INVARIANT TriggerKept
CHECK_DEADLOCK FALSE
