\* Every operation of the user, without a lock, against two scheduler processes
\* one of which may die; long enough for a job to be edited twice.
SPECIFICATION FairSpec
CONSTANTS
  e1 = e1
  j1 = j1
  p1 = p1
  p2 = p2
  Jobs = {j1}
  Procs = {p1, p2}
  Editors = {e1}
  EditOps = {"create", "edit", "repeat", "reschedule", "pause", "resume", "trigger", "remove"}
  Schedules <- MCEdited
  Repeats <- MCTwice
  Sequential = {}
  MaxParallel = 2
  MinGrace = 1
  MaxGrace = 2
  OneshotGrace = 1
  CronNext <- MCCronNext
  HasCroniter = TRUE
  MaxTime = 2
  MaxCrashes = 1
  MaxEdits = 2
  None = None
  NoJob = NoJob
INVARIANTS SchedInv NoConcurrentRun
PROPERTY DueHandled
CHECK_DEADLOCK FALSE
