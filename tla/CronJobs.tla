------------------------------ MODULE CronJobs ------------------------------
(***************************************************************************)
(* The cron subsystem: the job file of cron/jobs.py and the scheduler      *)
(* tick of cron/scheduler.py.                                              *)
(*                                                                         *)
(* Every operation on jobs.json is a load of the whole file, a change in   *)
(* memory and an atomic replacement of the whole file.  The scheduler's    *)
(* operations (get_due_jobs, advance_next_run, mark_job_run) bracket the   *)
(* two with a lock of their process; the user's (create_job, update_job,   *)
(* remove_job and what calls them) take no lock.  So a load and the save   *)
(* that follows are two steps here, and the lock a variable.  Ticks of     *)
(* several processes exclude each other with a lock on a file, which the   *)
(* operating system releases when its holder dies.                         *)
(*                                                                         *)
(* The last four variables are history: no action's guard reads them.      *)
(***************************************************************************)
EXTENDS Integers, FiniteSets

CONSTANTS
    Jobs,         \* job identifiers
    Procs,        \* processes that run the scheduler (gateway, manual ticks)
    Editors,      \* threads or processes that create, change and remove jobs
    EditOps,      \* the operations they use
    Schedules,    \* the schedules a job may have
    Repeats,      \* the repeat limits a job may have
    Sequential,   \* jobs with a workdir or a profile, never run in parallel
    MaxParallel,  \* cron.max_parallel_jobs
    MinGrace, MaxGrace,  \* the bounds of _compute_grace_seconds
    OneshotGrace, \* ONESHOT_GRACE_SECONDS
    HasCroniter,  \* whether the croniter package is installed
    CronNext(_, _),  \* croniter.get_next: the next match of an expression
    MaxTime,      \* bound on the clock
    MaxCrashes,   \* bound on the crashes of scheduler processes
    MaxEdits,     \* bound on the user's operations
    None,         \* an unset field
    NoJob         \* the value of a job that is not in the file

AllOps == {"create", "edit", "repeat", "reschedule", "pause", "resume",
           "trigger", "remove"}

ASSUME CronAssumption ==
    /\ EditOps \subseteq AllOps
    \* A period is at least a minute, whatever a unit of the clock is.
    /\ \A s \in Schedules :
          /\ s.kind \in {"once", "interval", "cron"}
          /\ s.kind = "once" => s.at \in Nat
          /\ s.kind = "interval" => s.period \in Nat \ {0}
          \* A match of a cron expression is after the time asked about.
          /\ s.kind = "cron" => \A t \in 0..MaxTime :
                CronNext(s, t) \in Nat /\ CronNext(s, t) > t
    \* A repeat below one is normalised to None.
    /\ Repeats \subseteq (Nat \ {0}) \cup {None}
    /\ MinGrace \in Nat /\ MaxGrace \in Nat /\ OneshotGrace \in Nat
    /\ HasCroniter \in BOOLEAN
    /\ MaxTime \in Nat /\ MaxCrashes \in Nat /\ MaxEdits \in Nat
    /\ MaxParallel \in Nat \ {0}
    /\ None \notin Nat /\ None \notin Procs

VARIABLES
    disk,    \* jobs.json: the record of every job in it
    now,     \* the clock
    flock,   \* the process holding the file lock of tick, or None
    lock,    \* per process: is _jobs_file_lock held
    pc,      \* per process: where its tick is
    due,     \* per process: the job dicts get_due_jobs returned
    todo,    \* per process: due jobs still to be advanced
    tfile,   \* per process: the file as its tick last changed it in memory
    work,    \* per process and job: where _process_job is
    wfile,   \* per process and job: the file as mark_job_run changed it
    edit,    \* per editor: the operation under way
    born,    \* the identifiers handed out so far
    fired,   \* history: the occurrence the last run of a job started for
    marks,   \* history: how often mark_job_run counted a job
    trig,    \* history: jobs triggered and not picked by a tick since
    crashes, edits

sched == <<flock, lock, pc, due, todo, tfile, work, wfile>>
hist == <<fired, marks, trig>>
vars == <<disk, now, sched, edit, born, hist, crashes, edits>>

-----------------------------------------------------------------------------
(* Job records *)

Job == [schedule : Schedules, times : Repeats \cup {1}, completed : Nat,
        enabled : BOOLEAN,
        state : {"scheduled", "paused", "error", "completed"},
        next : Nat \cup {None}, last : Nat \cup {None}]

ASSUME NoJobAssumption == NoJob \notin Job

File == [Jobs -> Job \cup {NoJob}]

Recurring(s) == s.kind \in {"interval", "cron"}

(* _recoverable_oneshot_run_at *)
RecoverableOneshot(s, last, t) ==
    IF s.kind = "once" /\ last = None /\ s.at + OneshotGrace >= t
    THEN s.at ELSE None

(* An interval counts from the base, a cron expression from its next match. *)
Following(s, base) ==
    IF s.kind = "interval" THEN base + s.period ELSE CronNext(s, base)

(* compute_next_run: cron expressions need croniter. *)
ComputeNextRun(s, last, t) ==
    IF s.kind = "once" THEN RecoverableOneshot(s, last, t)
    ELSE IF s.kind = "cron" /\ ~HasCroniter THEN None
    ELSE Following(s, IF last = None THEN t ELSE last)

(* _compute_grace_seconds: half the period between two bounds. *)
Grace(s, t) ==
    IF s.kind = "interval" \/ (s.kind = "cron" /\ HasCroniter)
    THEN LET first == Following(s, t)
             half == (Following(s, first) - first) \div 2
             capped == IF half < MaxGrace THEN half ELSE MaxGrace
         IN  IF capped > MinGrace THEN capped ELSE MinGrace
    ELSE MinGrace

(* Mutant: a missing repeat count becomes zero. *)
NewJobUnlimited(s, times, t) ==
    [schedule |-> s, times |-> IF times = None THEN 0 ELSE times,
     completed |-> 0, enabled |-> TRUE, state |-> "scheduled",
     next |-> IF Recurring(s) THEN Following(s, t)
                              ELSE RecoverableOneshot(s, None, t),
     last |-> None]

(* create_job; parse_schedule refuses a cron expression without croniter. *)
NewJob(s, times, t) ==
    [schedule |-> s,
     times |-> IF s.kind = "once" /\ times = None THEN 1 ELSE times,
     completed |-> 0, enabled |-> TRUE, state |-> "scheduled",
     next |-> IF Recurring(s) THEN Following(s, t)
                              ELSE RecoverableOneshot(s, None, t),
     last |-> None]

-----------------------------------------------------------------------------
(* get_due_jobs, advance_next_run and mark_job_run as functions of the file *)

(* The run time of a job, recovered when the field is unset. *)
EffectiveNext(r, t) ==
    IF r.next # None THEN r.next
    ELSE IF Recurring(r.schedule) THEN ComputeNextRun(r.schedule, t, t)
    ELSE RecoverableOneshot(r.schedule, r.last, t)

Considered(r, t) == r # NoJob /\ r.enabled /\ EffectiveNext(r, t) # None

(* A recurring job past its grace is moved to its next future run. *)
Stale(r, t) ==
    /\ Recurring(r.schedule)
    /\ EffectiveNext(r, t) + Grace(r.schedule, t) < t
    /\ ComputeNextRun(r.schedule, t, t) # None

IsDue(r, t) == Considered(r, t) /\ EffectiveNext(r, t) <= t /\ ~Stale(r, t)

DueRecord(r, t) ==
    IF ~Considered(r, t) THEN r
    ELSE [r EXCEPT !.next = IF Stale(r, t)
                            THEN ComputeNextRun(r.schedule, t, t)
                            ELSE EffectiveNext(r, t)]

DueFile(f, t) == [j \in Jobs |-> DueRecord(f[j], t)]

(* Mutant: a due job is advanced by its run only. *)
AdvancedFileLate(f, j, t) == f

AdvancedFile(f, j, t) ==
    IF f[j] = NoJob THEN f
    ELSE IF ~Recurring(f[j].schedule) THEN f
    ELSE IF ComputeNextRun(f[j].schedule, t, t) = None THEN f
    ELSE [f EXCEPT ![j].next = ComputeNextRun(f[j].schedule, t, t)]

(* Mutant: any job without a next run is complete. *)
MarkedComplete(r, t) ==
    LET n == ComputeNextRun(r.schedule, t, t)
    IN  [r EXCEPT !.last = t, !.completed = @ + 1, !.next = n,
                  !.enabled = @ /\ n # None,
                  !.state = IF n = None THEN "completed"
                            ELSE IF @ = "paused" THEN @ ELSE "scheduled"]

Marked(r, t) ==
    LET n == ComputeNextRun(r.schedule, t, t)
    IN  [r EXCEPT !.last = t, !.completed = @ + 1, !.next = n,
                  !.enabled = @ /\ (n # None \/ Recurring(r.schedule)),
                  !.state = IF n = None
                            THEN IF Recurring(r.schedule) THEN "error"
                                                          ELSE "completed"
                            ELSE IF @ = "paused" THEN @ ELSE "scheduled"]

(* Mutant: off by one. *)
LimitReachedLate(r) == r.times # None /\ r.completed + 1 > r.times

(* create_job and the tool turn a limit of zero or less into None. *)
LimitReached(r) == r.times # None /\ r.completed + 1 >= r.times

MarkedFile(f, j, t) ==
    [f EXCEPT ![j] = IF LimitReached(@) THEN NoJob ELSE Marked(@, t)]

-----------------------------------------------------------------------------
(* The scheduler tick *)

Idle == [j \in Jobs |-> "none"]
NothingDue == [j \in Jobs |-> NoJob]
Unread == [j \in Jobs |-> None]

(* Mutant: the file lock is not tried. *)
TickStartUnlocked(p) ==
    /\ pc[p] = "idle"
    /\ flock' = p
    /\ pc' = [pc EXCEPT ![p] = "due"]
    /\ UNCHANGED <<disk, now, lock, due, todo, tfile, work, wfile, edit, born,
                   hist, crashes, edits>>

(* tick takes the file lock without blocking: a process that finds it held
   returns at once. *)
TickStart(p) ==
    /\ pc[p] = "idle" /\ flock = None
    /\ flock' = p
    /\ pc' = [pc EXCEPT ![p] = "due"]
    /\ UNCHANGED <<disk, now, lock, due, todo, tfile, work, wfile, edit, born,
                   hist, crashes, edits>>

(* get_due_jobs up to its save_jobs, which it skips if nothing changed. *)
GetDueLoad(p) ==
    /\ pc[p] = "due" /\ ~lock[p]
    /\ due' = [due EXCEPT ![p] =
                 [j \in Jobs |-> IF IsDue(disk[j], now)
                                 THEN DueRecord(disk[j], now) ELSE NoJob]]
    /\ IF DueFile(disk, now) = disk
       THEN /\ todo' = [todo EXCEPT ![p] = {j \in Jobs : IsDue(disk[j], now)}]
            /\ pc' = [pc EXCEPT ![p] = "advance"]
            /\ UNCHANGED <<lock, tfile>>
       ELSE /\ lock' = [lock EXCEPT ![p] = TRUE]
            /\ tfile' = [tfile EXCEPT ![p] = DueFile(disk, now)]
            /\ pc' = [pc EXCEPT ![p] = "dueSave"]
            /\ UNCHANGED todo
    /\ trig' = trig \ {j \in Jobs : IsDue(disk[j], now)}
    /\ UNCHANGED <<disk, now, flock, work, wfile, edit, born, fired, marks,
                   crashes, edits>>

GetDueSave(p) ==
    /\ pc[p] = "dueSave"
    /\ disk' = tfile[p]
    /\ tfile' = [tfile EXCEPT ![p] = None]
    /\ lock' = [lock EXCEPT ![p] = FALSE]
    /\ todo' = [todo EXCEPT ![p] = {j \in Jobs : due[p][j] # NoJob}]
    /\ pc' = [pc EXCEPT ![p] = "advance"]
    /\ UNCHANGED <<now, flock, due, work, wfile, edit, born, hist, crashes,
                   edits>>

(* advance_next_run for one due job, up to its save_jobs. *)
AdvanceLoad(p, j) ==
    /\ pc[p] = "advance" /\ j \in todo[p] /\ ~lock[p]
    /\ todo' = [todo EXCEPT ![p] = @ \ {j}]
    /\ IF AdvancedFile(disk, j, now) = disk
       THEN UNCHANGED <<lock, tfile, pc>>
       ELSE /\ lock' = [lock EXCEPT ![p] = TRUE]
            /\ tfile' = [tfile EXCEPT ![p] = AdvancedFile(disk, j, now)]
            /\ pc' = [pc EXCEPT ![p] = "advanceSave"]
    /\ UNCHANGED <<disk, now, flock, due, work, wfile, edit, born, hist,
                   crashes, edits>>

AdvanceSave(p) ==
    /\ pc[p] = "advanceSave"
    /\ disk' = tfile[p]
    /\ tfile' = [tfile EXCEPT ![p] = None]
    /\ lock' = [lock EXCEPT ![p] = FALSE]
    /\ pc' = [pc EXCEPT ![p] = "advance"]
    /\ UNCHANGED <<now, flock, due, todo, work, wfile, edit, born, hist,
                   crashes, edits>>

(* All due jobs are advanced: hand them to _process_job. *)
Dispatch(p) ==
    /\ pc[p] = "advance" /\ todo[p] = {}
    /\ pc' = [pc EXCEPT ![p] = "run"]
    /\ work' = [work EXCEPT ![p] =
                  [j \in Jobs |-> IF due[p][j] # NoJob THEN "queued"
                                                       ELSE "none"]]
    /\ UNCHANGED <<disk, now, flock, lock, due, todo, tfile, wfile, edit, born,
                   hist, crashes, edits>>

Active(p) == {j \in Jobs : work[p][j] \in {"running", "marking"}}

(* Mutant: the others do not wait for the sequential jobs. *)
MayStartTogether(p, j) ==
    IF j \in Sequential THEN Active(p) = {} ELSE Cardinality(Active(p)) < MaxParallel

(* Sequential jobs go first and one by one, the others share the pool. *)
MayStart(p, j) ==
    IF j \in Sequential THEN Active(p) = {}
    ELSE /\ \A k \in Sequential : work[p][k] \in {"none", "done"}
         /\ Cardinality(Active(p)) < MaxParallel

RunStart(p, j) ==
    /\ pc[p] = "run" /\ work[p][j] = "queued" /\ MayStart(p, j)
    /\ work' = [work EXCEPT ![p][j] = "running"]
    /\ fired' = [fired EXCEPT ![j] = due[p][j].next]
    /\ UNCHANGED <<disk, now, flock, lock, pc, due, todo, tfile, wfile, edit,
                   born, marks, trig, crashes, edits>>

(* Mutant: mark_job_run without _jobs_file_lock. *)
MarkLoadUnlocked(p, j) ==
    /\ work[p][j] = "running" /\ disk[j] # NoJob
    /\ work' = [work EXCEPT ![p][j] = "marking"]
    /\ wfile' = [wfile EXCEPT ![p][j] = MarkedFile(disk, j, now)]
    /\ UNCHANGED <<disk, now, flock, lock, pc, due, todo, tfile, edit, born,
                   hist, crashes, edits>>

(* The run is over, whatever its outcome: mark_job_run up to its save_jobs.
   A job that has left the file is skipped. *)
MarkLoad(p, j) ==
    /\ work[p][j] = "running" /\ ~lock[p]
    /\ IF disk[j] = NoJob
       THEN /\ work' = [work EXCEPT ![p][j] = "done"]
            /\ UNCHANGED <<lock, wfile>>
       ELSE /\ work' = [work EXCEPT ![p][j] = "marking"]
            /\ lock' = [lock EXCEPT ![p] = TRUE]
            /\ wfile' = [wfile EXCEPT ![p][j] = MarkedFile(disk, j, now)]
    /\ UNCHANGED <<disk, now, flock, pc, due, todo, tfile, edit, born, hist,
                   crashes, edits>>

MarkSave(p, j) ==
    /\ work[p][j] = "marking"
    /\ disk' = wfile[p][j]
    /\ wfile' = [wfile EXCEPT ![p][j] = None]
    /\ work' = [work EXCEPT ![p][j] = "done"]
    /\ lock' = [lock EXCEPT ![p] = FALSE]
    /\ marks' = [marks EXCEPT ![j] = @ + 1]
    /\ UNCHANGED <<now, flock, pc, due, todo, tfile, edit, born, fired, trig,
                   crashes, edits>>

(* Mutant: a path out of tick that leaves the file lock taken. *)
TickEndLeaks(p) ==
    /\ pc[p] = "run"
    /\ \A j \in Jobs : work[p][j] \in {"none", "done"}
    /\ pc' = [pc EXCEPT ![p] = "idle"]
    /\ work' = [work EXCEPT ![p] = Idle]
    /\ due' = [due EXCEPT ![p] = NothingDue]
    /\ UNCHANGED <<disk, now, flock, lock, todo, tfile, wfile, edit, born,
                   hist, crashes, edits>>

(* tick returns, or raises after 600 s: either way the pool is joined first
   and the file lock released last. *)
TickEnd(p) ==
    /\ pc[p] = "run"
    /\ \A j \in Jobs : work[p][j] \in {"none", "done"}
    /\ pc' = [pc EXCEPT ![p] = "idle"]
    /\ work' = [work EXCEPT ![p] = Idle]
    /\ due' = [due EXCEPT ![p] = NothingDue]
    /\ flock' = None
    /\ UNCHANGED <<disk, now, lock, todo, tfile, wfile, edit, born, hist,
                   crashes, edits>>

(* Mutant: a lock that outlives its holder. *)
CrashKeepsLock(p) ==
    /\ crashes < MaxCrashes /\ pc[p] # "idle"
    /\ crashes' = crashes + 1
    /\ pc' = [pc EXCEPT ![p] = "idle"]
    /\ due' = [due EXCEPT ![p] = NothingDue]
    /\ todo' = [todo EXCEPT ![p] = {}]
    /\ tfile' = [tfile EXCEPT ![p] = None]
    /\ work' = [work EXCEPT ![p] = Idle]
    /\ wfile' = [wfile EXCEPT ![p] = Unread]
    /\ lock' = [lock EXCEPT ![p] = FALSE]
    /\ UNCHANGED <<disk, now, flock, edit, born, hist, edits>>

(* A scheduler process dies in the middle of a tick and is started again. *)
Crash(p) ==
    /\ crashes < MaxCrashes /\ pc[p] # "idle"
    /\ crashes' = crashes + 1
    /\ pc' = [pc EXCEPT ![p] = "idle"]
    /\ due' = [due EXCEPT ![p] = NothingDue]
    /\ todo' = [todo EXCEPT ![p] = {}]
    /\ tfile' = [tfile EXCEPT ![p] = None]
    /\ work' = [work EXCEPT ![p] = Idle]
    /\ wfile' = [wfile EXCEPT ![p] = Unread]
    /\ lock' = [lock EXCEPT ![p] = FALSE]
    /\ flock' = IF flock = p THEN None ELSE flock
    /\ UNCHANGED <<disk, now, edit, born, hist, edits>>

-----------------------------------------------------------------------------
(* The user's operations *)

Operation(op, j, seen, file) ==
    [op |-> op, job |-> j, seen |-> seen, file |-> file]

NoEdit == Operation("none", None, NoJob, None)

(* The first load of an operation on an existing job: resolve_job_ref. *)
EditResolve(e, op, j) ==
    /\ edits < MaxEdits /\ edit[e] = NoEdit
    /\ op \in EditOps \ {"create"} /\ disk[j] # NoJob
    /\ edit' = [edit EXCEPT ![e] = Operation(op, j, disk[j], None)]
    /\ edits' = edits + 1
    /\ UNCHANGED <<disk, now, sched, born, hist, crashes>>

(* The fields an operation overrides, given the record seen on resolving:
   pause_job, resume_job, trigger_job and the tool's "update" (which rewrites
   the repeat record, completed count included, from the record it saw). *)
Overridden(op, r, seen, s, times, t) ==
    CASE op = "edit" -> r
      [] op = "repeat" ->
           [r EXCEPT !.times = times, !.completed = seen.completed]
      [] op = "reschedule" ->
           IF seen.state # "paused"
           THEN [r EXCEPT !.schedule = s, !.enabled = TRUE,
                          !.state = "scheduled"]
           ELSE [r EXCEPT !.schedule = s]
      [] op = "pause" -> [r EXCEPT !.enabled = FALSE, !.state = "paused"]
      [] op = "resume" ->
           [r EXCEPT !.enabled = TRUE, !.state = "scheduled",
                     !.next = ComputeNextRun(seen.schedule, None, t)]
      [] op = "trigger" ->
           [r EXCEPT !.enabled = TRUE, !.state = "scheduled", !.next = t]

(* update_job: the derived next_run_at is refreshed when the schedule changed
   or when a job that should run has none. *)
Updated(op, r, seen, s, times, t) ==
    LET u == Overridden(op, r, seen, s, times, t)
        stale == \/ op = "reschedule" /\ u.state # "paused"
                 \/ u.enabled /\ u.state # "paused" /\ u.next = None
    IN  IF stale THEN [u EXCEPT !.next = ComputeNextRun(u.schedule, None, t)]
                 ELSE u

(* The second load, on which the change is applied; a job that has left the
   file in the meantime ends the operation. *)
EditLoad(e) ==
    /\ edit[e].seen # NoJob
    /\ LET op == edit[e].op
           j == edit[e].job
       IN  IF disk[j] = NoJob
           THEN edit' = [edit EXCEPT ![e] = NoEdit]
           ELSE \E s \in IF op = "reschedule" THEN Schedules
                                               ELSE {disk[j].schedule},
                   times \in IF op = "repeat" THEN Repeats
                                              ELSE {disk[j].times} :
                   edit' = [edit EXCEPT ![e] = Operation(op, j, NoJob,
                     [disk EXCEPT ![j] =
                        IF op = "remove" THEN NoJob
                        ELSE Updated(op, disk[j], edit[e].seen, s, times, now)])]
    /\ UNCHANGED <<disk, now, sched, born, hist, crashes, edits>>

CreateLoad(e, j, s, times) ==
    /\ edits < MaxEdits /\ edit[e] = NoEdit
    /\ "create" \in EditOps /\ j \notin born
    /\ s.kind = "cron" => HasCroniter
    /\ born' = born \cup {j}
    /\ edit' = [edit EXCEPT ![e] =
                  Operation("create", j, NoJob,
                            [disk EXCEPT ![j] = NewJob(s, times, now)])]
    /\ edits' = edits + 1
    /\ UNCHANGED <<disk, now, sched, hist, crashes>>

(* save_jobs of the whole file read earlier, without a lock. *)
EditSave(e) ==
    /\ edit[e].file # None
    /\ disk' = edit[e].file
    /\ trig' = IF edit[e].op = "trigger" THEN trig \cup {edit[e].job}
               ELSE trig \ {edit[e].job}
    /\ edit' = [edit EXCEPT ![e] = NoEdit]
    /\ UNCHANGED <<now, sched, born, fired, marks, crashes, edits>>

Tock ==
    /\ now < MaxTime
    /\ now' = now + 1
    /\ UNCHANGED <<disk, sched, edit, born, hist, crashes, edits>>

-----------------------------------------------------------------------------
(* At time 0 the file holds jobs just created, any subset of them; croniter
   was installed then, whether or not it still is. *)
Init ==
    /\ now = 0
    /\ born \in SUBSET Jobs
    /\ disk \in [Jobs -> {NewJob(s, times, 0) : s \in Schedules,
                                                times \in Repeats}
                         \cup {NoJob}]
    /\ \A j \in Jobs : j \in born <=> disk[j] # NoJob
    /\ flock = None
    /\ lock = [p \in Procs |-> FALSE]
    /\ pc = [p \in Procs |-> "idle"]
    /\ due = [p \in Procs |-> NothingDue]
    /\ todo = [p \in Procs |-> {}]
    /\ tfile = [p \in Procs |-> None]
    /\ work = [p \in Procs |-> Idle]
    /\ wfile = [p \in Procs |-> Unread]
    /\ edit = [e \in Editors |-> NoEdit]
    /\ fired = [j \in Jobs |-> None]
    /\ marks = [j \in Jobs |-> 0]
    /\ trig = {}
    /\ crashes = 0 /\ edits = 0

TickStep(p) ==
    \/ TickStart(p) \/ GetDueLoad(p) \/ GetDueSave(p) \/ AdvanceSave(p)
    \/ Dispatch(p) \/ TickEnd(p)
    \/ \E j \in Jobs : \/ AdvanceLoad(p, j) \/ RunStart(p, j)
                       \/ MarkLoad(p, j) \/ MarkSave(p, j)

EditStep(e) ==
    \/ \E j \in Jobs, op \in EditOps : EditResolve(e, op, j)
    \/ \E j \in Jobs, s \in Schedules, times \in Repeats :
          CreateLoad(e, j, s, times)
    \/ EditLoad(e) \/ EditSave(e)

Next ==
    \/ Tock
    \/ \E p \in Procs : TickStep(p) \/ Crash(p)
    \/ \E e \in Editors : EditStep(e)

Spec == Init /\ [][Next]_vars

(* The ticker thread calls tick for as long as its process lives, a tick is a
   loop without waits of its own, and runs end (inactivity timeout). *)
Fairness == WF_vars(Tock) /\ \A p \in Procs : WF_vars(TickStep(p))
FairSpec == Spec /\ Fairness

-----------------------------------------------------------------------------
(* Properties *)

Threads == {"idle", "due", "dueSave", "advance", "advanceSave", "run"}
RunStates == {"none", "queued", "running", "marking", "done"}

EditRecord == [op : {"none"} \cup AllOps, job : Jobs \cup {None},
               seen : Job \cup {NoJob}, file : File \cup {None}]

(* The type invariant: every variable, the files in memory included, holds
   what jobs.py and scheduler.py put there. *)
TypeOK ==
    /\ disk \in File
    /\ now \in 0..MaxTime
    /\ flock \in Procs \cup {None}
    /\ lock \in [Procs -> BOOLEAN]
    /\ pc \in [Procs -> Threads]
    /\ due \in [Procs -> File]
    /\ todo \in [Procs -> SUBSET Jobs]
    /\ tfile \in [Procs -> File \cup {None}]
    /\ work \in [Procs -> [Jobs -> RunStates]]
    /\ wfile \in [Procs -> [Jobs -> File \cup {None}]]
    /\ edit \in [Editors -> EditRecord]
    /\ born \subseteq Jobs
    /\ fired \in [Jobs -> Nat \cup {None}]
    /\ marks \in [Jobs -> Nat]
    /\ trig \subseteq Jobs
    /\ crashes \in Nat /\ edits \in Nat

(* No two processes execute a job at the same time, whatever crashes and
   edits there are: the file lock of tick covers the whole of every run, and
   a dead process leaves neither the lock nor a run behind. *)
NoConcurrentRun ==
    \A p, q \in Procs, j \in Jobs :
        j \in Active(p) /\ j \in Active(q) => p = q

(* A run of a recurring job starts for a later occurrence than the run before
   it: no occurrence is run twice, not even if the process dies in the middle
   of a run and its successor ticks at once (advance_next_run's purpose). *)
AtMostOnce ==
    [][\A p \in Procs, j \in Jobs :
         /\ work[p][j] = "queued" /\ work'[p][j] = "running"
         /\ Recurring(due[p][j].schedule)
         => fired[j] = None \/ due[p][j].next > fired[j]]_vars

(* Every run mark_job_run counted is still counted in the file: parallel
   workers and the next tick do not overwrite each other's records. *)
NoLostMark ==
    \A j \in Jobs : disk[j] # NoJob => disk[j].completed = marks[j]

(* A job is never kept once it was counted as often as its repeat limit
   allows; so it completes at most that many runs. *)
RepeatLimit ==
    \A j \in Jobs : disk[j] # NoJob /\ disk[j].times # None
                    => marks[j] < disk[j].times

InFile == {j \in Jobs : disk[j] # NoJob}

(* While nobody edits jobs.json, the scheduler keeps what JobLedger promises
   of it, although a tick works on copies of the file, several processes tick
   and any of them may die. *)
Ledger == INSTANCE JobLedger WITH
              Times <- 0..MaxTime,
              file <- InFile,
              once <- {j \in InFile : ~Recurring(disk[j].schedule)},
              limit <- [j \in Jobs |-> IF j \in InFile THEN disk[j].times ELSE None],
              count <- marks,
              last <- fired,
              busy <- UNION {Active(p) : p \in Procs}

LedgerKept == Ledger!Spec

(* A recurring job stops being scheduled only at the user's request: no
   outcome of its runs and no other operation disables it (jobs.py:907-912). *)
RecurringNeverDisabled ==
    \A j \in Jobs : disk[j] # NoJob /\ Recurring(disk[j].schedule)
                    => disk[j].enabled \/ disk[j].state = "paused"

(* "Schedule a job to run on the next scheduler tick" (jobs.py:835): a job
   that was triggered stays due until a tick picks it up. *)
TriggerKept ==
    \A j \in trig : disk[j] # NoJob => disk[j].next # None /\ disk[j].next <= now

(* A one-shot with a run time is eventually run and retired: neither a crash
   in the middle of its run nor the other process keeps it for ever. *)
PendingOneShot(r) ==
    r # NoJob /\ r.schedule.kind = "once" /\ r.enabled /\ r.next # None

OneShotRetired ==
    \A j \in Jobs : PendingOneShot(disk[j]) ~> ~PendingOneShot(disk[j])

(* A job that is due does not stay due: it is run or moved to its next run,
   or the user disables, removes or reschedules it.  No edit that overwrites
   the scheduler's records, and no crash, leaves it due for ever. *)
IsWaiting(r, t) == r # NoJob /\ r.enabled /\ r.next # None /\ r.next <= t

DueHandled ==
    \A j \in Jobs : IsWaiting(disk[j], now) ~> ~IsWaiting(disk[j], now)
=============================================================================
