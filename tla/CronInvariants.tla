--------------------------- MODULE CronInvariants ---------------------------
(* The inductive invariants behind the safety properties of CronJobs: TLC
   checks them, CronJobs_proofs proves them inductive. *)
EXTENDS CronJobs

Saving == {"dueSave", "advanceSave"}

(* Only the holder of the file lock is inside a tick, and only one of its
   threads is between a load and a save. *)
LockInv ==
    /\ \A p \in Procs : pc[p] # "idle" <=> flock = p
    /\ \A p \in Procs, j \in Jobs : work[p][j] # "none" => pc[p] = "run"
    /\ \A p \in Procs :
          lock[p] <=> pc[p] \in Saving \/ \E j \in Jobs : work[p][j] = "marking"
    /\ \A p \in Procs, j, k \in Jobs :
          work[p][j] = "marking" /\ work[p][k] = "marking" => j = k
    /\ \A p \in Procs : pc[p] \in Saving => tfile[p] \in File
    /\ \A p \in Procs, j \in Jobs :
          /\ work[p][j] = "marking" => wfile[p][j] \in File
          /\ work[p][j] # "none" => due[p][j] # NoJob

(* An operation under way knows its job; one that has only resolved it is on
   a job that exists. *)
EditInv ==
    \A e \in Editors :
        /\ edit[e].file # None => edit[e].job \in Jobs
        /\ edit[e].seen # NoJob =>
              edit[e].job \in Jobs /\ edit[e].op \in AllOps \ {"create"}

(* The invariant that holds whatever the user does. *)
SchedInv == TypeOK /\ LockInv /\ EditInv

SameCount(r, q) ==
    /\ (r = NoJob) <=> (q = NoJob)
    /\ r # NoJob => r.completed = q.completed /\ r.times = q.times

OneMore(r, q) ==
    r # NoJob => /\ r.completed = q.completed + 1 /\ r.times = q.times
                 /\ r.times # None => r.completed < r.times

(* A file in memory that will be saved counts every run jobs.json counts. *)
CountInv ==
    /\ NoLostMark /\ RepeatLimit
    /\ \A p \in Procs, j \in Jobs :
          pc[p] \in Saving => SameCount(tfile[p][j], disk[j])
    /\ \A p \in Procs, j, k \in Jobs :
          work[p][j] = "marking" =>
             /\ disk[j] # NoJob
             /\ IF k = j THEN OneMore(wfile[p][j][k], disk[k])
                         ELSE SameCount(wfile[p][j][k], disk[k])

(* Job r, if it recurs, is next due after time x. *)
NextAfter(r, x) ==
    r # NoJob /\ Recurring(r.schedule) => r.next # None /\ r.next > x

(* jobs.json, and every file that will replace it, is past time x of job j. *)
FilesAfter(j, x) ==
    /\ NextAfter(disk[j], x)
    /\ \A p \in Procs, k \in Jobs :
          work[p][k] = "marking" => NextAfter(wfile[p][k][j], x)

(* What is known of a due job: its occurrence is not in the future, no run
   has started for it before, and once it is advanced no file holds it. *)
DueInv(p, j) ==
    LET d == due[p][j].next
    IN  /\ d # None /\ d <= now
        /\ Recurring(due[p][j].schedule) /\ (pc[p] # "run" \/ work[p][j] = "queued")
              => fired[j] = None \/ fired[j] < d
        /\ pc[p] = "run" \/ (pc[p] = "advance" /\ j \notin todo[p])
              => FilesAfter(j, d)
        /\ pc[p] = "advanceSave" /\ j \notin todo[p]
              => NextAfter(tfile[p][j], d)

OccInv ==
    /\ \A j \in Jobs :
          fired[j] # None => fired[j] <= now /\ FilesAfter(j, fired[j])
    /\ \A p \in Procs, j \in Jobs :
          pc[p] \in Saving /\ fired[j] # None => NextAfter(tfile[p][j], fired[j])
    /\ \A p \in Procs, j \in Jobs :
          pc[p] \notin {"idle", "due"} /\ due[p][j] # NoJob => DueInv(p, j)

(* A one-shot has one time, and no next run once a run of it was counted. *)
OnceKept(r) ==
    r # NoJob /\ ~Recurring(r.schedule) =>
       /\ r.next \in {None, r.schedule.at}
       /\ r.last # None => r.next = None
       /\ r.completed > 0 => r.last # None

SameSchedule(r, q) == r # NoJob /\ q # NoJob => r.schedule = q.schedule

(* A due job that has not been run to its end is in the file as it was; a
   one-shot of them was not counted before its run. *)
PickInv(p, j) ==
    LET d == due[p][j]
    IN  /\ disk[j] # NoJob /\ disk[j].schedule = d.schedule
        /\ ~Recurring(d.schedule) /\ work[p][j] \in {"none", "queued"}
              => d.next = d.schedule.at /\ marks[j] = 0

(* What refines JobLedger besides: copies keep the schedules, a job leaves
   the file at its limit only, and one-shots keep their time. *)
LedgerInv ==
    /\ \A j \in Jobs :
          /\ OnceKept(disk[j])
          /\ disk[j] # NoJob /\ ~Recurring(disk[j].schedule)
                => fired[j] \in {None, disk[j].schedule.at}
    /\ \A p \in Procs, j \in Jobs :
          pc[p] \in Saving =>
             OnceKept(tfile[p][j]) /\ SameSchedule(tfile[p][j], disk[j])
    /\ \A p \in Procs, j, k \in Jobs :
          work[p][j] = "marking" =>
             /\ OnceKept(wfile[p][j][k]) /\ SameSchedule(wfile[p][j][k], disk[k])
             /\ k = j /\ wfile[p][j][k] = NoJob => LimitReached(disk[k])
    /\ \A p \in Procs, j \in Jobs :
          /\ pc[p] \notin {"idle", "due"} /\ work[p][j] # "done"
          /\ due[p][j] # NoJob
          => PickInv(p, j)

(* The invariant of the scheduler when nobody edits jobs.json meanwhile. *)
CronInv == LockInv /\ CountInv /\ OccInv /\ LedgerInv

(* A recurring job is scheduled or, if a run of it can still be computed,
   paused. *)
StaysScheduled(r) ==
    r # NoJob /\ Recurring(r.schedule)
      => r.enabled \/ (r.state = "paused" /\ HasCroniter)

(* jobs.json, and every file that will replace it, keep recurring jobs
   scheduled. *)
OutcomeInv ==
    \A j \in Jobs :
        /\ StaysScheduled(disk[j])
        /\ \A p \in Procs : pc[p] \in Saving => StaysScheduled(tfile[p][j])
        /\ \A p \in Procs, k \in Jobs :
              work[p][k] = "marking" => StaysScheduled(wfile[p][k][j])
        /\ \A e \in Editors :
              /\ edit[e].file # None => StaysScheduled(edit[e].file[j])
              /\ edit[e].seen # NoJob => edit[e].op \in EditOps
=============================================================================
