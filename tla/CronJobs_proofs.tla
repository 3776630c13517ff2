--------------------------- MODULE CronJobs_proofs ---------------------------
(* Proofs about CronJobs, for any number of jobs, processes and editors. *)
EXTENDS CronInvariants, FiniteSetTheorems, TLAPS

-----------------------------------------------------------------------------
(* Operators: what they return for well-typed arguments *)

(* The time a one-shot may still run at is a time or unset. *)
LEMMA RecoverableType ==
    ASSUME NEW s \in Schedules, NEW last, NEW t, ~Recurring(s)
    PROVE  RecoverableOneshot(s, last, t) \in Nat \cup {None}
  BY CronAssumption DEF RecoverableOneshot, Recurring

(* A next run computed for a recurring schedule is after its base. *)
LEMMA FollowingType ==
    ASSUME NEW s \in Schedules, NEW t \in 0..MaxTime, Recurring(s)
    PROVE  Following(s, t) \in Nat /\ Following(s, t) > t
  BY CronAssumption DEF Following, Recurring

(* compute_next_run returns a time or None; for a recurring schedule a time
   after its base, unless croniter is missing. *)
LEMMA ComputeType ==
    ASSUME NEW s \in Schedules, NEW t \in 0..MaxTime,
           NEW last \in 0..MaxTime \cup {None}
    PROVE  /\ ComputeNextRun(s, last, t) \in Nat \cup {None}
           /\ Recurring(s) /\ last = t =>
                ComputeNextRun(s, last, t) = None \/ ComputeNextRun(s, last, t) > t
           /\ Recurring(s) /\ HasCroniter =>
                ComputeNextRun(s, last, t) # None
  <1>1. CASE ~Recurring(s)
    BY <1>1, RecoverableType, CronAssumption DEF ComputeNextRun, Recurring
  <1>2. CASE Recurring(s)
    <2> DEFINE base == IF last = None THEN t ELSE last
    <2>1. base \in 0..MaxTime
      BY CronAssumption
    <2>2. Following(s, base) \in Nat /\ Following(s, base) > base
      BY <1>2, <2>1, FollowingType
    <2>3. None \notin Nat /\ t # None
      BY CronAssumption
    <2>4. ComputeNextRun(s, last, t)
            = IF s.kind = "cron" /\ ~HasCroniter THEN None
                                                 ELSE Following(s, base)
      BY <1>2 DEF ComputeNextRun, Recurring
    <2> HIDE DEF base
    <2>5. last = t => base = t
      BY <2>3 DEF base
    <2> QED
      BY <1>2, <2>2, <2>3, <2>4, <2>5
  <1> QED
    BY <1>1, <1>2

(* A new job is a job. *)
LEMMA NewJobType ==
    ASSUME NEW s \in Schedules, NEW times \in Repeats, NEW t \in 0..MaxTime
    PROVE  NewJob(s, times, t) \in Job
  <1>1. (IF Recurring(s) THEN Following(s, t) ELSE RecoverableOneshot(s, None, t))
          \in Nat \cup {None}
    BY FollowingType, RecoverableType
  <1> QED
    BY <1>1 DEF NewJob, Job

LEMMA EffectiveType ==
    ASSUME NEW r \in Job, NEW t \in 0..MaxTime
    PROVE  EffectiveNext(r, t) \in Nat \cup {None}
  <1>1. r.schedule \in Schedules /\ r.next \in Nat \cup {None}
    BY DEF Job
  <1> QED
    BY <1>1, ComputeType, RecoverableType DEF EffectiveNext

(* get_due_jobs changes only next_run_at of a record. *)
LEMMA DueRecordType ==
    ASSUME NEW r \in Job, NEW t \in 0..MaxTime
    PROVE  /\ DueRecord(r, t) \in Job
           /\ DueRecord(r, t).schedule = r.schedule
           /\ DueRecord(r, t).completed = r.completed
           /\ DueRecord(r, t).times = r.times
  <1>1. r.schedule \in Schedules
    BY DEF Job
  <1>2. /\ EffectiveNext(r, t) \in Nat \cup {None}
        /\ ComputeNextRun(r.schedule, t, t) \in Nat \cup {None}
    BY <1>1, EffectiveType, ComputeType
  <1> DEFINE n == IF Stale(r, t) THEN ComputeNextRun(r.schedule, t, t)
                                 ELSE EffectiveNext(r, t)
  <1>3. n \in Nat \cup {None}
    BY <1>2
  <1>4. DueRecord(r, t) = IF ~Considered(r, t) THEN r ELSE [r EXCEPT !.next = n]
    BY DEF DueRecord
  <1> HIDE DEF n
  <1> QED
    BY <1>3, <1>4 DEF Job

LEMMA MarkedType ==
    ASSUME NEW r \in Job, NEW t \in 0..MaxTime
    PROVE  /\ Marked(r, t) \in Job
           /\ Marked(r, t).schedule = r.schedule
           /\ Marked(r, t).completed = r.completed + 1
           /\ Marked(r, t).times = r.times
           /\ Marked(r, t).last = t
           /\ Marked(r, t).next = ComputeNextRun(r.schedule, t, t)
  <1> DEFINE n == ComputeNextRun(r.schedule, t, t)
  <1>1. n \in Nat \cup {None}
    BY ComputeType DEF Job
  <1> DEFINE en == r.enabled /\ (n # None \/ Recurring(r.schedule))
             st == IF n = None
                   THEN IF Recurring(r.schedule) THEN "error" ELSE "completed"
                   ELSE IF r.state = "paused" THEN r.state ELSE "scheduled"
  <1>2. Marked(r, t) = [r EXCEPT !.last = t, !.completed = @ + 1, !.next = n,
                                 !.enabled = en, !.state = st]
    BY DEF Marked, Job
  <1>3. st \in {"scheduled", "paused", "error", "completed"}
    OBVIOUS
  <1>4. en \in BOOLEAN
    BY DEF Job
  <1>5. t \in Nat
    BY CronAssumption
  <1> DEFINE c == r.completed + 1
  <1>6. c \in Nat
    BY DEF Job
  <1>7. Marked(r, t) = [r EXCEPT !.last = t, !.completed = c, !.next = n,
                                 !.enabled = en, !.state = st]
    BY <1>2 DEF Job
  <1> HIDE DEF en, st, n, c
  <1>8. Marked(r, t) = [schedule |-> r.schedule, times |-> r.times,
                        completed |-> c, enabled |-> en, state |-> st,
                        next |-> n, last |-> t]
    BY <1>7 DEF Job
  <1>9. Marked(r, t) \in Job
    BY <1>1, <1>3, <1>4, <1>5, <1>6, <1>8 DEF Job
  <1> QED
    BY <1>8, <1>9 DEF n, c

(* The file after each operation is a file. *)
LEMMA FileTypes ==
    ASSUME NEW f \in File, NEW t \in 0..MaxTime, NEW j \in Jobs
    PROVE  /\ DueFile(f, t) \in File
           /\ AdvancedFile(f, j, t) \in File
           /\ f[j] # NoJob => MarkedFile(f, j, t) \in File
  <1>1. DueFile(f, t) \in File
    <2>1. ASSUME NEW k \in Jobs PROVE DueRecord(f[k], t) \in Job \cup {NoJob}
      <3>1. CASE f[k] = NoJob
        BY <3>1 DEF DueRecord, Considered
      <3>2. CASE f[k] \in Job
        BY <3>2, DueRecordType
      <3> QED
        BY <3>1, <3>2 DEF File
    <2> QED
      BY <2>1 DEF DueFile, File
  <1>2. AdvancedFile(f, j, t) \in File
    <2>1. CASE f[j] = NoJob
      BY <2>1 DEF AdvancedFile
    <2>2. CASE f[j] \in Job
      <3> DEFINE n == ComputeNextRun(f[j].schedule, t, t)
      <3>1. n \in Nat \cup {None}
        BY <2>2, ComputeType DEF Job
      <3>2. [f[j] EXCEPT !.next = n] \in Job
        BY <2>2, <3>1 DEF Job
      <3>3. AdvancedFile(f, j, t) \in {f, [f EXCEPT ![j].next = n]}
        BY DEF AdvancedFile
      <3> QED
        BY <3>2, <3>3 DEF File
    <2> QED
      BY <2>1, <2>2 DEF File
  <1>3. ASSUME f[j] # NoJob PROVE MarkedFile(f, j, t) \in File
    <2>1. Marked(f[j], t) \in Job
      BY <1>3, MarkedType DEF File
    <2> QED
      BY <2>1 DEF MarkedFile, File
  <1> QED
    BY <1>1, <1>2, <1>3

-----------------------------------------------------------------------------
(* The invariant that holds whatever the user does *)

LEMMA SchedInit == Init => SchedInv
  <1> SUFFICES ASSUME Init PROVE SchedInv
    OBVIOUS
  <1>1. disk \in File
    <2>1. 0 \in 0..MaxTime
      BY CronAssumption
    <2>2. \A s \in Schedules, times \in Repeats : NewJob(s, times, 0) \in Job
      BY <2>1, NewJobType
    <2> QED
      BY <2>2 DEF Init, File
  <1>2. due \in [Procs -> File] /\ work \in [Procs -> [Jobs -> RunStates]]
    BY DEF Init, NothingDue, Idle, File, RunStates
  <1>3. wfile \in [Procs -> [Jobs -> File \cup {None}]]
    BY DEF Init, Unread
  <1>4. edit \in [Editors -> EditRecord]
    BY DEF Init, NoEdit, Operation, EditRecord
  <1>5. TypeOK
    BY <1>1, <1>2, <1>3, <1>4, CronAssumption DEF Init, TypeOK, Threads
  <1>6. LockInv
    BY CronAssumption DEF Init, LockInv, Saving, Idle
  <1>7. EditInv
    BY DEF Init, EditInv, NoEdit, Operation
  <1> QED
    BY <1>5, <1>6, <1>7 DEF SchedInv

(* Steps of a tick: one lemma per action that changes a file. *)
LEMMA TickStartInv ==
    ASSUME SchedInv, NEW p \in Procs, TickStart(p) PROVE SchedInv'
  <1>1. TypeOK'
    BY DEF SchedInv, TypeOK, TickStart, hist, Threads
  <1>2. LockInv'
    BY CronAssumption DEF SchedInv, TypeOK, LockInv, TickStart, hist, Saving
  <1>3. EditInv'
    BY DEF SchedInv, EditInv, TickStart
  <1> QED
    BY <1>1, <1>2, <1>3 DEF SchedInv

LEMMA GetDueLoadInv ==
    ASSUME SchedInv, NEW p \in Procs, GetDueLoad(p) PROVE SchedInv'
  <1> USE DEF SchedInv
  <1>1. DueFile(disk, now) \in File
    BY FileTypes DEF TypeOK, DueFile, File
  <1>2. [j \in Jobs |-> IF IsDue(disk[j], now) THEN DueRecord(disk[j], now)
                                               ELSE NoJob] \in File
    BY <1>1 DEF DueFile, File
  <1> DEFINE found == {j \in Jobs : IsDue(disk[j], now)}
             f == DueFile(disk, now)
             d == [j \in Jobs |-> IF IsDue(disk[j], now)
                                  THEN DueRecord(disk[j], now) ELSE NoJob]
  <1>a. /\ pc[p] = "due" /\ ~lock[p]
        /\ due' = [due EXCEPT ![p] = d]
        /\ trig' = trig \ found
        /\ UNCHANGED <<disk, now, flock, work, wfile, edit, born, fired, marks,
                       crashes, edits>>
    BY DEF GetDueLoad
  <1>b. \/ /\ todo' = [todo EXCEPT ![p] = found]
           /\ pc' = [pc EXCEPT ![p] = "advance"]
           /\ UNCHANGED <<lock, tfile>>
        \/ /\ lock' = [lock EXCEPT ![p] = TRUE]
           /\ tfile' = [tfile EXCEPT ![p] = f]
           /\ pc' = [pc EXCEPT ![p] = "dueSave"]
           /\ UNCHANGED todo
    BY DEF GetDueLoad
  <1>c. found \subseteq Jobs /\ f \in File /\ d \in File
    BY <1>1, <1>2
  <1> HIDE DEF found, f, d
  <1>3. TypeOK'
    <2>1. due' \in [Procs -> File] /\ trig' \subseteq Jobs
      BY <1>a, <1>c DEF TypeOK
    <2>2. /\ todo' \in [Procs -> SUBSET Jobs] /\ pc' \in [Procs -> Threads]
          /\ lock' \in [Procs -> BOOLEAN]
          /\ tfile' \in [Procs -> File \cup {None}]
      <3>1. CASE UNCHANGED <<lock, tfile>>
        <4>1. pc' \in [Procs -> Threads] /\ todo' \in [Procs -> SUBSET Jobs]
          BY <1>b, <1>c DEF TypeOK, Threads
        <4> QED
          BY <3>1, <4>1 DEF TypeOK
      <3>2. CASE ~UNCHANGED <<lock, tfile>>
        <4>1. /\ lock' = [lock EXCEPT ![p] = TRUE]
              /\ tfile' = [tfile EXCEPT ![p] = f]
              /\ pc' = [pc EXCEPT ![p] = "dueSave"]
              /\ UNCHANGED todo
          BY <1>b, <3>2
        <4> QED
          BY <1>c, <4>1 DEF TypeOK, Threads
      <3> QED
        BY <3>1, <3>2
    <2> QED
      BY <1>a, <2>1, <2>2 DEF TypeOK
  <1>4. LockInv'
    <2>1. \A j \in Jobs : work[p][j] = "none"
      BY <1>a DEF LockInv
    <2>2. CASE /\ todo' = [todo EXCEPT ![p] = found]
               /\ pc' = [pc EXCEPT ![p] = "advance"]
               /\ UNCHANGED <<lock, tfile>>
      BY <1>a, <2>1, <2>2 DEF TypeOK, LockInv, Saving
    <2>3. CASE /\ lock' = [lock EXCEPT ![p] = TRUE]
               /\ tfile' = [tfile EXCEPT ![p] = f]
               /\ pc' = [pc EXCEPT ![p] = "dueSave"]
               /\ UNCHANGED todo
      BY <1>a, <1>c, <2>1, <2>3 DEF TypeOK, LockInv, Saving
    <2> QED
      BY <1>b, <2>2, <2>3
  <1>5. EditInv'
    BY DEF EditInv, GetDueLoad
  <1> QED
    BY <1>3, <1>4, <1>5

LEMMA GetDueSaveInv ==
    ASSUME SchedInv, NEW p \in Procs, GetDueSave(p) PROVE SchedInv'
  <1> USE DEF SchedInv
  <1>1. tfile[p] \in File
    BY DEF LockInv, GetDueSave, Saving
  <1>2. TypeOK'
    BY <1>1 DEF TypeOK, GetDueSave, hist, Threads
  <1>3. LockInv'
    BY DEF TypeOK, LockInv, GetDueSave, hist, Saving, Threads
  <1>4. EditInv'
    BY DEF EditInv, GetDueSave
  <1> QED
    BY <1>2, <1>3, <1>4

LEMMA AdvanceLoadInv ==
    ASSUME SchedInv, NEW p \in Procs, NEW j \in Jobs, AdvanceLoad(p, j)
    PROVE  SchedInv'
  <1> USE DEF SchedInv
  <1>1. AdvancedFile(disk, j, now) \in File
    BY FileTypes DEF TypeOK
  <1>2. TypeOK'
    BY <1>1 DEF TypeOK, AdvanceLoad, hist, Threads
  <1>3. LockInv'
    <2>1. \A k \in Jobs : work[p][k] = "none"
      BY DEF LockInv, AdvanceLoad
    <2>2. CASE UNCHANGED <<lock, tfile, pc>>
      BY <2>2 DEF LockInv, AdvanceLoad, hist
    <2>3. CASE ~UNCHANGED <<lock, tfile, pc>>
      <3>1. /\ lock' = [lock EXCEPT ![p] = TRUE]
            /\ tfile' = [tfile EXCEPT ![p] = AdvancedFile(disk, j, now)]
            /\ pc' = [pc EXCEPT ![p] = "advanceSave"]
            /\ UNCHANGED <<flock, work, wfile, due>> /\ pc[p] = "advance"
        BY <2>3 DEF AdvanceLoad
      <3> QED
        BY <1>1, <2>1, <3>1 DEF TypeOK, LockInv, Saving, Threads
    <2> QED
      BY <2>2, <2>3
  <1>4. EditInv'
    BY DEF EditInv, AdvanceLoad
  <1> QED
    BY <1>2, <1>3, <1>4

LEMMA AdvanceSaveInv ==
    ASSUME SchedInv, NEW p \in Procs, AdvanceSave(p) PROVE SchedInv'
  <1> USE DEF SchedInv
  <1>1. tfile[p] \in File
    BY DEF LockInv, AdvanceSave, Saving
  <1>2. TypeOK'
    BY <1>1 DEF TypeOK, AdvanceSave, hist, Threads
  <1>3. LockInv'
    BY DEF TypeOK, LockInv, AdvanceSave, hist, Saving, Threads
  <1>4. EditInv'
    BY DEF EditInv, AdvanceSave
  <1> QED
    BY <1>2, <1>3, <1>4

LEMMA DispatchInv ==
    ASSUME SchedInv, NEW p \in Procs, Dispatch(p) PROVE SchedInv'
  <1> USE DEF SchedInv
  <1> DEFINE w == [j \in Jobs |-> IF due[p][j] # NoJob THEN "queued" ELSE "none"]
  <1>1. /\ w \in [Jobs -> RunStates]
        /\ \A k \in Jobs : w[k] # "marking" /\ (w[k] # "none" => due[p][k] # NoJob)
    BY DEF RunStates
  <1>2. work' = [work EXCEPT ![p] = w]
    BY DEF Dispatch
  <1> HIDE DEF w
  <1>3. TypeOK'
    BY <1>1, <1>2 DEF TypeOK, Dispatch, hist, Threads
  <1>4. LockInv'
    <2>1. /\ pc[p] = "advance" /\ pc' = [pc EXCEPT ![p] = "run"]
          /\ UNCHANGED <<flock, lock, due, tfile, wfile>>
      BY DEF Dispatch
    <2>2. \A j \in Jobs : work[p][j] = "none"
      BY <2>1 DEF LockInv
    <2> QED
      BY <1>1, <1>2, <2>1, <2>2 DEF TypeOK, LockInv, Saving, Threads
  <1>5. EditInv'
    BY DEF EditInv, Dispatch
  <1> QED
    BY <1>3, <1>4, <1>5

LEMMA RunStartInv ==
    ASSUME SchedInv, NEW p \in Procs, NEW j \in Jobs, RunStart(p, j)
    PROVE  SchedInv'
  <1> USE DEF SchedInv
  <1>1. due[p][j] \in Job
    BY DEF LockInv, TypeOK, RunStart, File
  <1>2. due[p][j].next \in Nat \cup {None}
    BY <1>1 DEF Job
  <1>3. TypeOK'
    BY <1>2 DEF TypeOK, RunStart, hist, RunStates
  <1>4. LockInv'
    BY DEF TypeOK, LockInv, RunStart, Saving, RunStates
  <1>5. EditInv'
    BY DEF EditInv, RunStart
  <1> QED
    BY <1>3, <1>4, <1>5

LEMMA MarkLoadInv ==
    ASSUME SchedInv, NEW p \in Procs, NEW j \in Jobs, MarkLoad(p, j)
    PROVE  SchedInv'
  <1> USE DEF SchedInv
  <1>1. disk[j] # NoJob => MarkedFile(disk, j, now) \in File
    BY FileTypes DEF TypeOK
  <1> DEFINE f == MarkedFile(disk, j, now)
  <1>a. /\ work[p][j] = "running" /\ ~lock[p]
        /\ UNCHANGED <<disk, now, flock, pc, due, todo, tfile, edit, born,
                       fired, marks, trig, crashes, edits>>
    BY DEF MarkLoad, hist
  <1>b. \/ work' = [work EXCEPT ![p][j] = "done"] /\ UNCHANGED <<lock, wfile>>
        \/ /\ f \in File
           /\ work' = [work EXCEPT ![p][j] = "marking"]
           /\ lock' = [lock EXCEPT ![p] = TRUE]
           /\ wfile' = [wfile EXCEPT ![p][j] = f]
    BY <1>1 DEF MarkLoad
  <1> HIDE DEF f
  <1>2. TypeOK'
    <2>a. /\ work \in [Procs -> [Jobs -> RunStates]]
          /\ lock \in [Procs -> BOOLEAN]
          /\ wfile \in [Procs -> [Jobs -> File \cup {None}]]
      BY DEF TypeOK
    <2>b. \A x \in RunStates :
             [work EXCEPT ![p][j] = x] \in [Procs -> [Jobs -> RunStates]]
      BY <2>a
    <2>c. "done" \in RunStates /\ "marking" \in RunStates
      BY DEF RunStates
    <2>1. work' \in [Procs -> [Jobs -> RunStates]]
      BY <1>b, <2>b, <2>c
    <2>d. \A x \in File :
             [wfile EXCEPT ![p][j] = x] \in [Procs -> [Jobs -> File \cup {None}]]
      BY <2>a
    <2>2. /\ wfile' \in [Procs -> [Jobs -> File \cup {None}]]
          /\ lock' \in [Procs -> BOOLEAN]
      BY <1>b, <2>a, <2>d
    <2> QED
      BY <1>a, <2>1, <2>2 DEF TypeOK
  <1>3. LockInv'
    <2>1. pc[p] = "run" /\ \A k \in Jobs : work[p][k] # "marking"
      BY <1>a DEF LockInv
    <2>2. CASE work' = [work EXCEPT ![p][j] = "done"] /\ UNCHANGED <<lock, wfile>>
      <3>1. \A q \in Procs, k \in Jobs :
              work'[q][k] = IF q = p /\ k = j THEN "done" ELSE work[q][k]
        BY <2>2 DEF TypeOK
      <3> QED
        BY <1>a, <2>1, <2>2, <3>1 DEF LockInv, Saving
    <2>3. CASE /\ f \in File
               /\ work' = [work EXCEPT ![p][j] = "marking"]
               /\ lock' = [lock EXCEPT ![p] = TRUE]
               /\ wfile' = [wfile EXCEPT ![p][j] = f]
      <3>1. \A q \in Procs, k \in Jobs :
              /\ work'[q][k] = IF q = p /\ k = j THEN "marking" ELSE work[q][k]
              /\ wfile'[q][k] = IF q = p /\ k = j THEN f ELSE wfile[q][k]
        BY <2>3 DEF TypeOK
      <3>2. \A q \in Procs : lock'[q] = IF q = p THEN TRUE ELSE lock[q]
        BY <2>3 DEF TypeOK
      <3>3. \A q \in Procs :
              lock'[q] <=> pc'[q] \in Saving
                           \/ \E k \in Jobs : work'[q][k] = "marking"
        <4> TAKE q \in Procs
        <4>1. CASE q = p
          BY <3>1, <3>2, <4>1
        <4>2. CASE q # p
          <5>1. lock'[q] <=> lock[q]
            BY <2>3, <4>2 DEF TypeOK
          <5>2. pc'[q] = pc[q] /\ \A k \in Jobs : work'[q][k] = work[q][k]
            BY <1>a, <3>1, <4>2
          <5>3. lock[q] <=> pc[q] \in Saving
                            \/ \E k \in Jobs : work[q][k] = "marking"
            BY DEF LockInv
          <5> QED
            BY <5>1, <5>2, <5>3
        <4> QED
          BY <4>1, <4>2
      <3> QED
        BY <1>a, <2>1, <2>3, <3>1, <3>3 DEF LockInv, Saving
    <2> QED
      BY <1>b, <2>2, <2>3
  <1>4. EditInv'
    BY DEF EditInv, MarkLoad
  <1> QED
    BY <1>2, <1>3, <1>4

LEMMA MarkSaveInv ==
    ASSUME SchedInv, NEW p \in Procs, NEW j \in Jobs, MarkSave(p, j)
    PROVE  SchedInv'
  <1> USE DEF SchedInv
  <1>1. wfile[p][j] \in File
    BY DEF LockInv, MarkSave
  <1>2. TypeOK'
    BY <1>1 DEF TypeOK, MarkSave, hist, RunStates
  <1>3. LockInv'
    BY DEF TypeOK, LockInv, MarkSave, hist, Saving, RunStates
  <1>4. EditInv'
    BY DEF EditInv, MarkSave
  <1> QED
    BY <1>2, <1>3, <1>4

LEMMA TickEndInv ==
    ASSUME SchedInv, NEW p \in Procs, TickEnd(p) PROVE SchedInv'
  <1> USE DEF SchedInv
  <1>1. Idle \in [Jobs -> RunStates] /\ \A j \in Jobs : Idle[j] = "none"
    BY DEF Idle, RunStates
  <1>2. NothingDue \in File
    BY DEF NothingDue, File
  <1>3. TypeOK'
    BY <1>1, <1>2 DEF TypeOK, TickEnd, hist, Threads
  <1>4. LockInv'
    BY <1>1, CronAssumption DEF TypeOK, LockInv, TickEnd, hist, Saving
  <1>5. EditInv'
    BY DEF EditInv, TickEnd
  <1> QED
    BY <1>3, <1>4, <1>5

LEMMA CrashInv ==
    ASSUME SchedInv, NEW p \in Procs, Crash(p) PROVE SchedInv'
  <1> USE DEF SchedInv
  <1>1. Idle \in [Jobs -> RunStates] /\ \A j \in Jobs : Idle[j] = "none"
    BY DEF Idle, RunStates
  <1>2. NothingDue \in File /\ Unread \in [Jobs -> File \cup {None}]
    BY DEF NothingDue, File, Unread
  <1>3. TypeOK'
    BY <1>1, <1>2 DEF TypeOK, Crash, hist, Threads
  <1>4. LockInv'
    BY <1>1, CronAssumption DEF TypeOK, LockInv, Crash, hist, Saving
  <1>5. EditInv'
    BY DEF EditInv, Crash
  <1> QED
    BY <1>3, <1>4, <1>5

(* Whatever an operation overrides, update_job leaves a job record. *)
LEMMA UpdatedType ==
    ASSUME NEW r \in Job, NEW seen \in Job, NEW t \in 0..MaxTime,
           NEW op \in AllOps \ {"create", "remove"},
           NEW s \in Schedules, NEW times \in Repeats \cup {1}
    PROVE  Updated(op, r, seen, s, times, t) \in Job
  <1> DEFINE u == Overridden(op, r, seen, s, times, t)
  <1>1. u \in Job
    <2>0. seen.schedule \in Schedules
      BY DEF Job
    <2>1. ComputeNextRun(seen.schedule, None, t) \in Nat \cup {None} /\ t \in Nat
      BY <2>0, ComputeType, CronAssumption
    <2>2. CASE op = "edit"
      BY <2>2 DEF Overridden
    <2>3. CASE op = "repeat"
      BY <2>3 DEF Overridden, Job
    <2>4. CASE op = "reschedule"
      BY <2>4 DEF Overridden, Job
    <2>5. CASE op = "pause"
      BY <2>5 DEF Overridden, Job
    <2>6. CASE op = "resume"
      BY <2>1, <2>6 DEF Overridden, Job
    <2>7. CASE op = "trigger"
      BY <2>1, <2>7 DEF Overridden, Job
    <2> QED
      BY <2>2, <2>3, <2>4, <2>5, <2>6, <2>7 DEF AllOps
  <1>2. ComputeNextRun(u.schedule, None, t) \in Nat \cup {None}
    BY <1>1, ComputeType DEF Job
  <1>3. \/ Updated(op, r, seen, s, times, t) = u
        \/ Updated(op, r, seen, s, times, t)
             = [u EXCEPT !.next = ComputeNextRun(u.schedule, None, t)]
    BY DEF Updated
  <1> HIDE DEF u
  <1> QED
    BY <1>1, <1>2, <1>3 DEF Job

LEMMA EditInvs ==
    ASSUME SchedInv, NEW e \in Editors, EditStep(e) PROVE SchedInv'
  <1> USE DEF SchedInv
  <1>0. LockInv'
    <2>1. UNCHANGED sched
      BY DEF EditStep, EditResolve, CreateLoad, EditLoad, EditSave
    <2> QED
      BY <2>1 DEF sched, LockInv, Saving
  <1>1. ASSUME NEW j \in Jobs, NEW op \in EditOps, EditResolve(e, op, j)
        PROVE  TypeOK' /\ EditInv'
    <2>1. op \in AllOps \ {"create"} /\ disk[j] \in Job
      BY <1>1, CronAssumption DEF EditResolve, TypeOK, File
    <2> DEFINE x == Operation(op, j, disk[j], None)
    <2>2. x \in EditRecord
      BY <2>1 DEF Operation, EditRecord
    <2>3. edit' = [edit EXCEPT ![e] = x]
      BY <1>1 DEF EditResolve
    <2>a. edit' \in [Editors -> EditRecord]
      BY <2>2, <2>3 DEF TypeOK
    <2>b. x.file = None /\ x.job = j /\ x.op = op
      BY DEF Operation
    <2> HIDE DEF x
    <2>4. TypeOK'
      BY <1>1, <2>a DEF EditResolve, TypeOK, sched, hist
    <2>5. EditInv'
      BY <2>1, <2>b, <2>3 DEF EditInv, TypeOK
    <2> QED
      BY <2>4, <2>5
  <1>2. ASSUME NEW j \in Jobs, NEW s \in Schedules, NEW times \in Repeats,
               CreateLoad(e, j, s, times)
        PROVE  TypeOK' /\ EditInv'
    <2>1. NewJob(s, times, now) \in Job
      BY NewJobType DEF TypeOK
    <2> DEFINE f == [disk EXCEPT ![j] = NewJob(s, times, now)]
               x == Operation("create", j, NoJob, f)
    <2>2. f \in File
      BY <2>1 DEF TypeOK, File
    <2>3. edit' = [edit EXCEPT ![e] = x]
      BY <1>2 DEF CreateLoad
    <2> HIDE DEF f
    <2>4. x \in EditRecord /\ x.seen = NoJob /\ x.job = j
      BY <2>2 DEF Operation, EditRecord, AllOps
    <2> HIDE DEF x
    <2>a. edit' \in [Editors -> EditRecord]
      BY <2>3, <2>4 DEF TypeOK
    <2>5. TypeOK'
      BY <1>2, <2>a DEF CreateLoad, TypeOK, sched, hist
    <2>6. EditInv'
      BY <2>3, <2>4 DEF EditInv, TypeOK
    <2> QED
      BY <2>5, <2>6
  <1>3. ASSUME EditLoad(e) PROVE TypeOK' /\ EditInv'
    <2> DEFINE op == edit[e].op
               j == edit[e].job
               seen == edit[e].seen
    <2>1. seen \in Job /\ j \in Jobs /\ op \in AllOps \ {"create"}
      BY <1>3 DEF EditLoad, EditInv, TypeOK, EditRecord
    <2>2. CASE disk[j] = NoJob
      <3>1. edit' = [edit EXCEPT ![e] = NoEdit]
        BY <1>3, <2>2 DEF EditLoad
      <3>2. NoEdit \in EditRecord /\ NoEdit.file = None /\ NoEdit.seen = NoJob
        BY DEF NoEdit, Operation, EditRecord
      <3> QED
        BY <1>3, <3>1, <3>2 DEF EditLoad, TypeOK, EditInv, sched, hist
    <2>3. CASE disk[j] # NoJob
      <3>1. disk[j] \in Job /\ disk[j].schedule \in Schedules
            /\ disk[j].times \in Repeats \cup {1}
        BY <2>1, <2>3 DEF TypeOK, File, Job
      <3>2. PICK s \in Schedules, times \in Repeats \cup {1} :
              edit' = [edit EXCEPT ![e] = Operation(op, j, NoJob,
                        [disk EXCEPT ![j] =
                          IF op = "remove" THEN NoJob
                          ELSE Updated(op, disk[j], seen, s, times, now)])]
        BY <1>3, <2>3, <3>1 DEF EditLoad
      <3> DEFINE r == IF op = "remove" THEN NoJob
                      ELSE Updated(op, disk[j], seen, s, times, now)
                 f == [disk EXCEPT ![j] = r]
      <3>3. r \in Job \cup {NoJob}
        BY <2>1, <3>1, UpdatedType DEF TypeOK
      <3>4. f \in File
        BY <3>3 DEF TypeOK, File
      <3> DEFINE x == Operation(op, j, NoJob, f)
      <3>5. edit' = [edit EXCEPT ![e] = x]
        BY <3>2
      <3> HIDE DEF f, op, j, seen
      <3>a. x \in EditRecord /\ x.seen = NoJob /\ x.job = j
        BY <2>1, <3>4 DEF Operation, EditRecord
      <3> HIDE DEF x
      <3>b. edit' \in [Editors -> EditRecord]
        BY <3>5, <3>a DEF TypeOK
      <3>6. TypeOK'
        BY <1>3, <3>b DEF EditLoad, TypeOK, sched, hist
      <3>7. EditInv'
        BY <2>1, <3>5, <3>a DEF EditInv, TypeOK
      <3> QED
        BY <3>6, <3>7
    <2> QED
      BY <2>2, <2>3
  <1>4. ASSUME EditSave(e) PROVE TypeOK' /\ EditInv'
    <2>1. edit[e].file \in File /\ edit[e].job \in Jobs
      BY <1>4 DEF EditSave, TypeOK, EditInv, EditRecord
    <2>2. NoEdit \in EditRecord /\ NoEdit.file = None /\ NoEdit.seen = NoJob
      BY DEF NoEdit, Operation, EditRecord
    <2>3. trig' \subseteq Jobs
      BY <1>4, <2>1 DEF EditSave, TypeOK
    <2>4. TypeOK'
      BY <1>4, <2>1, <2>2, <2>3 DEF EditSave, TypeOK, sched, hist
    <2>5. EditInv'
      BY <1>4, <2>2 DEF EditSave, EditInv, TypeOK
    <2> QED
      BY <2>4, <2>5
  <1> QED
    BY <1>0, <1>1, <1>2, <1>3, <1>4 DEF EditStep

LEMMA SchedNext == SchedInv /\ [Next]_vars => SchedInv'
  <1> SUFFICES ASSUME SchedInv, [Next]_vars PROVE SchedInv'
    OBVIOUS
  <1>1. ASSUME Tock PROVE SchedInv'
    BY <1>1, CronAssumption
    DEF Tock, SchedInv, TypeOK, LockInv, EditInv, sched, hist, Saving
  <1>2. ASSUME NEW p \in Procs, TickStep(p) PROVE SchedInv'
    BY <1>2, TickStartInv, GetDueLoadInv, GetDueSaveInv, AdvanceLoadInv,
       AdvanceSaveInv, DispatchInv, RunStartInv, MarkLoadInv, MarkSaveInv,
       TickEndInv DEF TickStep
  <1>3. CASE UNCHANGED vars
    BY <1>3 DEF vars, SchedInv, TypeOK, LockInv, EditInv, sched, hist, Saving
  <1> QED
    BY <1>1, <1>2, <1>3, CrashInv, EditInvs DEF Next

(* Every reachable state is well-typed, with only the holder of the file lock
   inside a tick and at most one thread of it between a load and a save. *)
THEOREM SchedSafe == Spec => []SchedInv
  BY SchedInit, SchedNext, PTL DEF Spec

THEOREM Typing == Spec => []TypeOK
  <1>1. SchedInv => TypeOK
    BY DEF SchedInv
  <1> QED
    BY <1>1, SchedSafe, PTL

(* Two processes never execute the same job at the same time, whatever edits
   and crashes there are. *)
THEOREM Exclusion == Spec => []NoConcurrentRun
  <1>1. SchedInv => NoConcurrentRun
    BY CronAssumption DEF SchedInv, LockInv, NoConcurrentRun, Active
  <1> QED
    BY <1>1, SchedSafe, PTL

-----------------------------------------------------------------------------
(* Completions, while nobody edits jobs.json *)

(* Only the process that holds the file lock has anything under way. *)
LEMMA OthersIdle ==
    ASSUME SchedInv, NEW p \in Procs, pc[p] # "idle", NEW q \in Procs, q # p
    PROVE  pc[q] = "idle" /\ \A j \in Jobs : work[q][j] = "none"
  BY DEF SchedInv, LockInv

(* A repeat limit is a number, or unset. *)
LEMMA LimitType ==
    ASSUME NEW r \in Job PROVE r.times \in Nat \cup {None}
  <1>1. Repeats \subseteq (Nat \ {0}) \cup {None}
    BY CronAssumption
  <1>2. r.times \in Repeats \cup {1}
    BY DEF Job
  <1>3. CASE r.times = 1
    BY <1>3
  <1>4. CASE r.times \in Repeats
    BY <1>1, <1>4
  <1> QED
    BY <1>2, <1>3, <1>4

(* get_due_jobs and advance_next_run keep every job and its count ... *)
LEMMA KeepCount ==
    ASSUME NEW f \in File, NEW t \in 0..MaxTime, NEW j \in Jobs, NEW k \in Jobs
    PROVE  /\ SameCount(DueFile(f, t)[j], f[j])
           /\ SameCount(AdvancedFile(f, k, t)[j], f[j])
  <1>1. SameCount(DueFile(f, t)[j], f[j])
    <2>1. DueFile(f, t)[j] = DueRecord(f[j], t)
      BY DEF DueFile
    <2>2. CASE f[j] = NoJob
      BY <2>1, <2>2 DEF DueRecord, Considered, SameCount
    <2>3. CASE f[j] \in Job
      BY <2>1, <2>3, DueRecordType, NoJobAssumption DEF SameCount
    <2> QED
      BY <2>2, <2>3 DEF File
  <1>2. SameCount(AdvancedFile(f, k, t)[j], f[j])
    <2> DEFINE n == ComputeNextRun(f[k].schedule, t, t)
    <2>1. \/ AdvancedFile(f, k, t) = f
          \/ f[k] # NoJob /\ AdvancedFile(f, k, t) = [f EXCEPT ![k].next = n]
      BY DEF AdvancedFile
    <2>2. CASE AdvancedFile(f, k, t) = f
      BY <2>2 DEF SameCount
    <2>3. CASE f[k] # NoJob /\ AdvancedFile(f, k, t) = [f EXCEPT ![k].next = n]
      <3>1. f[k] \in Job
        BY <2>3 DEF File
      <3>2. n \in Nat \cup {None}
        BY <3>1, ComputeType DEF Job
      <3> HIDE DEF n
      <3> DEFINE r == [f[k] EXCEPT !.next = n]
      <3>3. r \in Job /\ r.completed = f[k].completed /\ r.times = f[k].times
        BY <3>1, <3>2 DEF Job
      <3>4. AdvancedFile(f, k, t)[j] = IF j = k THEN r ELSE f[j]
        BY <2>3 DEF File
      <3> HIDE DEF r
      <3> QED
        BY <2>3, <3>3, <3>4, NoJobAssumption DEF SameCount
    <2> QED
      BY <2>1, <2>2, <2>3
  <1> QED
    BY <1>1, <1>2

(* ... and mark_job_run adds one to that of its job alone. *)
LEMMA MarkCount ==
    ASSUME NEW f \in File, NEW t \in 0..MaxTime, NEW j \in Jobs, NEW k \in Jobs,
           f[j] # NoJob
    PROVE  IF k = j THEN OneMore(MarkedFile(f, j, t)[k], f[k])
                    ELSE SameCount(MarkedFile(f, j, t)[k], f[k])
  <1>1. f[j] \in Job
    BY DEF File
  <1>2. CASE k # j
    BY <1>2 DEF MarkedFile, SameCount, File
  <1>3. CASE k = j
    <2>1. MarkedFile(f, j, t)[j]
            = IF LimitReached(f[j]) THEN NoJob ELSE Marked(f[j], t)
      BY DEF MarkedFile, File
    <2>2. CASE LimitReached(f[j])
      BY <1>3, <2>1, <2>2 DEF OneMore
    <2>3. CASE ~LimitReached(f[j])
      <3>1. f[j].completed \in Nat /\ f[j].times \in Nat \cup {None}
        BY <1>1, LimitType DEF Job
      <3> QED
        BY <1>1, <1>3, <2>1, <2>3, <3>1, MarkedType DEF OneMore, LimitReached
    <2> QED
      BY <2>2, <2>3
  <1> QED
    BY <1>2, <1>3

LEMMA CountInit == Init => CountInv
  <1> SUFFICES ASSUME Init PROVE CountInv
    OBVIOUS
  <1>1. ASSUME NEW j \in Jobs, disk[j] # NoJob
        PROVE  /\ disk[j].completed = 0
               /\ disk[j].times \in (Nat \ {0}) \cup {None}
    <2>1. PICK s \in Schedules, times \in Repeats : disk[j] = NewJob(s, times, 0)
      BY <1>1 DEF Init
    <2> QED
      BY <2>1, CronAssumption DEF NewJob
  <1> QED
    BY <1>1, CronAssumption
    DEF Init, CountInv, NoLostMark, RepeatLimit, Saving, Idle

(* While nothing is between a load and a save, the file is what counts. *)
LEMMA CountOfFile ==
    ASSUME NoLostMark, RepeatLimit, disk \in File, NEW f \in File,
           \A j \in Jobs : SameCount(f[j], disk[j]),
           disk' = f, UNCHANGED marks
    PROVE  NoLostMark' /\ RepeatLimit'
  BY DEF NoLostMark, RepeatLimit, SameCount

LEMMA CountNext ==
    ASSUME SchedInv, CountInv, Editors = {}, [Next]_vars
    PROVE  CountInv'
  <1> USE DEF SchedInv
  <1>0. disk \in File /\ now \in 0..MaxTime
    BY DEF TypeOK
  <1>1. ASSUME UNCHANGED <<disk, marks, tfile, work, wfile>>,
               \A p \in Procs : pc'[p] \in Saving => pc[p] \in Saving
        PROVE  CountInv'
    BY <1>1 DEF CountInv, NoLostMark, RepeatLimit
  <1>2. CASE Tock \/ UNCHANGED vars
    BY <1>1, <1>2 DEF Tock, sched, hist, vars
  <1>3. ASSUME NEW p \in Procs, TickStart(p) PROVE CountInv'
    BY <1>1, <1>3 DEF TickStart, hist, TypeOK, Saving
  <1>4. ASSUME NEW p \in Procs, GetDueLoad(p) PROVE CountInv'
    <2>1. /\ UNCHANGED <<disk, marks, work, wfile>>
          /\ \/ pc' = [pc EXCEPT ![p] = "advance"] /\ UNCHANGED tfile
             \/ /\ pc' = [pc EXCEPT ![p] = "dueSave"]
                /\ tfile' = [tfile EXCEPT ![p] = DueFile(disk, now)]
      BY <1>4 DEF GetDueLoad
    <2>2. \A q \in Procs, j \in Jobs :
             pc'[q] \in Saving => SameCount(tfile'[q][j], disk'[j])
      <3> TAKE q \in Procs, j \in Jobs
      <3>1. CASE q = p
        BY <1>0, <2>1, <3>1, KeepCount DEF TypeOK, Saving
      <3>2. CASE q # p
        BY <2>1, <3>2 DEF CountInv, TypeOK
      <3> QED
        BY <3>1, <3>2
    <2> QED
      BY <2>1, <2>2 DEF CountInv, NoLostMark, RepeatLimit
  <1>5. ASSUME NEW p \in Procs, GetDueSave(p) \/ AdvanceSave(p) PROVE CountInv'
    <2>1. /\ pc[p] \in Saving /\ disk' = tfile[p]
          /\ pc' = [pc EXCEPT ![p] = "advance"]
          /\ UNCHANGED <<marks, work, wfile>>
      BY <1>5 DEF GetDueSave, AdvanceSave, hist, Saving
    <2>2. NoLostMark' /\ RepeatLimit'
      <3>1. tfile[p] \in File /\ \A j \in Jobs : SameCount(tfile[p][j], disk[j])
        BY <2>1 DEF LockInv, CountInv
      <3> QED
        BY <1>0, <2>1, <3>1, CountOfFile DEF CountInv
    <2>3. \A q \in Procs : pc'[q] \notin Saving /\ \A j \in Jobs : work'[q][j] = "none"
      <3>1. pc[p] # "idle" /\ pc[p] # "run"
        BY <2>1 DEF Saving
      <3>2. \A j \in Jobs : work[p][j] = "none"
        BY <3>1 DEF LockInv
      <3>3. \A q \in Procs : q # p => pc[q] = "idle" /\ \A j \in Jobs : work[q][j] = "none"
        BY <3>1, OthersIdle
      <3> QED
        BY <2>1, <3>2, <3>3 DEF TypeOK, Saving
    <2> QED
      BY <2>2, <2>3 DEF CountInv
  <1>6. ASSUME NEW p \in Procs, NEW j \in Jobs, AdvanceLoad(p, j)
        PROVE  CountInv'
    <2>1. /\ UNCHANGED <<disk, marks, work, wfile>>
          /\ \/ UNCHANGED <<pc, tfile>>
             \/ /\ pc' = [pc EXCEPT ![p] = "advanceSave"]
                /\ tfile' = [tfile EXCEPT ![p] = AdvancedFile(disk, j, now)]
      BY <1>6 DEF AdvanceLoad, hist
    <2>2. \A q \in Procs, k \in Jobs :
             pc'[q] \in Saving => SameCount(tfile'[q][k], disk'[k])
      BY <1>0, <2>1, KeepCount DEF CountInv, TypeOK, Saving
    <2> QED
      BY <2>1, <2>2 DEF CountInv, NoLostMark, RepeatLimit
  <1>7. ASSUME NEW p \in Procs, Dispatch(p) \/ TickEnd(p) \/ Crash(p)
        PROVE  CountInv'
    <2>1. /\ UNCHANGED <<disk, marks>>
          /\ \A q \in Procs : q # p => /\ pc'[q] = pc[q] /\ tfile'[q] = tfile[q]
                                       /\ work'[q] = work[q] /\ wfile'[q] = wfile[q]
          /\ pc'[p] \notin Saving /\ \A j \in Jobs : work'[p][j] # "marking"
      <3>1. CASE Dispatch(p)
        BY <3>1 DEF Dispatch, hist, TypeOK, Saving
      <3>2. CASE TickEnd(p)
        BY <3>2 DEF TickEnd, hist, TypeOK, Saving, Idle
      <3>3. CASE Crash(p)
        BY <3>3 DEF Crash, hist, TypeOK, Saving, Idle
      <3> QED
        BY <1>7, <3>1, <3>2, <3>3
    <2> QED
      BY <2>1 DEF CountInv, NoLostMark, RepeatLimit
  <1>8. ASSUME NEW p \in Procs, NEW j \in Jobs, RunStart(p, j) PROVE CountInv'
    <2>1. /\ UNCHANGED <<disk, marks, pc, tfile, wfile>>
          /\ \A q \in Procs, k \in Jobs :
                work'[q][k] = "marking" => work[q][k] = "marking"
      BY <1>8 DEF RunStart, TypeOK
    <2> QED
      BY <2>1 DEF CountInv, NoLostMark, RepeatLimit
  <1>9. ASSUME NEW p \in Procs, NEW j \in Jobs, MarkLoad(p, j) PROVE CountInv'
    <2>1. /\ UNCHANGED <<disk, marks, pc, tfile>>
          /\ \A q \in Procs, k \in Jobs :
                work'[q][k] = "marking" =>
                   \/ work[q][k] = "marking" /\ wfile'[q][k] = wfile[q][k]
                   \/ /\ q = p /\ k = j /\ disk[j] # NoJob
                      /\ wfile'[q][k] = MarkedFile(disk, j, now)
      BY <1>9 DEF MarkLoad, TypeOK, hist
    <2>2. disk[j] # NoJob => \A k \in Jobs :
             IF k = j THEN OneMore(MarkedFile(disk, j, now)[k], disk[k])
                      ELSE SameCount(MarkedFile(disk, j, now)[k], disk[k])
      BY <1>0, MarkCount
    <2> QED
      BY <2>1, <2>2 DEF CountInv, NoLostMark, RepeatLimit
  <1>10. ASSUME NEW p \in Procs, NEW j \in Jobs, MarkSave(p, j) PROVE CountInv'
    <2>1. /\ work[p][j] = "marking" /\ disk' = wfile[p][j] /\ wfile[p][j] \in File
          /\ marks' = [marks EXCEPT ![j] = @ + 1]
          /\ work' = [work EXCEPT ![p][j] = "done"] /\ UNCHANGED pc
      BY <1>10 DEF MarkSave, LockInv
    <2>2. \A k \in Jobs : IF k = j THEN OneMore(disk'[k], disk[k])
                                   ELSE SameCount(disk'[k], disk[k])
      BY <2>1 DEF CountInv
    <2>3. disk[j] # NoJob /\ disk[j].completed = marks[j]
      BY <2>1 DEF CountInv, NoLostMark
    <2>4. NoLostMark' /\ RepeatLimit'
      <3>1. ASSUME NEW k \in Jobs, disk'[k] # NoJob
            PROVE  /\ disk'[k].completed = marks'[k]
                   /\ disk'[k].times # None => marks'[k] < disk'[k].times
        <4>1. CASE k = j
          BY <2>1, <2>2, <2>3, <3>1, <4>1 DEF OneMore, TypeOK
        <4>2. CASE k # j
          BY <2>1, <2>2, <3>1, <4>2
          DEF SameCount, CountInv, NoLostMark, RepeatLimit, TypeOK
        <4> QED
          BY <4>1, <4>2
      <3> QED
        BY <3>1 DEF NoLostMark, RepeatLimit
    <2>5. pc[p] = "run"
      BY <2>1 DEF LockInv
    <2>6. \A q \in Procs : /\ pc'[q] \notin Saving
                           /\ \A k \in Jobs : work'[q][k] # "marking"
      <3>1. \A q \in Procs : q # p => pc[q] = "idle" /\ \A k \in Jobs : work[q][k] = "none"
        BY <2>5, OthersIdle
      <3>2. \A k \in Jobs : work'[p][k] # "marking"
        BY <2>1 DEF LockInv, TypeOK
      <3> QED
        BY <2>1, <2>5, <3>1, <3>2 DEF TypeOK, Saving
    <2> QED
      BY <2>4, <2>6 DEF CountInv
  <1> QED
    BY <1>2, <1>3, <1>4, <1>5, <1>6, <1>7, <1>8, <1>9, <1>10 DEF Next, TickStep

(* As long as nobody edits jobs.json, every run that was counted stays
   counted, and no job outlives its repeat limit. *)
THEOREM Counting ==
    ASSUME Editors = {} PROVE Spec => [](NoLostMark /\ RepeatLimit)
  <1>1. Init => SchedInv /\ CountInv
    BY SchedInit, CountInit
  <1>2. SchedInv /\ CountInv /\ [Next]_vars => (SchedInv /\ CountInv)'
    BY SchedNext, CountNext
  <1>3. SchedInv /\ CountInv => NoLostMark /\ RepeatLimit
    BY DEF CountInv
  <1> QED
    BY <1>1, <1>2, <1>3, PTL DEF Spec

-----------------------------------------------------------------------------
(* Occurrences, while nobody edits jobs.json and croniter is installed *)

(* No operation of the scheduler puts a recurring job back to a time that is
   behind both the job and the clock. *)
LEMMA DueNext ==
    ASSUME HasCroniter, NEW r \in Job \cup {NoJob}, NEW t \in 0..MaxTime,
           NEW x \in Nat, x <= t, NextAfter(r, x)
    PROVE  NextAfter(DueRecord(r, t), x)
  <1>1. CASE r \notin Job \/ ~Considered(r, t)
    BY <1>1 DEF DueRecord, Considered
  <1>2. CASE r \in Job /\ Considered(r, t)
    <2>1. DueRecord(r, t).schedule = r.schedule /\ r.schedule \in Schedules
      BY <1>2, DueRecordType DEF Job
    <2>2. CASE ~Recurring(r.schedule)
      BY <2>1, <2>2 DEF NextAfter
    <2>3. CASE Recurring(r.schedule)
      <3> DEFINE n == ComputeNextRun(r.schedule, t, t)
      <3>1. n \in Nat /\ n > t
        BY <2>1, <2>3, ComputeType
      <3>2. r.next # None /\ r.next \in Nat /\ r.next > x
        BY <1>2, <2>3, NoJobAssumption DEF NextAfter, Job
      <3>3. DueRecord(r, t).next = IF Stale(r, t) THEN n ELSE r.next
        BY <1>2, <3>2 DEF DueRecord, EffectiveNext, Job
      <3> HIDE DEF n
      <3> QED
        BY <3>1, <3>2, <3>3, CronAssumption DEF NextAfter
    <2> QED
      BY <2>2, <2>3
  <1> QED
    BY <1>1, <1>2

LEMMA AdvanceNext ==
    ASSUME HasCroniter, NEW f \in File, NEW t \in 0..MaxTime, NEW j \in Jobs,
           NEW k \in Jobs, NEW x \in Nat, x <= t, k = j \/ NextAfter(f[k], x)
    PROVE  NextAfter(AdvancedFile(f, j, t)[k], x)
  <1> DEFINE n == ComputeNextRun(f[j].schedule, t, t)
  <1>1. CASE f[j] = NoJob \/ ~Recurring(f[j].schedule)
    BY <1>1 DEF AdvancedFile, NextAfter
  <1>2. CASE f[j] # NoJob /\ Recurring(f[j].schedule)
    <2>1. f[j] \in Job /\ f[j].schedule \in Schedules
      BY <1>2 DEF File, Job
    <2>2. n \in Nat /\ n > t
      BY <1>2, <2>1, ComputeType
    <2>3. AdvancedFile(f, j, t) = [f EXCEPT ![j].next = n]
      BY <1>2, <2>2, CronAssumption DEF AdvancedFile
    <2> HIDE DEF n
    <2>4. CASE k = j
      <3>1. AdvancedFile(f, j, t)[k].next = n
        BY <2>1, <2>3, <2>4 DEF File, Job
      <3> QED
        BY <2>2, <3>1, CronAssumption DEF NextAfter
    <2>5. CASE k # j
      BY <2>3, <2>5 DEF File
    <2> QED
      BY <2>4, <2>5
  <1> QED
    BY <1>1, <1>2

LEMMA MarkNext ==
    ASSUME HasCroniter, NEW f \in File, NEW t \in 0..MaxTime, NEW j \in Jobs,
           f[j] # NoJob,
           NEW k \in Jobs, NEW x \in Nat, x <= t, k = j \/ NextAfter(f[k], x)
    PROVE  NextAfter(MarkedFile(f, j, t)[k], x)
  <1>1. CASE k # j
    BY <1>1 DEF MarkedFile, File
  <1>2. CASE k = j
    <2>1. f[j] \in Job /\ f[j].schedule \in Schedules
      BY DEF File, Job
    <2>2. MarkedFile(f, j, t)[j]
            = IF LimitReached(f[j]) THEN NoJob ELSE Marked(f[j], t)
      BY DEF MarkedFile, File
    <2>3. NextAfter(Marked(f[j], t), x)
      <3> DEFINE n == ComputeNextRun(f[j].schedule, t, t)
      <3>1. Recurring(f[j].schedule) => n \in Nat /\ n > t
        BY <2>1, ComputeType
      <3>2. Marked(f[j], t).schedule = f[j].schedule /\ Marked(f[j], t).next = n
        BY <2>1, MarkedType
      <3> HIDE DEF n
      <3> QED
        BY <3>1, <3>2, CronAssumption DEF NextAfter
    <2> QED
      BY <1>2, <2>2, <2>3 DEF NextAfter
  <1> QED
    BY <1>1, <1>2

(* What get_due_jobs hands out is due. *)
LEMMA DueFacts ==
    ASSUME NEW r \in Job \cup {NoJob}, NEW t \in 0..MaxTime, IsDue(r, t)
    PROVE  /\ r \in Job /\ DueRecord(r, t).schedule = r.schedule
           /\ DueRecord(r, t).next \in Nat /\ DueRecord(r, t).next <= t
           /\ r.next # None => DueRecord(r, t).next = r.next
  <1>1. r \in Job
    BY DEF IsDue, Considered
  <1>2. /\ EffectiveNext(r, t) \in Nat /\ EffectiveNext(r, t) <= t
        /\ DueRecord(r, t) = [r EXCEPT !.next = EffectiveNext(r, t)]
    BY <1>1, EffectiveType DEF IsDue, Considered, DueRecord
  <1>3. r.next # None => EffectiveNext(r, t) = r.next
    BY DEF EffectiveNext
  <1> QED
    BY <1>1, <1>2, <1>3 DEF Job

LEMMA OccInit == Init => OccInv
  BY DEF Init, OccInv, Saving

(* A step that writes no file keeps what is known of the files. *)
LEMMA OccKept ==
    ASSUME SchedInv, OccInv, UNCHANGED <<disk, fired>>, now' \in Nat, now' >= now,
           \A q \in Procs, k \in Jobs : work'[q][k] = "marking" =>
              work[q][k] = "marking" /\ wfile'[q][k] = wfile[q][k],
           \A q \in Procs : pc'[q] \in Saving =>
              pc[q] \in Saving /\ tfile'[q] = tfile[q],
           \A q \in Procs, k \in Jobs :
              pc'[q] \notin {"idle", "due"} /\ due'[q][k] # NoJob => DueInv(q, k)'
    PROVE  OccInv'
  <1>1. \A k \in Jobs : fired'[k] # None => fired'[k] <= now'
    BY DEF OccInv, SchedInv, TypeOK
  <1>2. \A k \in Jobs : fired'[k] # None => FilesAfter(k, fired[k])'
    BY DEF OccInv, FilesAfter
  <1> QED
    BY <1>1, <1>2 DEF OccInv

(* What is known of a due job survives a step that writes no file and leaves
   its place in the tick alone. *)
LEMMA DueKept ==
    ASSUME SchedInv, OccInv, UNCHANGED <<disk, fired>>, now' \in Nat, now' >= now,
           \A q \in Procs, k \in Jobs : work'[q][k] = "marking" =>
              work[q][k] = "marking" /\ wfile'[q][k] = wfile[q][k],
           NEW p \in Procs, NEW j \in Jobs, due[p][j] # NoJob,
           due'[p][j] = due[p][j], pc[p] \notin {"idle", "due"}, pc'[p] = pc[p],
           tfile'[p] = tfile[p], todo'[p] = todo[p],
           work'[p][j] = "queued" => work[p][j] = "queued"
    PROVE  DueInv(p, j)'
  <1> DEFINE d == due[p][j].next
  <1>1. DueInv(p, j)
    BY DEF OccInv
  <1>2. d # None /\ d <= now /\ d \in Nat
    BY <1>1 DEF DueInv, SchedInv, TypeOK, File, Job
  <1>3. FilesAfter(j, d) => FilesAfter(j, d)'
    BY DEF FilesAfter
  <1>4. now \in Nat
    BY CronAssumption DEF SchedInv, TypeOK
  <1> QED
    BY <1>1, <1>2, <1>3, <1>4 DEF DueInv

LEMMA OccNext ==
    ASSUME SchedInv, OccInv, Editors = {}, HasCroniter, [Next]_vars
    PROVE  OccInv'
  <1> USE DEF SchedInv
  <1>0. /\ disk \in File /\ now \in 0..MaxTime /\ now \in Nat
        /\ \A q \in Procs, k \in Jobs : due[q][k] \in Job \cup {NoJob}
        /\ \A k \in Jobs : fired[k] # None =>
              fired[k] \in Nat /\ fired[k] <= now /\ FilesAfter(k, fired[k])
        /\ \A q \in Procs, k \in Jobs :
              pc[q] \notin {"idle", "due"} /\ due[q][k] # NoJob =>
                 due[q][k].next \in Nat /\ due[q][k].next <= now /\ DueInv(q, k)
    <2>1. disk \in File /\ now \in 0..MaxTime /\ now \in Nat
      BY CronAssumption DEF TypeOK
    <2>2. \A q \in Procs, k \in Jobs : due[q][k] \in Job \cup {NoJob}
      BY DEF TypeOK, File
    <2>3. \A q \in Procs, k \in Jobs : due[q][k] # NoJob =>
             due[q][k].next \in Nat \cup {None}
      BY <2>2 DEF Job
    <2>4. \A q \in Procs, k \in Jobs :
             pc[q] \notin {"idle", "due"} /\ due[q][k] # NoJob =>
                DueInv(q, k) /\ due[q][k].next # None /\ due[q][k].next <= now
      BY DEF OccInv, DueInv
    <2>5. \A k \in Jobs : fired[k] # None =>
             fired[k] <= now /\ FilesAfter(k, fired[k])
      BY DEF OccInv
    <2>6. \A k \in Jobs : fired[k] # None => fired[k] \in Nat
      BY DEF TypeOK
    <2> QED
      BY <2>1, <2>2, <2>3, <2>4, <2>5, <2>6
  <1>1. CASE Tock \/ UNCHANGED vars
    <2>1. UNCHANGED <<disk, sched, fired>> /\ now' \in Nat /\ now' >= now
      BY <1>0, <1>1 DEF Tock, vars, hist
    <2>2. UNCHANGED <<pc, due, todo, tfile, work, wfile>>
      BY <2>1 DEF sched
    <2>3. \A q \in Procs, k \in Jobs :
             pc'[q] \notin {"idle", "due"} /\ due'[q][k] # NoJob => DueInv(q, k)'
      BY <2>1, <2>2, DueKept
    <2> QED
      BY <2>1, <2>2, <2>3, OccKept
  <1>2. ASSUME NEW p \in Procs, TickStart(p) PROVE OccInv'
    <2>1. /\ UNCHANGED <<disk, fired, now, due, todo, tfile, work, wfile>>
          /\ pc' = [pc EXCEPT ![p] = "due"]
      BY <1>2 DEF TickStart, hist
    <2>2. \A q \in Procs : q # p => pc'[q] = pc[q]
      BY <2>1
    <2>3. pc'[p] = "due"
      BY <2>1 DEF TypeOK
    <2>4. \A q \in Procs, k \in Jobs :
             pc'[q] \notin {"idle", "due"} /\ due'[q][k] # NoJob => DueInv(q, k)'
      BY <1>0, <2>1, <2>2, <2>3, DueKept
    <2>5. \A q \in Procs : pc'[q] \in Saving => pc[q] \in Saving
      BY <2>2, <2>3 DEF Saving
    <2> QED
      BY <1>0, <2>1, <2>4, <2>5, OccKept
  <1>3. ASSUME NEW p \in Procs, TickEnd(p) \/ Crash(p) PROVE OccInv'
    <2>1. /\ UNCHANGED <<disk, fired, now>> /\ pc[p] # "idle"
          /\ \A q \in Procs : q # p => /\ pc'[q] = pc[q] /\ work'[q] = work[q]
                                       /\ wfile'[q] = wfile[q]
                                       /\ tfile'[q] = tfile[q]
          /\ pc'[p] = "idle" /\ \A k \in Jobs : work'[p][k] = "none"
      BY <1>3 DEF TickEnd, Crash, hist, TypeOK, Idle
    <2>2. \A q \in Procs : pc'[q] = "idle"
      BY <2>1, OthersIdle
    <2> QED
      BY <1>0, <2>1, <2>2, OccKept DEF Saving
  <1>4. ASSUME NEW p \in Procs, Dispatch(p) PROVE OccInv'
    <2>1. /\ UNCHANGED <<disk, fired, now, due, todo, tfile, wfile>>
          /\ pc[p] = "advance" /\ todo[p] = {} /\ pc'[p] = "run"
          /\ \A k \in Jobs : work'[p][k] \in {"none", "queued"}
          /\ \A q \in Procs : q # p => pc'[q] = pc[q] /\ work'[q] = work[q]
      BY <1>4 DEF Dispatch, hist, TypeOK
    <2>2. \A q \in Procs : q # p => pc'[q] = "idle"
      BY <2>1, OthersIdle
    <2>3. \A q \in Procs, k \in Jobs : work'[q][k] = "marking" => work[q][k] = "marking"
      BY <2>1
    <2>4. ASSUME NEW k \in Jobs, due'[p][k] # NoJob PROVE DueInv(p, k)'
      <3>1. DueInv(p, k) /\ due[p][k].next \in Nat
        BY <1>0, <2>1, <2>4
      <3>2. FilesAfter(k, due[p][k].next)
        BY <2>1, <3>1 DEF DueInv
      <3>3. FilesAfter(k, due[p][k].next)'
        BY <2>1, <2>3, <3>2 DEF FilesAfter
      <3> QED
        BY <2>1, <3>1, <3>3 DEF DueInv
    <2>5. \A q \in Procs, k \in Jobs :
             pc'[q] \notin {"idle", "due"} /\ due'[q][k] # NoJob => DueInv(q, k)'
      BY <2>2, <2>4
    <2> QED
      BY <1>0, <2>1, <2>2, <2>3, <2>5, OccKept DEF Saving
  <1>5. ASSUME NEW p \in Procs, GetDueLoad(p) PROVE OccInv'
    <2> DEFINE found == {k \in Jobs : IsDue(disk[k], now)}
    <2>1. /\ UNCHANGED <<disk, fired, now, work, wfile>> /\ pc[p] = "due"
          /\ \A q \in Procs : q # p => pc'[q] = pc[q]
          /\ \A k \in Jobs : due'[p][k] = IF IsDue(disk[k], now)
                                          THEN DueRecord(disk[k], now) ELSE NoJob
          /\ \/ pc'[p] = "advance" /\ todo'[p] = found
             \/ pc'[p] = "dueSave" /\ tfile'[p] = DueFile(disk, now)
      BY <1>5 DEF GetDueLoad, TypeOK
    <2>2. \A q \in Procs : q # p => pc'[q] = "idle"
      BY <2>1, OthersIdle
    <2>3. ASSUME NEW k \in Jobs, fired[k] # None
          PROVE  NextAfter(DueFile(disk, now)[k], fired[k])
      <3>1. NextAfter(disk[k], fired[k]) /\ fired[k] \in Nat /\ fired[k] <= now
        BY <1>0, <2>3 DEF FilesAfter
      <3>2. disk[k] \in Job \cup {NoJob}
        BY <1>0 DEF File
      <3> QED
        BY <1>0, <3>1, <3>2, DueNext DEF DueFile
    <2>4. ASSUME NEW k \in Jobs, due'[p][k] # NoJob PROVE DueInv(p, k)'
      <3>1. IsDue(disk[k], now) /\ due'[p][k] = DueRecord(disk[k], now)
        BY <2>1, <2>4
      <3>2. disk[k] \in Job \cup {NoJob}
        BY <1>0 DEF File
      <3>3. /\ disk[k] \in Job /\ due'[p][k].schedule = disk[k].schedule
            /\ due'[p][k].next \in Nat /\ due'[p][k].next <= now
            /\ disk[k].next # None => due'[p][k].next = disk[k].next
        BY <1>0, <3>1, <3>2, DueFacts
      <3>4. Recurring(disk[k].schedule) /\ fired[k] # None =>
               disk[k].next # None /\ disk[k].next > fired[k]
        BY <1>0, <3>3, NoJobAssumption DEF FilesAfter, NextAfter
      <3>5. due'[p][k].next # None
        BY <3>3, CronAssumption
      <3>6. k \in found
        BY <3>1
      <3> HIDE DEF found
      <3> QED
        BY <2>1, <3>3, <3>4, <3>5, <3>6 DEF DueInv
    <2>5. \A k \in Jobs : fired'[k] # None =>
             fired'[k] <= now' /\ FilesAfter(k, fired[k])'
      BY <1>0, <2>1 DEF FilesAfter
    <2>6. \A q \in Procs, k \in Jobs :
             pc'[q] \in Saving /\ fired'[k] # None => NextAfter(tfile'[q][k], fired'[k])
      BY <2>1, <2>2, <2>3 DEF Saving
    <2>7. \A q \in Procs, k \in Jobs :
             pc'[q] \notin {"idle", "due"} /\ due'[q][k] # NoJob => DueInv(q, k)'
      BY <2>2, <2>4
    <2> QED
      BY <2>5, <2>6, <2>7 DEF OccInv
  <1>6. ASSUME NEW p \in Procs, GetDueSave(p) \/ AdvanceSave(p) PROVE OccInv'
    <2>1. /\ UNCHANGED <<fired, now, due, work, wfile>> /\ disk' = tfile[p]
          /\ pc[p] \in Saving /\ pc'[p] = "advance"
          /\ \A q \in Procs : q # p => pc'[q] = pc[q]
          /\ \/ pc[p] = "dueSave" /\ todo'[p] = {k \in Jobs : due[p][k] # NoJob}
             \/ pc[p] = "advanceSave" /\ todo'[p] = todo[p]
      BY <1>6 DEF GetDueSave, AdvanceSave, hist, TypeOK, Saving
    <2>2. \A q \in Procs : q # p => pc'[q] = "idle"
      BY <2>1, OthersIdle DEF Saving
    <2>3. \A q \in Procs, k \in Jobs : work'[q][k] # "marking"
      BY <2>1, OthersIdle DEF LockInv, Saving
    <2>4. \A k \in Jobs : fired'[k] # None =>
             fired'[k] <= now' /\ FilesAfter(k, fired[k])'
      BY <1>0, <2>1, <2>3 DEF OccInv, FilesAfter
    <2>5. ASSUME NEW k \in Jobs, due'[p][k] # NoJob PROVE DueInv(p, k)'
      <3>1. DueInv(p, k) /\ due[p][k].next \in Nat
        BY <1>0, <2>1, <2>5 DEF Saving
      <3>2. k \notin todo'[p] => FilesAfter(k, due[p][k].next)'
        BY <2>1, <2>3, <2>5, <3>1 DEF DueInv, FilesAfter
      <3> QED
        BY <2>1, <3>1, <3>2 DEF DueInv, Saving
    <2>6. \A q \in Procs, k \in Jobs :
             pc'[q] \notin {"idle", "due"} /\ due'[q][k] # NoJob => DueInv(q, k)'
      BY <2>2, <2>5
    <2>7. \A q \in Procs : pc'[q] \notin Saving
      BY <2>1, <2>2 DEF Saving
    <2> QED
      BY <2>4, <2>6, <2>7 DEF OccInv
  <1>7. ASSUME NEW p \in Procs, NEW j \in Jobs, AdvanceLoad(p, j) PROVE OccInv'
    <2> DEFINE f == AdvancedFile(disk, j, now)
    <2>1. /\ UNCHANGED <<disk, fired, now, due, work, wfile>>
          /\ pc[p] = "advance" /\ todo'[p] = todo[p] \ {j}
          /\ \A q \in Procs : q # p => pc'[q] = pc[q]
          /\ \/ f = disk /\ pc'[p] = "advance"
             \/ pc'[p] = "advanceSave" /\ tfile'[p] = f
      BY <1>7 DEF AdvanceLoad, hist, TypeOK
    <2>2. \A q \in Procs : q # p => pc'[q] = "idle"
      BY <2>1, OthersIdle
    <2>3. \A q \in Procs, k \in Jobs : work'[q][k] # "marking"
      BY <2>1, OthersIdle DEF LockInv
    <2>4. ASSUME NEW k \in Jobs, NEW x \in Nat, x <= now,
                 k = j \/ FilesAfter(k, x)
          PROVE  NextAfter(f[k], x)
      BY <1>0, <2>4, AdvanceNext DEF FilesAfter
    <2> HIDE DEF f
    <2>5. \A k \in Jobs : fired'[k] # None =>
             fired'[k] <= now' /\ FilesAfter(k, fired[k])'
      BY <1>0, <2>1 DEF FilesAfter
    <2>6. \A q \in Procs, k \in Jobs :
             pc'[q] \in Saving /\ fired'[k] # None => NextAfter(tfile'[q][k], fired'[k])
      BY <1>0, <2>1, <2>2, <2>4 DEF Saving
    <2>7. ASSUME NEW k \in Jobs, due'[p][k] # NoJob PROVE DueInv(p, k)'
      <3> DEFINE d == due[p][k].next
      <3>1. DueInv(p, k) /\ d \in Nat /\ d <= now
        BY <1>0, <2>1, <2>7
      <3>2. k \notin todo'[p] => k = j \/ FilesAfter(k, d)
        BY <2>1, <3>1 DEF DueInv
      <3>3. k \notin todo'[p] => NextAfter(f[k], d)
        BY <2>4, <3>1, <3>2
      <3>4. k \notin todo'[p] /\ pc'[p] = "advance" => FilesAfter(k, d)'
        BY <2>1, <2>3, <3>3 DEF FilesAfter
      <3> QED
        BY <2>1, <3>1, <3>3, <3>4 DEF DueInv
    <2>8. \A q \in Procs, k \in Jobs :
             pc'[q] \notin {"idle", "due"} /\ due'[q][k] # NoJob => DueInv(q, k)'
      BY <2>2, <2>7
    <2> QED
      BY <2>5, <2>6, <2>8 DEF OccInv
  <1>8. ASSUME NEW p \in Procs, NEW j \in Jobs, RunStart(p, j) PROVE OccInv'
    <2> DEFINE d == due[p][j].next
    <2>1. /\ UNCHANGED <<disk, now, pc, due, todo, tfile, wfile>>
          /\ pc[p] = "run" /\ work[p][j] = "queued" /\ due[p][j] # NoJob
          /\ \A q \in Procs, k \in Jobs :
                work'[q][k] = IF q = p /\ k = j THEN "running" ELSE work[q][k]
          /\ \A k \in Jobs : fired'[k] = IF k = j THEN d ELSE fired[k]
      BY <1>8 DEF RunStart, LockInv, TypeOK
    <2>2. d \in Nat /\ d <= now /\ FilesAfter(j, d)
      BY <1>0, <2>1 DEF DueInv
    <2> HIDE DEF d
    <2>3. \A q \in Procs : q # p => pc'[q] = "idle"
      BY <2>1, OthersIdle
    <2>4. \A k \in Jobs : fired'[k] # None =>
             fired'[k] <= now' /\ FilesAfter(k, fired[k])'
      BY <1>0, <2>1, <2>2 DEF FilesAfter
    <2>5. ASSUME NEW k \in Jobs, due'[p][k] # NoJob PROVE DueInv(p, k)'
      <3>1. DueInv(p, k) /\ due[p][k].next \in Nat
        BY <1>0, <2>1, <2>5
      <3>2. FilesAfter(k, due[p][k].next)
        BY <2>1, <3>1 DEF DueInv
      <3>3. FilesAfter(k, due[p][k].next)'
        BY <2>1, <3>2 DEF FilesAfter
      <3> QED
        BY <2>1, <3>1, <3>3 DEF DueInv
    <2>6. \A q \in Procs, k \in Jobs :
             pc'[q] \notin {"idle", "due"} /\ due'[q][k] # NoJob => DueInv(q, k)'
      BY <2>3, <2>5
    <2>7. \A q \in Procs : pc'[q] \notin Saving
      BY <2>1, <2>3 DEF Saving
    <2> QED
      BY <2>4, <2>6, <2>7 DEF OccInv
  <1>9. ASSUME NEW p \in Procs, NEW j \in Jobs, MarkLoad(p, j) PROVE OccInv'
    <2> DEFINE f == MarkedFile(disk, j, now)
    <2>1. /\ UNCHANGED <<disk, fired, now, pc, due, todo, tfile>>
          /\ work[p][j] = "running"
          /\ \A q \in Procs, k \in Jobs :
                /\ work'[q][k] = "queued" => work[q][k] = "queued"
                /\ work'[q][k] = "marking" =>
                      \/ work[q][k] = "marking" /\ wfile'[q][k] = wfile[q][k]
                      \/ q = p /\ k = j /\ disk[j] # NoJob /\ wfile'[q][k] = f
      BY <1>9 DEF MarkLoad, hist, TypeOK
    <2>2. pc[p] = "run"
      BY <2>1 DEF LockInv
    <2>3. \A q \in Procs : q # p => pc'[q] = "idle"
      BY <2>1, <2>2, OthersIdle
    <2>4. ASSUME NEW k \in Jobs, NEW x \in Nat, x <= now, FilesAfter(k, x)
          PROVE  disk[j] # NoJob => NextAfter(f[k], x)
      BY <1>0, <2>4, MarkNext DEF FilesAfter
    <2> HIDE DEF f
    <2>5. \A k \in Jobs : fired'[k] # None =>
             fired'[k] <= now' /\ FilesAfter(k, fired[k])'
      BY <1>0, <2>1, <2>4 DEF FilesAfter
    <2>6. ASSUME NEW k \in Jobs, due'[p][k] # NoJob PROVE DueInv(p, k)'
      <3> DEFINE d == due[p][k].next
      <3>1. DueInv(p, k) /\ d \in Nat /\ d <= now
        BY <1>0, <2>1, <2>2, <2>6
      <3>2. FilesAfter(k, d)
        BY <2>2, <3>1 DEF DueInv
      <3>3. FilesAfter(k, d)'
        BY <2>1, <2>4, <3>1, <3>2 DEF FilesAfter
      <3> QED
        BY <2>1, <2>2, <3>1, <3>3 DEF DueInv
    <2>7. \A q \in Procs, k \in Jobs :
             pc'[q] \notin {"idle", "due"} /\ due'[q][k] # NoJob => DueInv(q, k)'
      BY <2>3, <2>6
    <2>8. \A q \in Procs : pc'[q] \notin Saving
      BY <2>1, <2>2, <2>3 DEF Saving
    <2> QED
      BY <2>5, <2>7, <2>8 DEF OccInv
  <1>10. ASSUME NEW p \in Procs, NEW j \in Jobs, MarkSave(p, j) PROVE OccInv'
    <2>1. /\ UNCHANGED <<fired, now, pc, due, todo, tfile>>
          /\ disk' = wfile[p][j] /\ work[p][j] = "marking"
          /\ work' = [work EXCEPT ![p][j] = "done"]
          /\ \A q \in Procs, k \in Jobs :
                work'[q][k] = IF q = p /\ k = j THEN "done" ELSE work[q][k]
      BY <1>10 DEF MarkSave, TypeOK
    <2>2. pc[p] = "run"
      BY <2>1 DEF LockInv
    <2>3. \A q \in Procs : q # p => pc'[q] = "idle"
      BY <2>1, <2>2, OthersIdle
    <2>4. \A q \in Procs, k \in Jobs : work'[q][k] # "marking"
      <3>1. \A k \in Jobs : work[p][k] = "marking" => k = j
        BY <2>1 DEF LockInv
      <3>2. \A q \in Procs, k \in Jobs : q # p => work[q][k] = "none"
        BY <2>2, OthersIdle
      <3> QED
        BY <2>1, <3>1, <3>2
    <2>5. ASSUME NEW k \in Jobs, NEW x \in Nat, FilesAfter(k, x)
          PROVE  FilesAfter(k, x)'
      BY <2>1, <2>4, <2>5 DEF FilesAfter
    <2>6. \A k \in Jobs : fired'[k] # None =>
             fired'[k] <= now' /\ FilesAfter(k, fired[k])'
      BY <1>0, <2>1, <2>4 DEF FilesAfter
    <2>7. ASSUME NEW k \in Jobs, due'[p][k] # NoJob PROVE DueInv(p, k)'
      <3>1. DueInv(p, k) /\ due[p][k].next \in Nat
        BY <1>0, <2>1, <2>2, <2>7
      <3>2. FilesAfter(k, due[p][k].next)
        BY <2>2, <3>1 DEF DueInv
      <3>3. FilesAfter(k, due[p][k].next)'
        BY <2>1, <2>4, <3>2 DEF FilesAfter
      <3> QED
        BY <2>1, <2>2, <3>1, <3>3 DEF DueInv
    <2>8. \A q \in Procs, k \in Jobs :
             pc'[q] \notin {"idle", "due"} /\ due'[q][k] # NoJob => DueInv(q, k)'
      BY <2>3, <2>7
    <2>9. \A q \in Procs : pc'[q] \notin Saving
      BY <2>1, <2>2, <2>3 DEF Saving
    <2> QED
      BY <2>6, <2>8, <2>9 DEF OccInv
  <1> QED
    BY <1>1, <1>2, <1>3, <1>4, <1>5, <1>6, <1>7, <1>8, <1>9, <1>10
    DEF Next, TickStep

(* As long as nobody edits jobs.json and croniter stays installed, no
   occurrence of a recurring job is run twice, whatever dies when. *)
THEOREM Occurrences ==
    ASSUME Editors = {}, HasCroniter PROVE Spec => AtMostOnce
  <1>1. Init => SchedInv /\ OccInv
    BY SchedInit, OccInit
  <1>2. SchedInv /\ OccInv /\ [Next]_vars => (SchedInv /\ OccInv)'
    BY SchedNext, OccNext
  <1>3. ASSUME SchedInv, OccInv, [Next]_vars
        PROVE  [\A p \in Procs, j \in Jobs :
                  /\ work[p][j] = "queued" /\ work'[p][j] = "running"
                  /\ Recurring(due[p][j].schedule)
                  => fired[j] = None \/ due[p][j].next > fired[j]]_vars
    <2>1. ASSUME NEW p \in Procs, NEW j \in Jobs, work[p][j] = "queued",
                 Recurring(due[p][j].schedule)
          PROVE  fired[j] = None \/ due[p][j].next > fired[j]
      <3>1. pc[p] = "run" /\ due[p][j] # NoJob
        BY <1>3, <2>1 DEF SchedInv, LockInv
      <3>2. fired[j] = None \/ fired[j] < due[p][j].next
        BY <1>3, <2>1, <3>1 DEF OccInv, DueInv
      <3>3. fired[j] \in Nat \cup {None} /\ due[p][j] \in Job
        BY <1>3, <3>1 DEF SchedInv, TypeOK, File
      <3>4. due[p][j].next \in Nat
        BY <1>3, <3>1, <3>3 DEF OccInv, DueInv, Job
      <3> QED
        BY <3>2, <3>3, <3>4
    <2> QED
      BY <2>1
  <1> QED
    BY <1>1, <1>2, <1>3, PTL DEF Spec, AtMostOnce

-----------------------------------------------------------------------------
(* One-shots and plans, while nobody edits jobs.json *)

(* A run time recovered for a one-shot is its only one, before any run. *)
LEMMA RecoveredOnce ==
    ASSUME NEW s \in Schedules, NEW last, NEW t, ~Recurring(s)
    PROVE  /\ ComputeNextRun(s, last, t) = RecoverableOneshot(s, last, t)
           /\ RecoverableOneshot(s, last, t) \in {None, s.at}
           /\ last # None => RecoverableOneshot(s, last, t) = None
           /\ s.at \in Nat /\ s.at # None
  BY CronAssumption DEF RecoverableOneshot, ComputeNextRun, Recurring

(* get_due_jobs, advance_next_run and mark_job_run keep the schedule of every
   job, and the time of a one-shot. *)
LEMMA DueOnce ==
    ASSUME NEW r \in Job \cup {NoJob}, NEW t \in 0..MaxTime, OnceKept(r)
    PROVE  OnceKept(DueRecord(r, t)) /\ SameSchedule(DueRecord(r, t), r)
  <1>1. CASE r \notin Job \/ ~Considered(r, t)
    BY <1>1 DEF DueRecord, Considered, SameSchedule
  <1>2. CASE r \in Job /\ Considered(r, t)
    <2>1. DueRecord(r, t).schedule = r.schedule /\ r.schedule \in Schedules
          /\ DueRecord(r, t).completed = r.completed
      BY <1>2, DueRecordType DEF Job
    <2>2. CASE Recurring(r.schedule)
      BY <2>1, <2>2 DEF OnceKept, SameSchedule
    <2>3. CASE ~Recurring(r.schedule)
      <3>1. DueRecord(r, t) = [r EXCEPT !.next = EffectiveNext(r, t)]
        BY <1>2, <2>3 DEF DueRecord, Stale
      <3>2. DueRecord(r, t).last = r.last
            /\ DueRecord(r, t).next = EffectiveNext(r, t)
        BY <1>2, <3>1 DEF Job
      <3>3. r # NoJob /\ r.next \in {None, r.schedule.at}
            /\ (r.last # None => r.next = None)
            /\ (r.completed > 0 => r.last # None)
        BY <1>2, <2>3, NoJobAssumption DEF OnceKept
      <3>4. /\ EffectiveNext(r, t) \in {None, r.schedule.at}
            /\ r.last # None => EffectiveNext(r, t) = None
        BY <2>1, <2>3, <3>3, RecoveredOnce DEF EffectiveNext
      <3> QED
        BY <2>1, <3>2, <3>3, <3>4 DEF OnceKept, SameSchedule
    <2> QED
      BY <2>2, <2>3
  <1> QED
    BY <1>1, <1>2

LEMMA AdvanceOnce ==
    ASSUME NEW f \in File, NEW t \in 0..MaxTime, NEW j \in Jobs, NEW k \in Jobs,
           OnceKept(f[k])
    PROVE  /\ OnceKept(AdvancedFile(f, j, t)[k])
           /\ SameSchedule(AdvancedFile(f, j, t)[k], f[k])
  <1> DEFINE n == ComputeNextRun(f[j].schedule, t, t)
  <1>1. \/ AdvancedFile(f, j, t) = f
        \/ /\ f[j] # NoJob /\ Recurring(f[j].schedule)
           /\ AdvancedFile(f, j, t) = [f EXCEPT ![j].next = n]
    BY DEF AdvancedFile
  <1>2. CASE AdvancedFile(f, j, t) = f
    BY <1>2 DEF SameSchedule
  <1>3. CASE /\ f[j] # NoJob /\ Recurring(f[j].schedule)
             /\ AdvancedFile(f, j, t) = [f EXCEPT ![j].next = n]
    <2>1. f[j] \in Job
      BY <1>3 DEF File
    <2> HIDE DEF n
    <2> DEFINE r == [f[j] EXCEPT !.next = n]
    <2>2. r.schedule = f[j].schedule
      BY <2>1 DEF Job
    <2>3. AdvancedFile(f, j, t)[k] = IF k = j THEN r ELSE f[k]
      BY <1>3 DEF File
    <2> HIDE DEF r
    <2> QED
      BY <1>3, <2>2, <2>3 DEF OnceKept, SameSchedule
  <1> QED
    BY <1>1, <1>2, <1>3

LEMMA MarkOnce ==
    ASSUME NEW f \in File, NEW t \in 0..MaxTime, NEW j \in Jobs, f[j] # NoJob,
           NEW k \in Jobs, OnceKept(f[k])
    PROVE  /\ OnceKept(MarkedFile(f, j, t)[k])
           /\ SameSchedule(MarkedFile(f, j, t)[k], f[k])
           /\ k = j /\ MarkedFile(f, j, t)[k] = NoJob => LimitReached(f[k])
  <1>1. CASE k # j
    BY <1>1 DEF MarkedFile, File, SameSchedule
  <1>2. CASE k = j
    <2>1. f[j] \in Job /\ f[j].schedule \in Schedules /\ t # None /\ None \notin Nat
      BY CronAssumption DEF File, Job
    <2>2. MarkedFile(f, j, t)[j]
            = IF LimitReached(f[j]) THEN NoJob ELSE Marked(f[j], t)
      BY DEF MarkedFile, File
    <2>3. /\ Marked(f[j], t) \in Job /\ Marked(f[j], t).last = t
          /\ Marked(f[j], t).schedule = f[j].schedule
          /\ Marked(f[j], t).next = ComputeNextRun(f[j].schedule, t, t)
      BY <2>1, MarkedType
    <2>4. ~Recurring(f[j].schedule) => Marked(f[j], t).next = None
      BY <2>1, <2>3, RecoveredOnce
    <2>5. OnceKept(Marked(f[j], t)) /\ SameSchedule(Marked(f[j], t), f[j])
      BY <2>1, <2>3, <2>4 DEF OnceKept, SameSchedule
    <2>6. OnceKept(NoJob) /\ SameSchedule(NoJob, f[j])
      BY DEF OnceKept, SameSchedule
    <2> QED
      BY <1>2, <2>2, <2>3, <2>5, <2>6, NoJobAssumption
  <1> QED
    BY <1>1, <1>2

(* A one-shot that get_due_jobs hands out was never counted. *)
LEMMA DueOneShot ==
    ASSUME NEW r \in Job \cup {NoJob}, NEW t \in 0..MaxTime, IsDue(r, t),
           OnceKept(r), ~Recurring(r.schedule)
    PROVE  r.completed = 0 /\ DueRecord(r, t).next = r.schedule.at
  <1>1. r \in Job /\ EffectiveNext(r, t) # None
    BY DEF IsDue, Considered
  <1>2. DueRecord(r, t).next = EffectiveNext(r, t)
    BY <1>1 DEF DueRecord, IsDue, Job
  <1>3. /\ r.next \in {None, r.schedule.at} /\ (r.last # None => r.next = None)
        /\ (r.completed > 0 => r.last # None)
        /\ r.completed \in Nat /\ r.schedule \in Schedules
    BY <1>1, NoJobAssumption DEF OnceKept, Job
  <1>4. r.last = None /\ EffectiveNext(r, t) = r.schedule.at
    BY <1>1, <1>3, RecoveredOnce DEF EffectiveNext
  <1> QED
    BY <1>2, <1>3, <1>4

LEMMA LedgerInit == Init => LedgerInv
  <1> SUFFICES ASSUME Init PROVE LedgerInv
    OBVIOUS
  <1>1. ASSUME NEW j \in Jobs PROVE OnceKept(disk[j])
    <2>1. CASE disk[j] = NoJob
      BY <2>1 DEF OnceKept
    <2>2. CASE disk[j] # NoJob
      <3>1. PICK s \in Schedules, times \in Repeats : disk[j] = NewJob(s, times, 0)
        BY <2>2 DEF Init
      <3>2. /\ disk[j].schedule = s /\ disk[j].completed = 0
            /\ disk[j].last = None
            /\ ~Recurring(s) => disk[j].next = RecoverableOneshot(s, None, 0)
        BY <3>1 DEF NewJob
      <3> QED
        BY <3>2, RecoveredOnce DEF OnceKept
    <2> QED
      BY <2>1, <2>2
  <1> QED
    BY <1>1 DEF Init, LedgerInv, Saving, Idle

(* A step that writes no file, counts nothing and picks no job. *)
LEMMA LedgerSame ==
    ASSUME SchedInv, LedgerInv, UNCHANGED <<disk, marks, fired>>,
           \A q \in Procs, k \in Jobs : work'[q][k] = "marking" =>
              work[q][k] = "marking" /\ wfile'[q][k] = wfile[q][k],
           \A q \in Procs : pc'[q] \in Saving =>
              pc[q] \in Saving /\ tfile'[q] = tfile[q],
           \A q \in Procs, k \in Jobs :
              /\ pc'[q] \notin {"idle", "due"} /\ work'[q][k] # "done"
              /\ due'[q][k] # NoJob
              => /\ pc[q] \notin {"idle", "due"} /\ work[q][k] # "done"
                 /\ due'[q][k] = due[q][k]
                 /\ work'[q][k] \in {"none", "queued"}
                      => work[q][k] \in {"none", "queued"}
    PROVE  LedgerInv'
  <1>1. \A q \in Procs, k \in Jobs :
           /\ pc'[q] \notin {"idle", "due"} /\ work'[q][k] # "done"
           /\ due'[q][k] # NoJob
           => PickInv(q, k)'
    BY DEF LedgerInv, PickInv
  <1> QED
    BY <1>1 DEF LedgerInv

LEMMA LedgerNext ==
    ASSUME SchedInv, CountInv, LedgerInv, Editors = {}, [Next]_vars
    PROVE  LedgerInv'
  <1> USE DEF SchedInv
  <1>0. /\ disk \in File /\ now \in 0..MaxTime
        /\ \A k \in Jobs : disk[k] \in Job \cup {NoJob} /\ OnceKept(disk[k])
    BY DEF TypeOK, File, LedgerInv
  <1>1. CASE Tock \/ UNCHANGED vars
    <2>1. UNCHANGED <<disk, marks, fired, pc, due, tfile, work, wfile>>
      BY <1>1 DEF Tock, vars, hist, sched
    <2> QED
      BY <2>1, LedgerSame
  <1>2. ASSUME NEW p \in Procs, TickStart(p) PROVE LedgerInv'
    <2>1. /\ UNCHANGED <<disk, marks, fired, due, tfile, work, wfile>>
          /\ \A q \in Procs : pc'[q] = IF q = p THEN "due" ELSE pc[q]
      BY <1>2 DEF TickStart, hist, TypeOK
    <2> QED
      BY <2>1, LedgerSame DEF Saving
  <1>3. ASSUME NEW p \in Procs, TickEnd(p) \/ Crash(p) PROVE LedgerInv'
    <2>1. /\ UNCHANGED <<disk, marks, fired>> /\ pc[p] # "idle"
          /\ \A q \in Procs : q # p => /\ pc'[q] = pc[q] /\ work'[q] = work[q]
          /\ pc'[p] = "idle" /\ \A k \in Jobs : work'[p][k] = "none"
      BY <1>3 DEF TickEnd, Crash, hist, TypeOK, Idle
    <2>2. /\ \A q \in Procs : pc'[q] = "idle"
          /\ \A q \in Procs, k \in Jobs : work'[q][k] = "none"
      BY <2>1, OthersIdle
    <2> QED
      BY <2>1, <2>2, LedgerSame DEF Saving
  <1>4. ASSUME NEW p \in Procs, Dispatch(p) PROVE LedgerInv'
    <2>1. /\ UNCHANGED <<disk, marks, fired, due, tfile, wfile>>
          /\ pc[p] = "advance" /\ pc'[p] = "run"
          /\ \A k \in Jobs : work'[p][k] \in {"none", "queued"}
          /\ \A q \in Procs : q # p => pc'[q] = pc[q] /\ work'[q] = work[q]
      BY <1>4 DEF Dispatch, hist, TypeOK
    <2>2. \A k \in Jobs : work[p][k] = "none"
      BY <2>1 DEF LockInv
    <2>3. \A q \in Procs : pc'[q] \in Saving => pc[q] \in Saving
      BY <2>1 DEF Saving
    <2> QED
      BY <2>1, <2>2, <2>3, LedgerSame
  <1>5. ASSUME NEW p \in Procs, GetDueLoad(p) PROVE LedgerInv'
    <2>1. /\ UNCHANGED <<disk, marks, fired, work, wfile>> /\ pc[p] = "due"
          /\ \A q \in Procs : q # p => pc'[q] = pc[q]
          /\ \A k \in Jobs : due'[p][k] = IF IsDue(disk[k], now)
                                          THEN DueRecord(disk[k], now) ELSE NoJob
          /\ \/ pc'[p] = "advance"
             \/ pc'[p] = "dueSave" /\ tfile'[p] = DueFile(disk, now)
      BY <1>5 DEF GetDueLoad, TypeOK
    <2>2. /\ \A q \in Procs : q # p => pc'[q] = "idle"
          /\ \A q \in Procs, k \in Jobs : work[q][k] = "none"
      BY <2>1, OthersIdle DEF LockInv
    <2>3. ASSUME NEW k \in Jobs
          PROVE  /\ OnceKept(DueFile(disk, now)[k])
                 /\ SameSchedule(DueFile(disk, now)[k], disk[k])
      BY <1>0, DueOnce DEF DueFile
    <2>4. ASSUME NEW k \in Jobs, due'[p][k] # NoJob PROVE PickInv(p, k)'
      <3>1. IsDue(disk[k], now) /\ due'[p][k] = DueRecord(disk[k], now)
        BY <2>1, <2>4
      <3>2. disk[k] \in Job /\ due'[p][k].schedule = disk[k].schedule
        BY <1>0, <3>1, DueFacts
      <3>3. disk[k] # NoJob /\ disk[k].completed = marks[k]
        BY <3>2, NoJobAssumption DEF CountInv, NoLostMark
      <3>4. ~Recurring(disk[k].schedule)
              => disk[k].completed = 0 /\ due'[p][k].next = disk[k].schedule.at
        BY <1>0, <3>1, DueOneShot
      <3> QED
        BY <2>1, <3>2, <3>3, <3>4 DEF PickInv
    <2> QED
      BY <2>1, <2>2, <2>3, <2>4 DEF LedgerInv, Saving
  <1>6. ASSUME NEW p \in Procs, GetDueSave(p) \/ AdvanceSave(p) PROVE LedgerInv'
    <2>1. /\ UNCHANGED <<fired, marks, due, work, wfile>> /\ disk' = tfile[p]
          /\ pc[p] \in Saving /\ pc'[p] = "advance"
          /\ \A q \in Procs : q # p => pc'[q] = pc[q]
      BY <1>6 DEF GetDueSave, AdvanceSave, hist, TypeOK, Saving
    <2>2. /\ \A q \in Procs : q # p => pc'[q] = "idle"
          /\ \A q \in Procs, k \in Jobs : work[q][k] = "none"
      BY <2>1, OthersIdle DEF LockInv, Saving
    <2>3. ASSUME NEW k \in Jobs
          PROVE  /\ OnceKept(disk'[k])
                 /\ disk'[k] # NoJob <=> disk[k] # NoJob
                 /\ disk[k] # NoJob => disk'[k].schedule = disk[k].schedule
      BY <2>1 DEF LedgerInv, SameSchedule, CountInv, SameCount
    <2>4. ASSUME NEW k \in Jobs, due'[p][k] # NoJob PROVE PickInv(p, k)'
      <3>1. PickInv(p, k)
        BY <2>1, <2>2, <2>4 DEF LedgerInv, Saving
      <3> QED
        BY <2>1, <2>3, <3>1 DEF PickInv
    <2>5. ASSUME NEW k \in Jobs, disk'[k] # NoJob, ~Recurring(disk'[k].schedule)
          PROVE  fired'[k] \in {None, disk'[k].schedule.at}
      BY <2>1, <2>3, <2>5 DEF LedgerInv
    <2> QED
      BY <2>1, <2>2, <2>3, <2>4, <2>5 DEF LedgerInv, Saving
  <1>7. ASSUME NEW p \in Procs, NEW j \in Jobs, AdvanceLoad(p, j) PROVE LedgerInv'
    <2> DEFINE f == AdvancedFile(disk, j, now)
    <2>1. /\ UNCHANGED <<disk, fired, marks, due, work, wfile>>
          /\ pc[p] = "advance"
          /\ \A q \in Procs : q # p => pc'[q] = pc[q]
          /\ \/ pc'[p] = "advance"
             \/ pc'[p] = "advanceSave" /\ tfile'[p] = f
      BY <1>7 DEF AdvanceLoad, hist, TypeOK
    <2>2. /\ \A q \in Procs : q # p => pc'[q] = "idle"
          /\ \A q \in Procs, k \in Jobs : work[q][k] = "none"
      BY <2>1, OthersIdle DEF LockInv
    <2>3. \A k \in Jobs : OnceKept(f[k]) /\ SameSchedule(f[k], disk[k])
      BY <1>0, AdvanceOnce
    <2> HIDE DEF f
    <2>4. ASSUME NEW k \in Jobs, due'[p][k] # NoJob PROVE PickInv(p, k)'
      <3>1. PickInv(p, k)
        BY <2>1, <2>2, <2>4 DEF LedgerInv
      <3> QED
        BY <2>1, <3>1 DEF PickInv
    <2> QED
      BY <2>1, <2>2, <2>3, <2>4 DEF LedgerInv, Saving
  <1>8. ASSUME NEW p \in Procs, NEW j \in Jobs, RunStart(p, j) PROVE LedgerInv'
    <2>1. /\ UNCHANGED <<disk, marks, pc, due, tfile, wfile>>
          /\ pc[p] = "run" /\ work[p][j] = "queued" /\ due[p][j] # NoJob
          /\ \A q \in Procs, k \in Jobs :
                work'[q][k] = IF q = p /\ k = j THEN "running" ELSE work[q][k]
          /\ \A k \in Jobs : fired'[k] = IF k = j THEN due[p][j].next ELSE fired[k]
      BY <1>8 DEF RunStart, LockInv, TypeOK
    <2>2. PickInv(p, j)
      BY <2>1 DEF LedgerInv
    <2>3. \A k \in Jobs : disk[k] # NoJob /\ ~Recurring(disk[k].schedule)
             => fired'[k] \in {None, disk[k].schedule.at}
      BY <2>1, <2>2 DEF LedgerInv, PickInv
    <2>4. ASSUME NEW q \in Procs, NEW k \in Jobs, due'[q][k] # NoJob,
                 pc'[q] \notin {"idle", "due"}, work'[q][k] # "done"
          PROVE  PickInv(q, k)'
      <3>1. PickInv(q, k)
        BY <2>1, <2>4 DEF LedgerInv
      <3> QED
        BY <2>1, <3>1 DEF PickInv
    <2>5. \A q \in Procs, k \in Jobs : work'[q][k] = "marking" => work[q][k] = "marking"
      BY <2>1
    <2> QED
      BY <2>1, <2>3, <2>4, <2>5 DEF LedgerInv
  <1>9. ASSUME NEW p \in Procs, NEW j \in Jobs, MarkLoad(p, j) PROVE LedgerInv'
    <2> DEFINE f == MarkedFile(disk, j, now)
    <2>1. /\ UNCHANGED <<disk, fired, marks, pc, due, tfile>>
          /\ work[p][j] = "running"
          /\ \A q \in Procs, k \in Jobs :
                /\ work'[q][k] \in {work[q][k], "done"}
                   \/ (q = p /\ k = j /\ work'[q][k] = "marking")
                /\ work'[q][k] = "marking" =>
                      \/ work[q][k] = "marking" /\ wfile'[q][k] = wfile[q][k]
                      \/ q = p /\ k = j /\ disk[j] # NoJob /\ wfile'[q][k] = f
      BY <1>9 DEF MarkLoad, hist, TypeOK
    <2>2. disk[j] # NoJob => \A k \in Jobs :
             /\ OnceKept(f[k]) /\ SameSchedule(f[k], disk[k])
             /\ k = j /\ f[k] = NoJob => LimitReached(disk[k])
      BY <1>0, MarkOnce
    <2> HIDE DEF f
    <2>3. ASSUME NEW q \in Procs, NEW k \in Jobs, due'[q][k] # NoJob,
                 pc'[q] \notin {"idle", "due"}, work'[q][k] # "done"
          PROVE  PickInv(q, k)'
      <3>1. PickInv(q, k)
        BY <2>1, <2>3 DEF LedgerInv
      <3> QED
        BY <2>1, <2>3, <3>1 DEF PickInv
    <2> QED
      BY <2>1, <2>2, <2>3 DEF LedgerInv
  <1>10. ASSUME NEW p \in Procs, NEW j \in Jobs, MarkSave(p, j) PROVE LedgerInv'
    <2>1. /\ UNCHANGED <<fired, pc, due, tfile>>
          /\ disk' = wfile[p][j] /\ work[p][j] = "marking"
          /\ \A k \in Jobs : k # j => marks'[k] = marks[k]
          /\ \A q \in Procs, k \in Jobs :
                work'[q][k] = IF q = p /\ k = j THEN "done" ELSE work[q][k]
      BY <1>10 DEF MarkSave, TypeOK
    <2>2. pc[p] = "run"
      BY <2>1 DEF LockInv
    <2>3. /\ \A q \in Procs : q # p => pc'[q] = "idle"
          /\ \A q \in Procs : pc'[q] \notin Saving
      BY <2>1, <2>2, OthersIdle DEF Saving
    <2>4. \A q \in Procs, k \in Jobs : work'[q][k] # "marking"
      <3>1. \A k \in Jobs : work[p][k] = "marking" => k = j
        BY <2>1 DEF LockInv
      <3>2. \A q \in Procs, k \in Jobs : q # p => work[q][k] = "none"
        BY <2>2, OthersIdle
      <3> QED
        BY <2>1, <3>1, <3>2
    <2>5. ASSUME NEW k \in Jobs
          PROVE  /\ OnceKept(disk'[k])
                 /\ disk'[k] # NoJob =>
                      disk[k] # NoJob /\ disk'[k].schedule = disk[k].schedule
                 /\ k # j /\ disk[k] # NoJob => disk'[k] # NoJob
      BY <2>1 DEF LedgerInv, SameSchedule, CountInv, SameCount, OneMore
    <2>6. ASSUME NEW k \in Jobs, due'[p][k] # NoJob, work'[p][k] # "done"
          PROVE  PickInv(p, k)'
      <3>1. PickInv(p, k) /\ k # j
        BY <2>1, <2>2, <2>6 DEF LedgerInv
      <3> QED
        BY <2>1, <2>5, <3>1 DEF PickInv
    <2>7. ASSUME NEW k \in Jobs, disk'[k] # NoJob, ~Recurring(disk'[k].schedule)
          PROVE  fired'[k] \in {None, disk'[k].schedule.at}
      BY <2>1, <2>5, <2>7 DEF LedgerInv
    <2> QED
      BY <2>3, <2>4, <2>5, <2>6, <2>7 DEF LedgerInv
  <1> QED
    BY <1>1, <1>2, <1>3, <1>4, <1>5, <1>6, <1>7, <1>8, <1>9, <1>10
    DEF Next, TickStep

(* The whole invariant of the scheduler, under the same conditions: locks,
   counts and occurrences of every file in memory agree with jobs.json. *)
THEOREM Scheduler ==
    ASSUME Editors = {}, HasCroniter PROVE Spec => []CronInv
  <1>1. Init => SchedInv /\ CronInv
    BY SchedInit, CountInit, OccInit, LedgerInit DEF CronInv, SchedInv
  <1>2. SchedInv /\ CronInv /\ [Next]_vars => (SchedInv /\ CronInv)'
    BY SchedNext, CountNext, OccNext, LedgerNext DEF CronInv, SchedInv
  <1> QED
    BY <1>1, <1>2, PTL DEF Spec

-----------------------------------------------------------------------------
(* The refinement of JobLedger *)

Busy == UNION {Active(p) : p \in Procs}

(* Only the process inside a tick runs anything. *)
LEMMA BusyOf ==
    ASSUME SchedInv, NEW p \in Procs, pc[p] # "idle" PROVE Busy = Active(p)
  <1>1. \A q \in Procs : q # p => Active(q) = {}
    BY OthersIdle DEF Active
  <1> QED
    BY <1>1 DEF Busy

(* A step that keeps the plan of every job, every count and every run. *)
LEMMA LedgerStutter ==
    ASSUME \A j \in Jobs : SameCount(disk'[j], disk[j])
                           /\ SameSchedule(disk'[j], disk[j]),
           UNCHANGED <<marks, fired>>, Busy' = Busy
    PROVE  UNCHANGED Ledger!vars
  <1>1. \A j \in Jobs : /\ disk'[j] # NoJob <=> disk[j] # NoJob
                        /\ disk[j] # NoJob =>
                              /\ disk'[j].times = disk[j].times
                              /\ disk'[j].schedule = disk[j].schedule
    BY DEF SameCount, SameSchedule
  <1>2. InFile' = InFile
    BY <1>1 DEF InFile
  <1>3. {j \in InFile : ~Recurring(disk[j].schedule)}'
          = {j \in InFile : ~Recurring(disk[j].schedule)}
    BY <1>1, <1>2 DEF InFile
  <1>4. [j \in Jobs |-> IF j \in InFile THEN disk[j].times ELSE None]'
          = [j \in Jobs |-> IF j \in InFile THEN disk[j].times ELSE None]
    BY <1>1, <1>2 DEF InFile
  <1> QED
    BY <1>2, <1>3, <1>4 DEF Ledger!vars, Ledger!jobs, Busy

LEMMA LedgerStarts == Init => Ledger!Init
  <1> SUFFICES ASSUME Init PROVE Ledger!Init
    OBVIOUS
  <1>1. ASSUME NEW j \in InFile PROVE disk[j].times \in (Nat \ {0}) \cup {None}
    <2>1. PICK s \in Schedules, times \in Repeats : disk[j] = NewJob(s, times, 0)
      BY DEF Init, InFile
    <2> QED
      BY <2>1, CronAssumption DEF NewJob
  <1>2. Busy = {}
    BY DEF Init, Idle, Busy, Active
  <1> QED
    BY <1>1, <1>2 DEF Init, Ledger!Init, InFile, Busy

(* A run of the model is a start of the ledger, ... *)
LEMMA RunStarts ==
    ASSUME SchedInv, CronInv, NEW p \in Procs, NEW j \in Jobs, RunStart(p, j)
    PROVE  Ledger!Next
  <1> DEFINE d == due[p][j]
             o == d.next
             once == {k \in InFile : ~Recurring(disk[k].schedule)}
             limit == [k \in Jobs |-> IF k \in InFile THEN disk[k].times ELSE None]
  <1>1. /\ UNCHANGED <<disk, marks>> /\ MayStart(p, j)
        /\ fired' = [fired EXCEPT ![j] = o]
        /\ pc[p] = "run" /\ work[p][j] = "queued" /\ d # NoJob /\ pc'[p] = "run"
        /\ \A q \in Procs, k \in Jobs :
              work'[q][k] = IF q = p /\ k = j THEN "running" ELSE work[q][k]
    BY DEF RunStart, SchedInv, LockInv, TypeOK
  <1>2. Busy = Active(p) /\ Active(p) \subseteq Jobs /\ j \notin Active(p)
    BY <1>1, BusyOf DEF Active
  <1>3. Busy' = Busy \cup {j}
    <2>1. \A q \in Procs : q # p => Active(q) = {} /\ Active(q)' = {}
      BY <1>1, OthersIdle DEF Active
    <2>2. Active(p)' = Active(p) \cup {j}
      BY <1>1 DEF Active
    <2> QED
      BY <2>1, <2>2 DEF Busy
  <1>4. /\ Busy \cap Sequential = {} /\ (j \in Sequential => Busy = {})
        /\ Cardinality(Busy) < MaxParallel
    <2>1. CASE j \in Sequential
      <3>1. Busy = {}
        BY <1>1, <1>2, <2>1 DEF MayStart
      <3>2. Cardinality({}) = 0 /\ MaxParallel \in Nat \ {0}
        BY FS_EmptySet, CronAssumption
      <3> QED
        BY <3>1, <3>2
    <2>2. CASE j \notin Sequential
      BY <1>1, <1>2, <2>2 DEF MayStart, Active
    <2> QED
      BY <2>1, <2>2
  <1>5. PickInv(p, j) /\ DueInv(p, j)
    BY <1>1 DEF CronInv, LedgerInv, OccInv
  <1>6. /\ j \in InFile /\ disk[j].schedule = d.schedule /\ d \in Job
        /\ o \in Nat /\ o <= now /\ now \in 0..MaxTime
    <2>1. d \in Job
      BY <1>1 DEF SchedInv, TypeOK, File
    <2> QED
      BY <1>5, <2>1 DEF PickInv, DueInv, InFile, Job, SchedInv, TypeOK
  <1>7. o \in 0..MaxTime
    BY <1>6, CronAssumption
  <1>8. j \in once => marks[j] = 0 /\ (fired[j] = None \/ o = fired[j])
    BY <1>1, <1>5, <1>6 DEF PickInv, CronInv, LedgerInv, InFile
  <1>9. j \notin once => fired[j] = None \/ o > fired[j]
    <2>1. fired[j] \in Nat \cup {None}
      BY DEF SchedInv, TypeOK
    <2> QED
      BY <1>1, <1>5, <1>6, <2>1 DEF DueInv
  <1>10. InFile' = InFile /\ once' = once /\ limit' = limit
    BY <1>1 DEF InFile
  <1>11. UNCHANGED Ledger!jobs
    BY <1>10 DEF Ledger!jobs
  <1>12. Ledger!Room(j)
    <2>1. Ledger!Cardinality(Busy) = Cardinality(Busy)
      BY DEF Ledger!Cardinality, Cardinality
    <2> QED
      BY <1>2, <1>4, <2>1 DEF Ledger!Room, Busy
  <1> HIDE DEF d, o
  <1>13. Ledger!Start(j, o)
    BY <1>1, <1>3, <1>6, <1>8, <1>9, <1>11, <1>12 DEF Ledger!Start, Busy
  <1> QED
    BY <1>7, <1>13 DEF Ledger!Next

(* ... its mark a finish, ... *)
LEMMA MarkFinishes ==
    ASSUME SchedInv, CronInv, NEW p \in Procs, NEW j \in Jobs, MarkSave(p, j)
    PROVE  Ledger!Next
  <1> DEFINE once == {k \in InFile : ~Recurring(disk[k].schedule)}
             limit == [k \in Jobs |-> IF k \in InFile THEN disk[k].times ELSE None]
  <1>1. /\ work[p][j] = "marking" /\ disk' = wfile[p][j] /\ pc[p] = "run"
        /\ marks' = [marks EXCEPT ![j] = @ + 1] /\ UNCHANGED fired
        /\ \A q \in Procs, k \in Jobs :
              work'[q][k] = IF q = p /\ k = j THEN "done" ELSE work[q][k]
    BY DEF MarkSave, SchedInv, LockInv, TypeOK
  <1>2. j \in Busy /\ Busy' = Busy \ {j}
    <2>1. \A q \in Procs : q # p => Active(q) = {} /\ Active(q)' = {}
      BY <1>1, OthersIdle DEF Active
    <2>2. j \in Active(p) /\ Active(p)' = Active(p) \ {j}
      BY <1>1 DEF Active
    <2> QED
      BY <2>1, <2>2 DEF Busy
  <1>3. /\ j \in InFile /\ disk[j].completed = marks[j]
        /\ disk[j] \in Job /\ marks[j] \in Nat
        /\ disk[j].times \in Nat \cup {None}
    <2>1. disk[j] # NoJob
      BY <1>1 DEF CronInv, CountInv
    <2>2. disk[j] \in Job
      BY <2>1 DEF SchedInv, TypeOK, File
    <2>3. disk[j].times \in Nat \cup {None}
      BY <2>2, LimitType
    <2> QED
      BY <2>1, <2>2, <2>3 DEF CronInv, CountInv, NoLostMark, InFile, SchedInv, TypeOK
  <1>4. ASSUME NEW k \in Jobs, k # j
        PROVE  /\ disk'[k] # NoJob <=> disk[k] # NoJob
               /\ disk[k] # NoJob => /\ disk'[k].times = disk[k].times
                                     /\ disk'[k].schedule = disk[k].schedule
    BY <1>1, <1>4 DEF CronInv, CountInv, SameCount, LedgerInv, SameSchedule
  <1>5. CASE disk'[j] = NoJob
    <2>1. limit[j] # None /\ marks[j] + 1 >= limit[j]
      BY <1>1, <1>3, <1>5 DEF CronInv, LedgerInv, LimitReached
    <2>2. /\ InFile' = InFile \ {j} /\ once' = once \ {j}
          /\ limit' = [limit EXCEPT ![j] = None]
      BY <1>4, <1>5 DEF InFile
    <2> QED
      BY <1>1, <1>2, <2>1, <2>2 DEF Ledger!Next, Ledger!Finish, Busy
  <1>6. CASE disk'[j] # NoJob
    <2>1. /\ OneMore(disk'[j], disk[j])
          /\ disk'[j].schedule = disk[j].schedule
      BY <1>1, <1>3, <1>6 DEF CronInv, CountInv, LedgerInv, SameSchedule, InFile
    <2>2. disk'[j].times = disk[j].times
          /\ ~(limit[j] # None /\ marks[j] + 1 >= limit[j])
      BY <1>3, <1>6, <2>1 DEF OneMore
    <2>3. InFile' = InFile /\ once' = once /\ limit' = limit
      BY <1>3, <1>4, <1>6, <2>1, <2>2 DEF InFile
    <2> QED
      BY <1>1, <1>2, <2>2, <2>3 DEF Ledger!Next, Ledger!Finish, Ledger!jobs, Busy
  <1> QED
    BY <1>5, <1>6

(* ... and the death of its process a loss. *)
LEMMA CrashLoses ==
    ASSUME SchedInv, NEW p \in Procs, Crash(p)
    PROVE  Ledger!Next
  <1>1. /\ UNCHANGED <<disk, marks, fired>> /\ pc[p] # "idle"
        /\ \A q \in Procs : q # p => work'[q] = work[q]
        /\ \A k \in Jobs : work'[p][k] = "none"
    BY DEF Crash, hist, TypeOK, SchedInv, Idle
  <1>2. \A q \in Procs, k \in Jobs : work'[q][k] = "none"
    BY <1>1, OthersIdle
  <1>3. Busy' = {}
    BY <1>2 DEF Busy, Active
  <1>4. InFile' = InFile
    BY <1>1 DEF InFile
  <1> QED
    BY <1>1, <1>3, <1>4 DEF Ledger!Next, Ledger!Lose, Ledger!jobs, Busy

LEMMA LedgerSteps ==
    ASSUME SchedInv, CronInv, Editors = {}, [Next]_vars
    PROVE  [Ledger!Next]_(Ledger!vars)
  <1>1. \A j \in Jobs : SameCount(disk[j], disk[j]) /\ SameSchedule(disk[j], disk[j])
    BY DEF SameCount, SameSchedule
  <1>2. ASSUME UNCHANGED <<disk, marks, fired>>, Busy' = Busy
        PROVE  UNCHANGED Ledger!vars
    BY <1>1, <1>2, LedgerStutter
  <1>3. CASE Tock \/ UNCHANGED vars
    <2>1. UNCHANGED <<disk, marks, fired, work>>
      BY <1>3 DEF Tock, vars, hist, sched
    <2> QED
      BY <1>2, <2>1 DEF Busy, Active
  <1>4. ASSUME NEW p \in Procs,
               \/ TickStart(p) \/ GetDueLoad(p)
               \/ \E j \in Jobs : AdvanceLoad(p, j)
        PROVE  UNCHANGED Ledger!vars
    <2>1. UNCHANGED <<disk, marks, fired, work>>
      BY <1>4 DEF TickStart, GetDueLoad, AdvanceLoad, hist
    <2> QED
      BY <1>2, <2>1 DEF Busy, Active
  <1>5. ASSUME NEW p \in Procs, Dispatch(p) \/ TickEnd(p)
        PROVE  UNCHANGED Ledger!vars
    <2>1. /\ UNCHANGED <<disk, marks, fired>>
          /\ \A q \in Procs, k \in Jobs :
                q # p => work'[q][k] = work[q][k]
          /\ \A k \in Jobs : /\ work'[p][k] \in {"none", "queued"}
                             /\ work[p][k] \in {"none", "done"}
      BY <1>5 DEF Dispatch, TickEnd, hist, SchedInv, TypeOK, LockInv, Idle
    <2>2. \A q \in Procs : Active(q)' = Active(q)
      BY <2>1 DEF Active
    <2>3. Busy' = Busy
      BY <2>2 DEF Busy
    <2> QED
      BY <1>2, <2>1, <2>3
  <1>6. ASSUME NEW p \in Procs, GetDueSave(p) \/ AdvanceSave(p)
        PROVE  UNCHANGED Ledger!vars
    <2>1. /\ UNCHANGED <<marks, fired, work>> /\ disk' = tfile[p]
          /\ pc[p] \in Saving
      BY <1>6 DEF GetDueSave, AdvanceSave, hist, Saving
    <2>2. \A j \in Jobs : /\ SameCount(disk'[j], disk[j])
                          /\ SameSchedule(disk'[j], disk[j])
      BY <2>1 DEF CronInv, CountInv, LedgerInv
    <2>3. Busy' = Busy
      BY <2>1 DEF Busy, Active
    <2> QED
      BY <2>1, <2>2, <2>3, LedgerStutter
  <1>7. ASSUME NEW p \in Procs, NEW j \in Jobs, MarkLoad(p, j)
        PROVE  Ledger!Next \/ UNCHANGED Ledger!vars
    <2>1. /\ UNCHANGED <<disk, marks, fired>> /\ work[p][j] = "running"
          /\ disk[j] # NoJob => work' = [work EXCEPT ![p][j] = "marking"]
      BY <1>7 DEF MarkLoad, hist
    <2>2. pc[p] = "run" /\ due[p][j] # NoJob
      BY <2>1 DEF SchedInv, LockInv
    <2>3. disk[j] # NoJob
      BY <2>1, <2>2 DEF CronInv, LedgerInv, PickInv
    <2>4. \A q \in Procs, k \in Jobs :
             work'[q][k] = IF q = p /\ k = j THEN "marking" ELSE work[q][k]
      BY <2>1, <2>3 DEF SchedInv, TypeOK
    <2>5. \A q \in Procs : Active(q)' = Active(q)
      BY <2>1, <2>4 DEF Active
    <2>6. Busy' = Busy
      BY <2>5 DEF Busy
    <2> QED
      BY <1>2, <2>1, <2>6
  <1> QED
    BY <1>3, <1>4, <1>5, <1>6, <1>7, RunStarts, MarkFinishes, CrashLoses
    DEF Next, TickStep

(* As long as nobody edits jobs.json and croniter stays installed, every
   behaviour of the scheduler, on copies of the file and through crashes, is
   one of the ledger: occurrences in order and at most once, no job beside
   another run of it or a sequential job, and no job past its limit. *)
THEOREM KeepsLedger ==
    ASSUME Editors = {}, HasCroniter PROVE Spec => LedgerKept
  <1>1. SchedInv /\ CronInv /\ [Next]_vars => [Ledger!Next]_(Ledger!vars)
    BY LedgerSteps
  <1>2. Spec => [](SchedInv /\ CronInv)
    BY Scheduler, SchedSafe, PTL
  <1> QED
    BY <1>1, <1>2, LedgerStarts, PTL DEF Spec, LedgerKept, Ledger!Spec

-----------------------------------------------------------------------------
(* Recurring jobs and the outcomes of their runs *)

(* A run is only written back without a next run while nobody can pause. *)
OutcomesKnown ==
    Editors = {} \/ (HasCroniter /\ "reschedule" \notin EditOps)

(* get_due_jobs and advance_next_run change next_run_at only ... *)
LEMMA DueStays ==
    ASSUME NEW f \in File, NEW t \in 0..MaxTime, NEW j \in Jobs,
           StaysScheduled(f[j])
    PROVE  StaysScheduled(DueFile(f, t)[j])
  <1>1. DueFile(f, t)[j] = DueRecord(f[j], t)
    BY DEF DueFile
  <1>2. CASE ~Considered(f[j], t)
    BY <1>1, <1>2 DEF DueRecord
  <1>3. CASE Considered(f[j], t)
    <2>1. f[j] \in Job
      BY <1>3 DEF Considered, File
    <2> DEFINE n == IF Stale(f[j], t) THEN ComputeNextRun(f[j].schedule, t, t)
                                      ELSE EffectiveNext(f[j], t)
    <2>2. DueRecord(f[j], t) = [f[j] EXCEPT !.next = n]
      BY <1>3 DEF DueRecord
    <2> HIDE DEF n
    <2>3. /\ DueRecord(f[j], t).schedule = f[j].schedule
          /\ DueRecord(f[j], t).enabled = f[j].enabled
          /\ DueRecord(f[j], t).state = f[j].state
      BY <2>1, <2>2 DEF Job
    <2> QED
      BY <1>1, <1>3, <2>3 DEF StaysScheduled, Considered
  <1> QED
    BY <1>2, <1>3

LEMMA AdvanceStays ==
    ASSUME NEW f \in File, NEW t \in 0..MaxTime, NEW j \in Jobs, NEW k \in Jobs,
           StaysScheduled(f[k])
    PROVE  StaysScheduled(AdvancedFile(f, j, t)[k])
  <1> DEFINE n == ComputeNextRun(f[j].schedule, t, t)
  <1>1. \/ AdvancedFile(f, j, t) = f
        \/ f[j] # NoJob /\ AdvancedFile(f, j, t) = [f EXCEPT ![j].next = n]
    BY DEF AdvancedFile
  <1> HIDE DEF n
  <1>2. CASE f[j] # NoJob /\ AdvancedFile(f, j, t) = [f EXCEPT ![j].next = n]
    <2>1. CASE k = j
      <3>1. f[j] \in Job
        BY <1>2 DEF File
      <3>2. AdvancedFile(f, j, t)[k] = [f[j] EXCEPT !.next = n]
        BY <1>2, <2>1 DEF File
      <3>3. /\ AdvancedFile(f, j, t)[k].schedule = f[j].schedule
            /\ AdvancedFile(f, j, t)[k].enabled = f[j].enabled
            /\ AdvancedFile(f, j, t)[k].state = f[j].state
        BY <3>1, <3>2 DEF Job
      <3> QED
        BY <1>2, <2>1, <3>3 DEF StaysScheduled
    <2>2. CASE k # j
      BY <1>2, <2>2 DEF File
    <2> QED
      BY <2>1, <2>2
  <1> QED
    BY <1>1, <1>2

(* ... and mark_job_run puts a job it cannot schedule in error, enabled. *)
LEMMA MarkStays ==
    ASSUME NEW f \in File, NEW t \in 0..MaxTime, NEW j \in Jobs, NEW k \in Jobs,
           f[j] # NoJob, StaysScheduled(f[k])
    PROVE  StaysScheduled(MarkedFile(f, j, t)[k])
  <1>1. f[j] \in Job
    BY DEF File
  <1>2. CASE k # j
    BY <1>2 DEF MarkedFile, File
  <1>3. CASE k = j
    <2>1. MarkedFile(f, j, t)[j]
            = IF LimitReached(f[j]) THEN NoJob ELSE Marked(f[j], t)
      BY DEF MarkedFile, File
    <2> DEFINE n == ComputeNextRun(f[j].schedule, t, t)
    <2>2. Recurring(f[j].schedule) /\ HasCroniter => n # None
      BY <1>1, ComputeType DEF Job
    <2>3. Marked(f[j], t).schedule = f[j].schedule
      BY <1>1, MarkedType
    <2>4. /\ Marked(f[j], t).enabled
               = (f[j].enabled /\ (n # None \/ Recurring(f[j].schedule)))
          /\ n # None /\ f[j].state = "paused" => Marked(f[j], t).state = "paused"
      BY <1>1 DEF Marked, Job
    <2> HIDE DEF n
    <2> QED
      BY <1>3, <2>1, <2>2, <2>3, <2>4 DEF StaysScheduled
  <1> QED
    BY <1>2, <1>3

LEMMA NewStays ==
    ASSUME NEW s, NEW times, NEW t
    PROVE  StaysScheduled(NewJob(s, times, t))
  BY DEF NewJob, StaysScheduled

(* Of the user's operations only a change of the schedule can make a job
   recurring that has ended. *)
LEMMA UpdateStays ==
    ASSUME NEW r \in Job, NEW seen \in Job, NEW t \in 0..MaxTime,
           NEW op \in AllOps \ {"create", "remove", "reschedule"},
           NEW s, NEW times, StaysScheduled(r), HasCroniter
    PROVE  StaysScheduled(Updated(op, r, seen, s, times, t))
  <1> DEFINE u == Overridden(op, r, seen, s, times, t)
             v == Updated(op, r, seen, s, times, t)
             n == ComputeNextRun(seen.schedule, None, t)
  <1>1. op \in {"edit", "repeat", "pause", "resume", "trigger"}
    BY DEF AllOps
  <1>2. r # NoJob
    BY NoJobAssumption
  <1>3. /\ DOMAIN u = DOMAIN r /\ u.schedule = r.schedule
        /\ \/ u.enabled \/ u.state = "paused"
           \/ u.enabled = r.enabled /\ u.state = r.state
    <2> HIDE DEF n
    <2>1. CASE op = "edit"
      BY <2>1 DEF Overridden
    <2>2. CASE op = "repeat"
      BY <2>2 DEF Overridden, Job
    <2>3. CASE op = "pause"
      BY <2>3 DEF Overridden, Job
    <2>4. CASE op = "resume"
      BY <2>4 DEF Overridden, Job
    <2>5. CASE op = "trigger"
      BY <2>5 DEF Overridden, Job
    <2> QED
      BY <1>1, <2>1, <2>2, <2>3, <2>4, <2>5
  <1>4. \/ v = u
        \/ v = [u EXCEPT !.next = ComputeNextRun(u.schedule, None, t)]
    BY DEF Updated
  <1> HIDE DEF u
  <1>5. v.schedule = u.schedule /\ v.enabled = u.enabled /\ v.state = u.state
    BY <1>3, <1>4 DEF Job
  <1> HIDE DEF v
  <1>6. StaysScheduled(v)
    BY <1>2, <1>3, <1>5 DEF StaysScheduled
  <1> QED
    BY <1>6 DEF v

LEMMA OutcomeInit == Init => OutcomeInv
  <1> SUFFICES ASSUME Init PROVE OutcomeInv
    OBVIOUS
  <1>1. ASSUME NEW j \in Jobs PROVE StaysScheduled(disk[j])
    <2>1. disk[j] = NoJob
          \/ \E s \in Schedules, times \in Repeats : disk[j] = NewJob(s, times, 0)
      BY DEF Init
    <2>2. StaysScheduled(NoJob)
      BY DEF StaysScheduled
    <2> QED
      BY <2>1, <2>2, NewStays
  <1> QED
    BY <1>1 DEF Init, OutcomeInv, Saving, Idle, NoEdit, Operation

LEMMA TickOutcome ==
    ASSUME SchedInv, OutcomeInv, NEW p \in Procs, TickStep(p) \/ Crash(p)
    PROVE  OutcomeInv'
  <1> USE DEF SchedInv
  <1>0. disk \in File /\ now \in 0..MaxTime
    BY DEF TypeOK
  <1>1. UNCHANGED edit
    BY DEF TickStep, TickStart, GetDueLoad, GetDueSave, AdvanceSave, Dispatch,
           TickEnd, Crash, AdvanceLoad, RunStart, MarkLoad, MarkSave
  (* Nothing is saved, and no new file is made. *)
  <1>2. ASSUME UNCHANGED disk,
               \A q \in Procs : pc'[q] \in Saving
                                  => pc[q] \in Saving /\ tfile'[q] = tfile[q],
               \A q \in Procs, k \in Jobs :
                  work'[q][k] = "marking"
                    => work[q][k] = "marking" /\ wfile'[q][k] = wfile[q][k]
        PROVE  OutcomeInv'
    BY <1>1, <1>2 DEF OutcomeInv
  <1>3. CASE TickStart(p)
    BY <1>2, <1>3 DEF TickStart, TypeOK, Saving
  <1>4. CASE GetDueLoad(p)
    <2>1. /\ UNCHANGED <<disk, work, wfile>>
          /\ \/ pc' = [pc EXCEPT ![p] = "advance"] /\ UNCHANGED tfile
             \/ /\ pc' = [pc EXCEPT ![p] = "dueSave"]
                /\ tfile' = [tfile EXCEPT ![p] = DueFile(disk, now)]
      BY <1>4 DEF GetDueLoad
    <2>2. \A q \in Procs, j \in Jobs :
             pc'[q] \in Saving => StaysScheduled(tfile'[q][j])
      <3> TAKE q \in Procs, j \in Jobs
      <3>1. CASE q = p
        BY <1>0, <2>1, <3>1, DueStays DEF OutcomeInv, TypeOK, Saving
      <3>2. CASE q # p
        BY <2>1, <3>2 DEF OutcomeInv, TypeOK
      <3> QED
        BY <3>1, <3>2
    <2> QED
      BY <1>1, <2>1, <2>2 DEF OutcomeInv
  <1>5. CASE GetDueSave(p) \/ AdvanceSave(p)
    <2>1. /\ pc[p] \in Saving /\ disk' = tfile[p]
          /\ pc' = [pc EXCEPT ![p] = "advance"]
          /\ tfile' = [tfile EXCEPT ![p] = None]
          /\ UNCHANGED <<work, wfile>>
      BY <1>5 DEF GetDueSave, AdvanceSave, Saving
    <2>2. \A q \in Procs, j \in Jobs :
             pc'[q] \in Saving => StaysScheduled(tfile'[q][j])
      BY <2>1 DEF OutcomeInv, TypeOK, Saving
    <2> QED
      BY <1>1, <2>1, <2>2 DEF OutcomeInv
  <1>6. ASSUME NEW j \in Jobs, AdvanceLoad(p, j) PROVE OutcomeInv'
    <2>1. /\ UNCHANGED <<disk, work, wfile>>
          /\ \/ UNCHANGED <<pc, tfile>>
             \/ /\ pc' = [pc EXCEPT ![p] = "advanceSave"]
                /\ tfile' = [tfile EXCEPT ![p] = AdvancedFile(disk, j, now)]
      BY <1>6 DEF AdvanceLoad
    <2>2. \A q \in Procs, k \in Jobs :
             pc'[q] \in Saving => StaysScheduled(tfile'[q][k])
      <3> TAKE q \in Procs, k \in Jobs
      <3>1. CASE UNCHANGED <<pc, tfile>>
        BY <3>1 DEF OutcomeInv
      <3>2. CASE ~UNCHANGED <<pc, tfile>> /\ q = p
        <4>1. tfile'[q][k] = AdvancedFile(disk, j, now)[k]
          BY <2>1, <3>2 DEF TypeOK
        <4> QED
          BY <1>0, <4>1, AdvanceStays DEF OutcomeInv
      <3>3. CASE ~UNCHANGED <<pc, tfile>> /\ q # p
        BY <2>1, <3>3 DEF OutcomeInv, TypeOK
      <3> QED
        BY <3>1, <3>2, <3>3
    <2> QED
      BY <1>1, <2>1, <2>2 DEF OutcomeInv
  <1>7. CASE Dispatch(p)
    BY <1>2, <1>7 DEF Dispatch, TypeOK, Saving
  <1>8. CASE TickEnd(p)
    BY <1>2, <1>8 DEF TickEnd, TypeOK, Saving, Idle
  <1>9. CASE Crash(p)
    BY <1>2, <1>9 DEF Crash, TypeOK, Saving, Idle
  <1>10. ASSUME NEW j \in Jobs, RunStart(p, j) PROVE OutcomeInv'
    BY <1>2, <1>10 DEF RunStart, TypeOK
  <1>11. ASSUME NEW j \in Jobs, MarkLoad(p, j) PROVE OutcomeInv'
    <2>1. /\ UNCHANGED <<disk, pc, tfile>>
          /\ \A q \in Procs, k \in Jobs :
                work'[q][k] = "marking" =>
                   \/ work[q][k] = "marking" /\ wfile'[q][k] = wfile[q][k]
                   \/ /\ q = p /\ k = j /\ disk[j] # NoJob
                      /\ wfile'[q][k] = MarkedFile(disk, j, now)
      BY <1>11 DEF MarkLoad, TypeOK
    <2>2. disk[j] # NoJob
            => \A k \in Jobs : StaysScheduled(MarkedFile(disk, j, now)[k])
      BY <1>0, MarkStays DEF OutcomeInv
    <2> QED
      BY <1>1, <2>1, <2>2 DEF OutcomeInv
  <1>12. ASSUME NEW j \in Jobs, MarkSave(p, j) PROVE OutcomeInv'
    <2>1. /\ work[p][j] = "marking" /\ disk' = wfile[p][j]
          /\ UNCHANGED <<pc, tfile>>
          /\ \A q \in Procs, k \in Jobs :
                work'[q][k] = "marking"
                  => work[q][k] = "marking" /\ wfile'[q][k] = wfile[q][k]
      BY <1>12 DEF MarkSave, TypeOK
    <2> QED
      BY <1>1, <2>1 DEF OutcomeInv
  <1> QED
    BY <1>3, <1>4, <1>5, <1>6, <1>7, <1>8, <1>9, <1>10, <1>11, <1>12 DEF TickStep

LEMMA EditOutcome ==
    ASSUME SchedInv, OutcomeInv, OutcomesKnown, NEW e \in Editors, EditStep(e)
    PROVE  OutcomeInv'
  <1> USE DEF SchedInv
  <1>0. /\ disk \in File /\ now \in 0..MaxTime
        /\ HasCroniter /\ "reschedule" \notin EditOps /\ EditOps \subseteq AllOps
    BY CronAssumption DEF TypeOK, OutcomesKnown
  <1>1. UNCHANGED sched
    BY DEF EditStep, EditResolve, CreateLoad, EditLoad, EditSave
  <1>2. UNCHANGED <<pc, tfile, work, wfile>>
    BY <1>1 DEF sched
  (* A record of the operation under way, whose file if any is sound. *)
  <1>3. ASSUME UNCHANGED disk, NEW r, edit' = [edit EXCEPT ![e] = r],
               r.file # None => \A j \in Jobs : StaysScheduled(r.file[j]),
               r.seen # NoJob => r.op \in EditOps
        PROVE  OutcomeInv'
    BY <1>2, <1>3 DEF OutcomeInv, TypeOK
  <1>4. NoEdit.file = None /\ NoEdit.seen = NoJob
    BY DEF NoEdit, Operation
  <1>5. ASSUME NEW j \in Jobs, NEW op \in EditOps, EditResolve(e, op, j)
        PROVE  OutcomeInv'
    <2> DEFINE r == Operation(op, j, disk[j], None)
    <2>1. r.file = None /\ r.op = op
      BY DEF Operation
    <2>2. UNCHANGED disk /\ edit' = [edit EXCEPT ![e] = r]
      BY <1>5 DEF EditResolve
    <2> HIDE DEF r
    <2> QED
      BY <1>3, <2>1, <2>2
  <1>6. ASSUME NEW j \in Jobs, NEW s \in Schedules, NEW times \in Repeats,
               CreateLoad(e, j, s, times)
        PROVE  OutcomeInv'
    <2> DEFINE f == [disk EXCEPT ![j] = NewJob(s, times, now)]
               r == Operation("create", j, NoJob, f)
    <2>1. \A k \in Jobs : StaysScheduled(f[k])
      <3>1. \A k \in Jobs : f[k] = IF k = j THEN NewJob(s, times, now) ELSE disk[k]
        BY <1>0 DEF File
      <3> QED
        BY <3>1, NewStays DEF OutcomeInv
    <2> HIDE DEF f
    <2>2. r.file = f /\ r.seen = NoJob
      BY DEF Operation
    <2>3. UNCHANGED disk /\ edit' = [edit EXCEPT ![e] = r]
      BY <1>6 DEF CreateLoad, f
    <2> HIDE DEF r
    <2> QED
      BY <1>3, <2>1, <2>2, <2>3
  <1>7. CASE EditLoad(e)
    <2> DEFINE op == edit[e].op
               j == edit[e].job
               seen == edit[e].seen
    <2>0. /\ j \in Jobs /\ op \in AllOps \ {"create", "reschedule"} /\ seen \in Job
      BY <1>0, <1>7 DEF EditLoad, EditInv, OutcomeInv, TypeOK, EditRecord
    <2>1. CASE disk[j] = NoJob
      <3>1. UNCHANGED disk /\ edit' = [edit EXCEPT ![e] = NoEdit]
        BY <1>7, <2>1 DEF EditLoad
      <3> QED
        BY <1>3, <1>4, <3>1
    <2>2. CASE disk[j] # NoJob
      <3>1. PICK s, times :
              edit' = [edit EXCEPT ![e] = Operation(op, j, NoJob,
                 [disk EXCEPT ![j] = IF op = "remove" THEN NoJob
                              ELSE Updated(op, disk[j], seen, s, times, now)])]
        BY <1>7, <2>2 DEF EditLoad
      <3> DEFINE v == IF op = "remove" THEN NoJob
                      ELSE Updated(op, disk[j], seen, s, times, now)
                 f == [disk EXCEPT ![j] = v]
                 r == Operation(op, j, NoJob, f)
      <3>2. StaysScheduled(v)
        <4>1. CASE op = "remove"
          BY <4>1 DEF StaysScheduled
        <4>2. CASE op # "remove"
          <5>1. disk[j] \in Job /\ StaysScheduled(disk[j])
            BY <1>0, <2>0, <2>2 DEF File, OutcomeInv
          <5> QED
            BY <1>0, <2>0, <4>2, <5>1, UpdateStays
        <4> QED
          BY <4>1, <4>2
      <3>3. edit' = [edit EXCEPT ![e] = r]
        BY <3>1
      <3> HIDE DEF v
      <3>4. \A k \in Jobs : StaysScheduled(f[k])
        BY <1>0, <3>2 DEF File, OutcomeInv
      <3> HIDE DEF f
      <3>5. r.file = f /\ r.seen = NoJob
        BY DEF Operation
      <3> HIDE DEF r
      <3>6. UNCHANGED disk
        BY <1>7 DEF EditLoad
      <3> QED
        BY <1>3, <3>3, <3>4, <3>5, <3>6
    <2> QED
      BY <2>1, <2>2
  <1>8. CASE EditSave(e)
    <2>1. /\ edit[e].file # None /\ disk' = edit[e].file
          /\ edit' = [edit EXCEPT ![e] = NoEdit]
      BY <1>8 DEF EditSave
    <2>2. \A j \in Jobs : StaysScheduled(disk'[j])
      BY <2>1 DEF OutcomeInv
    <2> QED
      BY <1>2, <1>4, <2>1, <2>2 DEF OutcomeInv, TypeOK
  <1> QED
    BY <1>5, <1>6, <1>7, <1>8 DEF EditStep

LEMMA OutcomeNext ==
    ASSUME SchedInv, OutcomeInv, OutcomesKnown, [Next]_vars
    PROVE  OutcomeInv'
  <1>1. CASE Tock \/ UNCHANGED vars
    BY <1>1 DEF Tock, sched, hist, vars, OutcomeInv
  <1> QED
    BY <1>1, TickOutcome, EditOutcome DEF Next

(* No outcome of a run and no operation but a change of the schedule ends the
   scheduling of a recurring job; and if croniter is missing, the same holds
   while nobody edits jobs.json. *)
THEOREM Rescheduling ==
    ASSUME OutcomesKnown PROVE Spec => []RecurringNeverDisabled
  <1>1. Init => SchedInv /\ OutcomeInv
    BY SchedInit, OutcomeInit
  <1>2. SchedInv /\ OutcomeInv /\ [Next]_vars => (SchedInv /\ OutcomeInv)'
    BY SchedNext, OutcomeNext
  <1>3. OutcomeInv => RecurringNeverDisabled
    BY DEF OutcomeInv, StaysScheduled, RecurringNeverDisabled
  <1> QED
    BY <1>1, <1>2, <1>3, PTL DEF Spec
=============================================================================
