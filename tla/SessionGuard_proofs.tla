------------------------- MODULE SessionGuard_proofs -------------------------
(***************************************************************************)
(* The lock of SessionGuard, for any number of messages, senders, tasks    *)
(* and commands.                                                           *)
(*                                                                         *)
(* That one task processes the session is not inductive: a task that hands *)
(* over, a cancelled one and a command all write the guard and the owner.  *)
(* As long as no task adopted the guard of another, the invariant says     *)
(* whose guard is installed (Installed), that a task runs under the guard  *)
(* it was made for and that guards are never made twice (Makers), that the *)
(* owner is under way and has no successor (Owned), and that a cancelled   *)
(* task has lost its guard for good, so that it hands nothing over (Cut,   *)
(* Ends).                                                                  *)
(***************************************************************************)
EXTENDS SessionGuard, TLAPS

(* A task has the event it is to use, a root the task it waits for. *)
Carry ==
    \A t \in Task :
        /\ task[t].pc \in {"created", "hook"} => task[t].event # None
        /\ task[t].pc \in {"again", "handoff"} => task[t].next # None
        /\ task[t].pc \in {"await", "reap"} => task[t].cur \in Task

Typed == TypeOK /\ Carry

Running == {"hook", "run", "again", "reply", "handoff", "unwind"}

Alive(t) == task[t].pc \in Running \cup {"created"}

Makers ==
    \A t \in Task :
        /\ task[t].pc # "none"
             => task[t].made \in Task /\ task[task[t].made].pc # "none"
        /\ task[t].pc \in Running => task[t].guard = task[t].made

Owned == owner # None => Alive(owner) /\ task[owner].succ = None

Cut ==
    \A t \in Task : task[t].cancel # "no" =>
        /\ Alive(t)
        /\ active # task[t].made
        /\ owner # None => task[owner].made # task[t].made

Ends ==
    \A t \in Task :
        /\ task[t].cancel # "no" \/ task[t].raised => task[t].succ = None
        /\ Alive(t) /\ task[t].raised => task[t].cancel = "taken"
        /\ task[t].pc \notin {"reap", "exited"}
        /\ task[t].pc = "await" => task[t].succ # None
        /\ task[t].cancel = "taken" => task[t].pc = "unwind"
        /\ task[t].pc = "handoff" /\ task[t].cancel = "asked"
             => active \in Commands /\ owner = None

Unowned == \A c \in Commands : command[c] = "waiting" /\ active = c => owner = None

Installed ==
    /\ active \in Task \cup Commands \cup {None}
    /\ active \in Task => owner # None /\ active = task[owner].made
    /\ active \in Commands => InFlight(active)
    /\ active = None => owner = None /\ pending = None /\ buffer = None

Single == \A t \in Task : Live(t) => owner = t /\ active # None

Lock == Makers /\ Owned /\ Cut /\ Ends /\ Unowned /\ Installed /\ Single

Inv == Typed /\ (foreign = {} => Lock /\ \A m \in Messages : lost[m] # "healed")

-----------------------------------------------------------------------------
(* Types *)

LEMMA NoTaskType == NoTask \in TaskRecord
  BY DEF NoTask, TaskRecord, Pcs, Waiting, Guards

LEMMA NewTaskType ==
    ASSUME NEW event \in Waiting, NEW guard \in Guards, NEW root \in BOOLEAN
    PROVE  NewTask(event, guard, root) \in TaskRecord
  BY NoTaskType DEF NewTask, TaskRecord, Pcs

LEMMA ExitType ==
    ASSUME NEW t, NEW r \in TaskRecord, NEW o
    PROVE  Exit(t, r, o) \in TaskRecord
  <1>1. CASE o = t
    BY <1>1, NoTaskType, ZenonT(40) DEF Exit, TaskRecord, Pcs
  <1>2. CASE o # t
    BY <1>2, NoTaskType, ZenonT(40) DEF Exit, TaskRecord, Pcs
  <1> QED BY <1>1, <1>2

LEMMA FollowType ==
    ASSUME NEW ts \in [Task -> TaskRecord], NEW t \in Task, NEW r \in TaskRecord,
           NEW s \in Task \cup {None}, NEW dying \in BOOLEAN, NEW o
    PROVE  Follow(t, r, s, dying, o, ts) \in [Task -> TaskRecord]
  <1>1. Exit(t, r, o) \in TaskRecord
    BY ExitType
  <1>2. \A u \in Task : Asked(ts[u]) \in TaskRecord
    BY DEF Asked, TaskRecord
  <1>3. ASSUME s # None
        PROVE  [r EXCEPT !.pc = IF dying THEN "reap" ELSE "await", !.cur = s]
                 \in TaskRecord
    BY <1>3 DEF TaskRecord, Pcs
  <1> QED BY <1>1, <1>2, <1>3 DEF Follow

LEMMA EndedType ==
    ASSUME NEW ts \in [Task -> TaskRecord], NEW t \in Task, NEW r \in TaskRecord,
           NEW o
    PROVE  Ended(t, r, o, ts) \in [Task -> TaskRecord]
  <1>1. Exit(t, r, o) \in TaskRecord
    BY ExitType
  <1>2. r.succ \in Task \cup {None} /\ (r.raised \/ r.cancel # "no") \in BOOLEAN
    BY DEF TaskRecord
  <1> QED BY <1>1, <1>2, FollowType DEF Ended

LEMMA MergedType ==
    ASSUME NEW slot \in Waiting, NEW event \in Waiting, event # None
    PROVE  Merged(slot, event) \in Waiting \ {None}
  BY GuardAssumption DEF Merged, Waiting

LEMMA SlotType == TypeOK => Slot \in Waiting /\ Rest \in Waiting
  <1>1. None \in Waiting
    BY DEF Waiting
  <1> QED BY <1>1, MergedType DEF TypeOK, Slot, Rest

Reasons == {"no", "command", "superseded", "replaced", "cancelled", "crowded",
            "refused", "healed"}

LEMMA DropType ==
    ASSUME TypeOK, NEW S, NEW why \in Reasons, Drop(S, why)
    PROVE  lost' \in [Messages -> Reasons]
  BY DEF TypeOK, Drop, Reasons

LEMMA GiveType ==
    ASSUME TypeOK, NEW S, Give(S) PROVE runs' \in [Messages -> Nat]
  BY DEF TypeOK, Give

(* Writing one task. *)
LEMMA WriteType ==
    ASSUME TypeOK, NEW t \in Task, NEW r \in TaskRecord,
           task' = [task EXCEPT ![t] = r]
    PROVE  task' \in [Task -> TaskRecord]
  BY DEF TypeOK

LEMMA RecordType ==
    ASSUME NEW r \in TaskRecord, NEW pc \in Pcs, NEW event \in Waiting,
           NEW cancel \in {"no", "asked", "taken"}, NEW guard \in Guards \cup {None},
           NEW succ \in Task \cup {None}, NEW depth \in Nat
    PROVE  /\ [r EXCEPT !.pc = pc] \in TaskRecord
           /\ [r EXCEPT !.event = event] \in TaskRecord
           /\ [r EXCEPT !.next = event] \in TaskRecord
           /\ [r EXCEPT !.cancel = cancel] \in TaskRecord
           /\ [r EXCEPT !.guard = guard] \in TaskRecord
           /\ [r EXCEPT !.succ = succ] \in TaskRecord
           /\ [r EXCEPT !.depth = depth] \in TaskRecord
           /\ [r EXCEPT !.raised = TRUE] \in TaskRecord
  BY ZenonT(40) DEF TaskRecord

LEMMA ReleaseType ==
    ASSUME TypeOK, NEW t \in Task, Release(t)
    PROVE  running' \in Task \cup {None} /\ stamped' \in BOOLEAN
  BY DEF TypeOK, Release

LEMMA EvictType ==
    ASSUME TypeOK, EvictStale
    PROVE  /\ running' \in Task \cup {None} /\ current' \in Task \cup {None}
           /\ stamped' \in BOOLEAN /\ evicted' \subseteq Task
  BY DEF TypeOK, EvictStale, Evictable

LEMMA ExposeType ==
    ASSUME TypeOK, Expose
    PROVE  said' \in [Messages -> Senders \cup {None}] /\ exposed' \subseteq Messages
  BY DEF TypeOK, Expose

LEMMA RunTypes ==
    ASSUME Typed, NEW t \in Task,
           \/ Start(t) \/ BeginRun(t) \/ Promote(t) \/ BusyRun(t) \/ RunEnd(t)
           \/ RunSuperseded(t) \/ RunFollows(t) \/ NextTurn(t) \/ Refuse(t)
    PROVE  Typed'
  <1>0. TypeOK /\ task[t] \in TaskRecord
    BY DEF Typed, TypeOK
  <1>1. CASE Start(t)
    <2>1. active' \in Guards
      BY <1>0, <1>1, GuardAssumption DEF Start, TypeOK, Guards, Own
    <2> DEFINE r == [task[t] EXCEPT !.pc = "hook", !.guard = active']
    <2>5. task' = [task EXCEPT ![t] = r]
      BY <1>0, <1>1 DEF Start, TypeOK
    <2>6. r \in TaskRecord /\ r.event = task[t].event /\ r.pc = "hook"
      BY <1>0, <2>1 DEF TaskRecord, Pcs
    <2>2. task' \in [Task -> TaskRecord]
      BY <1>0, <2>5, <2>6 DEF TypeOK
    <2>4. Carry'
      BY <1>1, <2>5, <2>6 DEF Start, At, Typed, Carry, TypeOK
    <2>3. foreign' \subseteq Task
      BY <1>0, <1>1 DEF Start, TypeOK
    <2> QED BY <1>0, <1>1, <2>1, <2>2, <2>3, <2>4 DEF Typed, Start, TypeOK, slots, runner
  <1>2. CASE BeginRun(t)
    <2> DEFINE r == [task[t] EXCEPT !.pc = "again", !.event = None,
                                    !.next = task[t].event]
    <2>1. task' = [task EXCEPT ![t] = r]
      BY <1>0, <1>2 DEF BeginRun, TypeOK
    <2>2. task[t].event \in Waiting \ {None}
      BY <1>0, <1>2 DEF BeginRun, At, Typed, Carry, TaskRecord
    <2>3. r \in TaskRecord /\ r.pc = "again" /\ r.next = task[t].event
      BY <1>0, <2>2 DEF TaskRecord, Pcs, Waiting
    <2> HIDE DEF r
    <2>4. task' \in [Task -> TaskRecord] /\ Carry'
      BY <1>0, <2>1, <2>2, <2>3 DEF Typed, Carry, TypeOK
    <2>5. /\ said' \in [Messages -> Senders \cup {None}]
          /\ exposed' \subseteq Messages /\ evicted' \subseteq Task
      BY <1>0, <1>2, ExposeType DEF BeginRun, TypeOK, Evictable
    <2> QED BY <1>0, <1>2, <2>4, <2>5 DEF Typed, BeginRun, TypeOK, slots
  <1>3. CASE BusyRun(t)
    <2>1. task[t].event \in Waiting \ {None}
      BY <1>0, <1>3 DEF BusyRun, At, Typed, Carry, TaskRecord
    <2>2. task' \in [Task -> TaskRecord] /\ Carry'
      <3> DEFINE r == [task[t] EXCEPT !.pc = "reply", !.event = None]
      <3>1. task' = [task EXCEPT ![t] = r]
        BY <1>0, <1>3 DEF BusyRun, TypeOK
      <3>2. r \in TaskRecord /\ r.pc = "reply"
        BY <1>0 DEF TaskRecord, Pcs, Waiting
      <3> HIDE DEF r
      <3> QED BY <1>0, <3>1, <3>2 DEF Typed, Carry, TypeOK
    <2>3. pending' \in Waiting
      BY <1>0, <1>3, <2>1, MergedType DEF BusyRun, TypeOK
    <2>4. lost' \in [Messages -> Reasons]
      BY <1>0, <1>3, DropType DEF BusyRun, TypeOK, Reasons
    <2> QED BY <1>0, <1>3, <2>2, <2>3, <2>4 DEF Typed, BusyRun, TypeOK, Reasons, runner
  <1>4. CASE RunEnd(t)
    <2>1. task' \in [Task -> TaskRecord] /\ Carry'
      BY <1>4 DEF RunEnd, Typed, Carry, TypeOK, TaskRecord, Pcs
    <2> QED BY <1>0, <1>4, <2>1, ReleaseType DEF Typed, RunEnd, TypeOK, slots, history
  <1>5. CASE RunSuperseded(t)
    <2>1. task' \in [Task -> TaskRecord] /\ Carry'
      <3> DEFINE r == [task[t] EXCEPT !.pc = "reply", !.depth = 0]
      <3>1. task' = [task EXCEPT ![t] = r]
        BY <1>0, <1>5 DEF RunSuperseded, TypeOK
      <3>2. r \in TaskRecord /\ r.pc = "reply"
        BY <1>0 DEF TaskRecord, Pcs
      <3> HIDE DEF r
      <3> QED BY <1>0, <3>1, <3>2 DEF Typed, Carry, TypeOK
    <2>2. lost' \in [Messages -> Reasons]
      BY <1>0, <1>5, DropType DEF RunSuperseded, Reasons
    <2> QED BY <1>0, <1>5, <2>1, <2>2, ReleaseType
              DEF Typed, RunSuperseded, TypeOK, Reasons, Waiting
  <1>6. CASE RunFollows(t)
    <2>1. task' \in [Task -> TaskRecord] /\ Carry'
      BY <1>6 DEF RunFollows, Typed, Carry, TypeOK, TaskRecord, Pcs
    <2> QED BY <1>0, <1>6, <2>1 DEF Typed, RunFollows, TypeOK, Waiting, runner, history
  <1>7. CASE NextTurn(t)
    <2>1. task' \in [Task -> TaskRecord] /\ Carry'
      <3> DEFINE r == [task[t] EXCEPT !.pc = "run", !.next = None]
      <3>1. task' = [task EXCEPT ![t] = r]
        BY <1>0, <1>7 DEF NextTurn, TypeOK
      <3>2. r \in TaskRecord /\ r.pc = "run"
        BY <1>0 DEF TaskRecord, Pcs, Waiting
      <3> QED BY <1>0, <3>1, <3>2 DEF Typed, Carry, TypeOK
    <2>2. runs' \in [Messages -> Nat]
      BY <1>0, <1>7, GiveType DEF NextTurn
    <2> QED BY <1>0, <1>7, <2>1, <2>2 DEF Typed, NextTurn, TypeOK, slots, runner
  <1>8. CASE Promote(t)
    BY <1>8 DEF Promote, Typed, TypeOK, Carry, slots, history
  <1>9. CASE Refuse(t)
    <2>1. PICK pc \in {"reply", "unwind"} :
             task' = [task EXCEPT ![t].pc = pc, ![t].event = None, ![t].next = None,
                                  ![t].depth = 0]
      BY <1>9 DEF Refuse
    <2> DEFINE r == [task[t] EXCEPT !.pc = pc, !.event = None, !.next = None,
                                    !.depth = 0]
    <2>2. task' = [task EXCEPT ![t] = r]
      BY <1>0, <2>1 DEF TypeOK
    <2>3. r \in TaskRecord /\ r.pc = pc
      BY <1>0 DEF TaskRecord, Pcs, Waiting
    <2> HIDE DEF r
    <2>4. task' \in [Task -> TaskRecord] /\ Carry'
      BY <1>0, <2>2, <2>3 DEF Typed, Carry, TypeOK
    <2>5. lost' \in [Messages -> Reasons]
      BY <1>0, <1>9, DropType DEF Refuse, Reasons
    <2>6. running' \in Task \cup {None} /\ stamped' \in BOOLEAN
      BY <1>0, <1>9, ReleaseType DEF Refuse, TypeOK
    <2> QED BY <1>0, <1>9, <2>4, <2>5, <2>6 DEF Typed, Refuse, TypeOK, Reasons, slots
  <1> QED BY <1>1, <1>2, <1>3, <1>4, <1>5, <1>6, <1>7, <1>8, <1>9

(* The end of a processing changes no other task but by a cancellation. *)
Over == {"exited", "done", "await", "reap"}

LEMMA FollowFrame ==
    ASSUME NEW ts \in [Task -> TaskRecord], NEW t \in Task, NEW r \in TaskRecord,
           NEW s \in Task \cup {None}, NEW dying \in BOOLEAN, NEW o
    PROVE  LET new == Follow(t, r, s, dying, o, ts) IN
           /\ new[t].pc \in Over
           /\ new[t].pc \in {"await", "reap"} => new[t].cur \in Task
           /\ \A u \in Task \ {t} : new[u] \in {ts[u], Asked(ts[u])}
  <1>1. Exit(t, r, o).pc \in {"exited", "done"}
    BY DEF Exit, NoTask
  <1> DEFINE w == [r EXCEPT !.pc = IF dying THEN "reap" ELSE "await", !.cur = s]
  <1>2. w.pc \in {"await", "reap"} /\ w.cur = s
    BY DEF TaskRecord
  <1> HIDE DEF w
  <1>3. Follow(t, r, s, dying, o, ts)[t] = IF s = None THEN Exit(t, r, o) ELSE w
    BY DEF Follow, w
  <1>4. \A u \in Task \ {t} :
           Follow(t, r, s, dying, o, ts)[u] \in {ts[u], Asked(ts[u])}
    BY DEF Follow
  <1> QED BY <1>1, <1>2, <1>3, <1>4 DEF Over

LEMMA EndedFrame ==
    ASSUME NEW ts \in [Task -> TaskRecord], NEW t \in Task, NEW r \in TaskRecord,
           NEW o
    PROVE  LET new == Ended(t, r, o, ts) IN
           /\ new[t].pc \in Over
           /\ new[t].pc \in {"await", "reap"} => new[t].cur \in Task
           /\ \A u \in Task \ {t} : new[u] \in {ts[u], Asked(ts[u])}
  <1>1. Exit(t, r, o).pc \in {"exited", "done"}
    BY DEF Exit, NoTask
  <1>2. r.succ \in Task \cup {None} /\ (r.raised \/ r.cancel # "no") \in BOOLEAN
    BY DEF TaskRecord
  <1> QED BY <1>1, <1>2, FollowFrame DEF Ended, Over

(* Such a step keeps the types and the events of the others. *)
LEMMA EndedCarry ==
    ASSUME Typed, NEW t \in Task, NEW ts \in [Task -> TaskRecord],
           task' \in [Task -> TaskRecord],
           \A u \in Task \ {t} : \/ ts[u] = task[u]
                                 \/ ts[u].pc = "created" /\ ts[u].event # None,
           task'[t].pc \in Over,
           task'[t].pc \in {"await", "reap"} => task'[t].cur \in Task,
           \A u \in Task \ {t} : task'[u] \in {ts[u], Asked(ts[u])}
    PROVE  Carry'
  <1>1. \A u \in Task : /\ Asked(ts[u]).pc = ts[u].pc
                        /\ Asked(ts[u]).event = ts[u].event
                        /\ Asked(ts[u]).next = ts[u].next
                        /\ Asked(ts[u]).cur = ts[u].cur
    BY DEF Asked, TaskRecord
  <1> QED BY <1>1 DEF Typed, Carry, Over

LEMMA EndTypes ==
    ASSUME Typed, NEW t \in Task,
           \/ Reply(t) \/ ReplyFails(t) \/ Handoff(t) \/ Finish(t)
           \/ TakeCancel(t) \/ Callback(t) \/ RootStep(t)
    PROVE  Typed'
  <1>0. TypeOK /\ task[t] \in TaskRecord /\ Slot \in Waiting /\ Rest \in Waiting
    BY SlotType DEF Typed, TypeOK
  <1>1. CASE Reply(t)
    <2>1. task' \in [Task -> TaskRecord]
      BY <1>0, <1>1 DEF Reply, Goto, TypeOK, TaskRecord, Pcs
    <2>2. Carry'
      BY <1>0, <1>1 DEF Reply, Goto, Typed, Carry, TypeOK, TaskRecord, Pcs
    <2> QED BY <1>0, <1>1, <2>1, <2>2
              DEF Reply, Typed, TypeOK, Waiting, runner, history
  <1>2. CASE ReplyFails(t)
    <2>1. task' \in [Task -> TaskRecord] /\ Carry'
      BY <1>0, <1>2 DEF ReplyFails, Goto, Typed, Carry, TypeOK, TaskRecord, Pcs
    <2> QED BY <1>0, <1>2, <2>1
              DEF ReplyFails, Typed, TypeOK, slots, runner, history
  <1>3. CASE Handoff(t)
    <2> DEFINE c == IF task[t].cancel = "asked" THEN "taken" ELSE task[t].cancel
               r == [task[t] EXCEPT !.pc = "unwind", !.next = None, !.cancel = c]
    <2>1. /\ r \in TaskRecord /\ r.pc = "unwind"
          /\ task[t].next \in Waiting \ {None} /\ task[t].guard \in Guards \cup {None}
      <3>1. task[t].pc = "handoff"
        BY <1>3 DEF Handoff
      <3>2. task[t].next \in Waiting /\ task[t].guard \in Guards \cup {None}
        BY <1>0 DEF TaskRecord
      <3>3. task[t].next # None
        BY <3>1 DEF Typed, Carry
      <3>4. c \in {"no", "asked", "taken"} /\ None \in Waiting
        BY <1>0 DEF TaskRecord, Waiting
      <3> HIDE DEF c
      <3>5. r \in TaskRecord /\ r.pc = "unwind"
        BY <1>0, <3>4 DEF TaskRecord, Pcs
      <3> QED BY <3>2, <3>3, <3>5
    <2> HIDE DEF r
    <2>2. CASE /\ active # task[t].guard
               /\ pending' = [task[t].next EXCEPT !.msgs = @ \cup Held(pending)]
               /\ task' = [task EXCEPT ![t] = r]
               /\ UNCHANGED owner
      <3>1. task' \in [Task -> TaskRecord] /\ Carry'
        BY <1>0, <2>1, <2>2 DEF Typed, Carry, TypeOK
      <3>2. pending' \in Waiting
        BY <1>0, <2>1, <2>2 DEF TypeOK, Waiting, Held
      <3> QED BY <1>0, <1>3, <2>2, <3>1, <3>2 DEF Handoff, Typed, TypeOK, runner, history
    <2>3. ASSUME active = task[t].guard, NEW u \in Task, Fresh(u), owner' = u,
                 task' = [task EXCEPT ![t] = [r EXCEPT !.succ = u],
                                      ![u] = NewTask(task[t].next, task[t].guard, FALSE)],
                 UNCHANGED pending
          PROVE  Typed'
      <3>1. u # t
        BY <1>3, <2>3 DEF Handoff, Fresh
      <3>2. task[t].guard \in Guards \/ task[t].guard = None
        BY <2>1
      <3>3. NewTask(task[t].next, task[t].guard, FALSE) \in TaskRecord
        BY <2>1, NoTaskType DEF NewTask, TaskRecord, Pcs
      <3>4. /\ NewTask(task[t].next, task[t].guard, FALSE).pc = "created"
            /\ NewTask(task[t].next, task[t].guard, FALSE).event # None
        BY <2>1 DEF NewTask, NoTask
      <3>5. [r EXCEPT !.succ = u] \in TaskRecord /\ [r EXCEPT !.succ = u].pc = "unwind"
        BY <2>1 DEF TaskRecord
      <3>6. task' \in [Task -> TaskRecord] /\ Carry'
        BY <1>0, <2>3, <3>1, <3>3, <3>4, <3>5 DEF Typed, Carry, TypeOK
      <3> QED BY <1>0, <1>3, <2>3, <3>6 DEF Handoff, Typed, TypeOK, runner, history
    <2> QED BY <1>3, <2>2, <2>3 DEF Handoff, r
  <1>4. CASE Finish(t)
    <2>1. CASE /\ pending' = Slot
               /\ task' = Ended(t, task[t], owner', task)
               /\ owner' \in Task \cup {None} /\ active' \in Guards \cup {None}
      <3>1. task' \in [Task -> TaskRecord]
        BY <1>0, <2>1, EndedType DEF TypeOK
      <3>2. Carry'
        BY <1>0, <2>1, <3>1, EndedFrame, EndedCarry DEF TypeOK
      <3> QED BY <1>0, <1>4, <2>1, <3>1, <3>2
                DEF Finish, Typed, TypeOK, runner, history
    <2>2. ASSUME active = task[t].guard, Slot # None, pending' = None,
                 NEW u \in Task, Fresh(u), owner' = u,
                 task' = Ended(t, [task[t] EXCEPT !.succ = u], u,
                       [task EXCEPT ![u] = NewTask(Slot, task[t].guard, FALSE)]),
                 UNCHANGED active
          PROVE  Typed'
      <3> DEFINE r == [task[t] EXCEPT !.succ = u]
                 ts == [task EXCEPT ![u] = NewTask(Slot, task[t].guard, FALSE)]
      <3>1. r \in TaskRecord
        BY <1>0 DEF TaskRecord
      <3>2. /\ NewTask(Slot, task[t].guard, FALSE) \in TaskRecord
            /\ NewTask(Slot, task[t].guard, FALSE).pc = "created"
            /\ NewTask(Slot, task[t].guard, FALSE).event # None
        BY <1>0, <2>2, NoTaskType DEF NewTask, NoTask, TaskRecord, Pcs
      <3>3. ts \in [Task -> TaskRecord]
        BY <1>0, <3>2 DEF TypeOK
      <3>4. \A v \in Task \ {t} : \/ ts[v] = task[v]
                                  \/ ts[v].pc = "created" /\ ts[v].event # None
        BY <1>0, <3>2 DEF TypeOK
      <3>5. task' = Ended(t, r, u, ts)
        BY <2>2
      <3> HIDE DEF r, ts
      <3>6. task' \in [Task -> TaskRecord]
        BY <3>1, <3>3, <3>5, EndedType
      <3>7. Carry'
        BY <3>1, <3>3, <3>4, <3>5, <3>6, EndedFrame, EndedCarry
      <3> QED BY <1>0, <1>4, <2>2, <3>6, <3>7
                DEF Finish, Typed, TypeOK, Waiting, runner, history
    <2>3. owner \in Task \cup {None} /\ active \in Guards \cup {None}
      BY <1>0 DEF TypeOK
    <2> QED BY <1>4, <2>1, <2>2, <2>3 DEF Finish
  <1>5. CASE TakeCancel(t)
    <2> DEFINE r == [task[t] EXCEPT !.cancel = "taken", !.raised = TRUE]
               w == [r EXCEPT !.pc = "unwind", !.event = None, !.next = None,
                              !.depth = 0]
               x == [task[t] EXCEPT !.cancel = "taken"]
    <2>8. r \in TaskRecord
      BY <1>0 DEF TaskRecord
    <2>9. w \in TaskRecord /\ w.pc = "unwind"
      <3> HIDE DEF r
      <3> QED BY <2>8 DEF TaskRecord, Pcs, Waiting
    <2>11. x \in TaskRecord /\ x.pc = task[t].pc
      BY <1>0 DEF TaskRecord
    <2>1. /\ r \in TaskRecord /\ w \in TaskRecord /\ x \in TaskRecord
          /\ w.pc = "unwind" /\ x.pc = task[t].pc
      BY <2>8, <2>9, <2>11
    <2>2. Exit(t, r, owner) \in TaskRecord /\ Exit(t, r, owner).pc \in {"exited", "done"}
      BY <2>1, ExitType DEF Exit, NoTask
    <2>3. ASSUME \/ task' = [task EXCEPT ![t] = Exit(t, r, owner)]
                 \/ task' = [task EXCEPT ![t] = w]
                 \/ task[t].pc = "unwind" /\ task' = [task EXCEPT ![t] = x]
          PROVE  task' \in [Task -> TaskRecord] /\ Carry'
      <3> HIDE DEF r, w, x
      <3>1. task' \in [Task -> TaskRecord]
            /\ task'[t].pc \in {"exited", "done", "unwind"}
            /\ \A u \in Task \ {t} : task'[u] = task[u]
        BY <1>0, <2>1, <2>2, <2>3 DEF TypeOK
      <3> QED BY <3>1 DEF Typed, Carry
    <2>4. ASSUME task' = Ended(t, r, owner, task)
          PROVE  task' \in [Task -> TaskRecord] /\ Carry'
      <3> HIDE DEF r
      <3>1. task' \in [Task -> TaskRecord]
        BY <1>0, <2>1, <2>4, EndedType DEF TypeOK
      <3> QED BY <1>0, <2>1, <2>4, <3>1, EndedFrame, EndedCarry DEF TypeOK
    <2>5. task' \in [Task -> TaskRecord] /\ Carry'
      BY <1>5, <2>3, <2>4 DEF TakeCancel
    <2>6. lost' \in [Messages -> Reasons]
      BY <1>0, <1>5, DropType DEF TakeCancel, TypeOK, Reasons
    <2>7. running' \in Task \cup {None} /\ stamped' \in BOOLEAN
      BY <1>0, <1>5, ReleaseType DEF TakeCancel, TypeOK
    <2> QED BY <1>0, <1>5, <2>5, <2>6, <2>7
              DEF TakeCancel, Typed, TypeOK, Reasons, slots
  <1>6. CASE Callback(t)
    <2>1. task' \in [Task -> TaskRecord] /\ Carry'
      BY <1>0, <1>6 DEF Callback, Goto, Typed, Carry, TypeOK, TaskRecord, Pcs
    <2> QED BY <1>0, <1>6, <2>1
              DEF Callback, Typed, TypeOK, slots, runner, history
  <1>7. CASE RootStep(t)
    <2> DEFINE cur == task[task[t].cur]
    <2>1. /\ cur \in TaskRecord
          /\ task' = Follow(t, task[t], cur.succ,
                            task[t].pc = "reap" \/ cur.raised, owner, task)
      BY <1>7 DEF RootStep, Typed, Carry, TypeOK
    <2>2. cur.succ \in Task \cup {None} /\ (task[t].pc = "reap" \/ cur.raised) \in BOOLEAN
      BY <2>1 DEF TaskRecord
    <2> HIDE DEF cur
    <2>3. task' \in [Task -> TaskRecord]
      BY <1>0, <2>1, <2>2, FollowType DEF TypeOK
    <2>4. Carry'
      BY <1>0, <2>1, <2>2, <2>3, FollowFrame, EndedCarry DEF TypeOK
    <2> QED BY <1>0, <1>7, <2>3, <2>4
              DEF RootStep, Typed, TypeOK, slots, runner, history
  <1> QED BY <1>1, <1>2, <1>3, <1>4, <1>5, <1>6, <1>7

LEMMA StartRootTypes ==
    ASSUME Typed, NEW t \in Task, NEW event \in Waiting \ {None},
           StartRoot(t, event)
    PROVE  /\ active' \in Guards /\ owner' \in Task
           /\ task' \in [Task -> TaskRecord] /\ Carry'
  <1>1. t \in Guards
    BY DEF Guards
  <1>2. NewTask(event, t, TRUE) \in TaskRecord
    BY <1>1, NewTaskType
  <1>3. /\ NewTask(event, t, TRUE).pc = "created"
        /\ NewTask(event, t, TRUE).event = event
    BY DEF NewTask, NoTask
  <1>4. active' = t /\ owner' = t
        /\ task' = [task EXCEPT ![t] = NewTask(event, t, TRUE)]
    BY DEF StartRoot
  <1> QED BY <1>1, <1>2, <1>3, <1>4 DEF Typed, Carry, TypeOK

LEMMA ArrivalType ==
    ASSUME TypeOK, NEW m \in Messages, NEW s \in Senders \cup {None}, Arrival(m, s)
    PROVE  said' \in [Messages -> Senders \cup {None}] /\ exposed' \subseteq Messages
  BY DEF TypeOK, Arrival

LEMMA ArriveTypes ==
    ASSUME Typed, NEW m \in Messages, Arrive(m) PROVE Typed'
  <1>0. TypeOK /\ Slot \in Waiting /\ None \in Waiting
    BY SlotType DEF Typed, TypeOK, Waiting
  <1>1. PICK s \in Senders : ArriveFree(m, s) \/ ArriveMedia(m, s) \/ ArriveText(m, s)
    BY GuardAssumption DEF Arrive
  <1> DEFINE event == [from |-> s, msgs |-> {m}]
  <1>2. event \in Waiting \ {None}
    BY GuardAssumption DEF Waiting
  <1> HIDE DEF event
  <1>3. /\ arrived' \subseteq Messages /\ exposed' \subseteq Messages
        /\ UNCHANGED <<foreign, stopped, evicted, runs, command>>
        /\ UNCHANGED runner
        /\ said' \in [Messages -> Senders \cup {None}]
    BY <1>0, <1>1, ArrivalType DEF ArriveFree, ArriveMedia, ArriveText, Arrival, TypeOK
  <1>4. CASE ArriveFree(m, s)
    <2>1. PICK t \in Task : StartRoot(t, event)
      BY <1>4 DEF ArriveFree, event
    <2>2. /\ pending' \in Waiting /\ buffer' \in Waiting /\ timer' \in BOOLEAN
          /\ lost' \in [Messages -> Reasons]
      BY <1>0, <1>4, DropType DEF ArriveFree, TypeOK, Reasons, slots
    <2> QED BY <1>0, <1>2, <1>3, <2>1, <2>2, StartRootTypes
              DEF Typed, TypeOK, Reasons, runner
  <1>5. CASE ArriveMedia(m, s)
    <2>1. pending' \in Waiting
      BY <1>0, <1>2, <1>5, MergedType DEF ArriveMedia, TypeOK, event
    <2> QED BY <1>0, <1>3, <1>5, <2>1
              DEF ArriveMedia, Typed, TypeOK, Carry, runner
  <1>6. CASE ArriveText(m, s)
    <2>1. /\ pending' \in Waiting /\ buffer' \in Waiting /\ timer' \in BOOLEAN
          /\ UNCHANGED <<active, owner, task>>
      BY <1>0, <1>2, <1>6, MergedType DEF ArriveText, TypeOK, event
    <2>2. lost' \in [Messages -> Reasons]
      BY <1>0, <1>6, DropType DEF ArriveText, TypeOK, Reasons
    <2> QED BY <1>0, <1>3, <2>1, <2>2
              DEF Typed, TypeOK, Carry, Reasons, runner
  <1> QED BY <1>1, <1>4, <1>5, <1>6

LEMMA DrainTypes ==
    ASSUME Typed, NEW o \in Task \cup {None}, Drain(o)
    PROVE  /\ active' \in Guards \cup {None} /\ owner' \in Task \cup {None}
           /\ task' \in [Task -> TaskRecord] /\ Carry'
           /\ pending' \in Waiting /\ buffer' \in Waiting /\ timer' \in BOOLEAN
  <1>0. TypeOK /\ Slot \in Waiting /\ Rest \in Waiting /\ None \in Waiting
    BY SlotType DEF Typed, TypeOK, Waiting
  <1>1. CASE Slot = None /\ active' = None /\ owner' = o /\ UNCHANGED <<slots, task>>
    BY <1>0, <1>1 DEF Typed, TypeOK, Carry, slots
  <1>2. ASSUME NEW t \in Task, StartRoot(t, Slot), Slot # None, pending' = None,
               buffer' = Rest, timer' = FALSE
        PROVE  /\ active' \in Guards \cup {None} /\ owner' \in Task \cup {None}
               /\ task' \in [Task -> TaskRecord] /\ Carry'
               /\ pending' \in Waiting /\ buffer' \in Waiting /\ timer' \in BOOLEAN
    BY <1>0, <1>2, StartRootTypes
  <1> QED BY <1>1, <1>2 DEF Drain

Stages == {"unsent", "handling", "clearing", "resetting", "replying", "waiting",
           "done"}

LEMMA StageType ==
    ASSUME TypeOK, NEW c, NEW stage \in Stages, Stage(c, stage)
    PROVE  command' \in [Commands -> Stages]
  BY DEF TypeOK, Stage, Stages

LEMMA CommandTypes ==
    ASSUME Typed, NEW c \in Commands, CommandArrive(c) \/ CommandStep(c)
    PROVE  Typed'
  <1>0. TypeOK /\ None \in Waiting
    BY DEF Typed, Waiting
  <1>1. command' \in [Commands -> Stages]
    BY <1>0, StageType
      DEF CommandStep, CommandArrive, CommandHandle, CommandClear, CommandReset,
          CommandCancel, CommandDrain, CommandYield, CommandFail, Stages
  <1>2. CASE CommandArrive(c)
    <2>1. /\ lost' \in [Messages -> Reasons]
          /\ said' \in [Messages -> Senders \cup {None}] /\ exposed' \subseteq Messages
      BY <1>0, <1>2, DropType, ExposeType DEF CommandArrive, Reasons
    <2> QED BY <1>0, <1>1, <1>2, <2>1
              DEF CommandArrive, Typed, TypeOK, Carry, Stages, Reasons, Guards, runner
  <1>3. CASE CommandHandle(c)
    BY <1>0, <1>1, <1>3, EvictType
      DEF CommandHandle, Typed, TypeOK, Carry, Stages, slots, history
  <1>4. CASE CommandClear(c)
    <2>1. lost' \in [Messages -> Reasons]
      BY <1>0, <1>4, DropType DEF CommandClear, Reasons
    <2> QED BY <1>0, <1>1, <1>4, <2>1
              DEF CommandClear, Reset, Typed, TypeOK, Carry, Stages, Reasons
  <1>5. CASE CommandReset(c)
    BY <1>0, <1>1, <1>5
      DEF CommandReset, Reset, Typed, TypeOK, Carry, Stages, slots, history
  <1>6. CASE CommandCancel(c)
    <2>1. ASSUME LiveOwner, owner' = None, task' = [task EXCEPT ![owner] = Asked(@)],
                 UNCHANGED <<active, slots>>
          PROVE  Typed'
      <3>1. owner \in Task /\ task[owner] \in TaskRecord
        BY <1>0, <2>1 DEF LiveOwner, TypeOK
      <3>2. /\ Asked(task[owner]) \in TaskRecord
            /\ Asked(task[owner]).pc = task[owner].pc
            /\ Asked(task[owner]).event = task[owner].event
            /\ Asked(task[owner]).next = task[owner].next
            /\ Asked(task[owner]).cur = task[owner].cur
        BY <3>1 DEF Asked, TaskRecord
      <3>3. task' \in [Task -> TaskRecord] /\ Carry'
        BY <1>0, <2>1, <3>1, <3>2 DEF Typed, Carry, TypeOK
      <3> QED BY <1>0, <1>1, <1>6, <2>1, <3>3
                DEF CommandCancel, Typed, TypeOK, Stages, slots, runner, history
    <2>2. ASSUME Drain(None) PROVE Typed'
      BY <1>0, <1>1, <1>6, <2>2, DrainTypes
        DEF CommandCancel, Typed, TypeOK, Stages, runner, history
    <2> QED BY <1>6, <2>1, <2>2 DEF CommandCancel
  <1>7. CASE CommandDrain(c)
    <2>1. owner \in Task \cup {None}
      BY <1>0 DEF TypeOK
    <2>2. CASE Drain(owner)
      BY <1>0, <1>1, <1>7, <2>1, <2>2, DrainTypes
        DEF CommandDrain, Typed, TypeOK, Stages, runner, history
    <2>3. CASE UNCHANGED <<active, owner, slots, task>>
      BY <1>0, <1>1, <1>7, <2>3
        DEF CommandDrain, Typed, TypeOK, Carry, Stages, slots, runner, history
    <2> QED BY <1>7, <2>2, <2>3 DEF CommandDrain
  <1>8. CASE CommandYield(c)
    BY <1>0, <1>1, <1>8
      DEF CommandYield, Typed, TypeOK, Carry, Stages, slots, runner, history
  <1>9. CASE CommandFail(c)
    <2>1. owner \in Task \cup {None}
      BY <1>0 DEF TypeOK
    <2>2. CASE Drain(owner)
      BY <1>0, <1>1, <1>9, <2>1, <2>2, DrainTypes
        DEF CommandFail, Typed, TypeOK, Stages, runner, history
    <2>3. CASE UNCHANGED <<active, owner, slots, task>>
      BY <1>0, <1>1, <1>9, <2>3
        DEF CommandFail, Typed, TypeOK, Carry, Stages, slots, runner, history
    <2>4. CASE /\ LiveOwner /\ active' = task[owner].made
               /\ UNCHANGED <<owner, slots, task>>
      <3>1. active' \in Guards \cup {None}
        BY <1>0, <2>4 DEF LiveOwner, TypeOK, TaskRecord
      <3> QED BY <1>0, <1>1, <1>9, <2>4, <3>1
                DEF CommandFail, Typed, TypeOK, Carry, Stages, slots, runner, history
    <2> QED BY <1>9, <2>2, <2>3, <2>4 DEF CommandFail
  <1> QED BY <1>2, <1>3, <1>4, <1>5, <1>6, <1>7, <1>8, <1>9 DEF CommandStep

LEMMA OtherTypes ==
    ASSUME Typed, Flush \/ Evict \/ AskReset \/ ConfirmReset \/ UNCHANGED vars
    PROVE  Typed'
  <1>1. CASE Flush
    BY <1>1, SlotType DEF Flush, Typed, TypeOK, Carry, runner, history
  <1>2. CASE AskReset
    BY <1>2 DEF AskReset, Typed, TypeOK, Carry, slots, history
  <1>3. CASE ConfirmReset
    <2>1. said' \in [Messages -> Senders \cup {None}] /\ exposed' \subseteq Messages
      BY <1>3, ExposeType DEF ConfirmReset, Typed
    <2> QED BY <1>3, <2>1 DEF ConfirmReset, Typed, TypeOK, Carry, slots
  <1>4. CASE UNCHANGED vars
    BY <1>4 DEF vars, Typed, TypeOK, Carry, slots, runner, history
  <1>5. CASE Evict
    BY <1>5, ExposeType, EvictType DEF Evict, Typed, TypeOK, Carry, slots
  <1> QED BY <1>1, <1>2, <1>3, <1>4, <1>5

LEMMA InitTyped == Init => Typed
  <1>1. NoTask \in TaskRecord /\ NoTask.pc = "none"
    BY NoTaskType DEF NoTask
  <1>2. ASSUME Init PROVE TypeOK
    BY <1>1, <1>2 DEF Init, TypeOK, Waiting
  <1>3. ASSUME Init PROVE Carry
    BY <1>1, <1>3 DEF Init, Carry
  <1> QED BY <1>2, <1>3 DEF Typed

LEMMA NextTyped == Typed /\ [Next]_vars => Typed'
  BY RunTypes, EndTypes, ArriveTypes, CommandTypes, OtherTypes DEF Next, TaskStep

(* Types: whatever the handler, the sends, the users and the commands do,   *)
(* the variables of the session stay in their types.                        *)
THEOREM Typing == Spec => []TypeOK
  <1>1. Spec => []Typed
    BY InitTyped, NextTyped, PTL DEF Spec
  <1>2. Typed => TypeOK
    BY DEF Typed
  <1> QED BY <1>1, <1>2, PTL

-----------------------------------------------------------------------------
(* The lock *)

LEMMA Apart == /\ \A t \in Task : t \notin Commands /\ t # None /\ Own(t) \notin Task
               /\ None \notin Commands
  BY GuardAssumption DEF Own

(* A task that stands at an await before its finally clause is live. *)
LEMMA AtLive ==
    ASSUME Typed, Lock, NEW t \in Task, NEW pc,
           At(t, pc), pc \in {"created", "hook", "run", "again", "reply"}
    PROVE  Live(t) /\ task[t].cancel = "no" /\ ~task[t].raised
  <1>1. task[t].cancel = "no"
    BY DEF At, Lock, Ends, Typed, TypeOK, TaskRecord
  <1> QED BY <1>1 DEF At, Live, Lock, Ends, Alive, Running

(* A live task goes on under its guard. *)
LEMMA MoveLock ==
    ASSUME Typed, Lock, NEW t \in Task, Live(t), ~task[t].raised,
           NEW r \in TaskRecord, task' = [task EXCEPT ![t] = r],
           r.pc \in Running, r.made = task[t].made, r.guard = r.made,
           r.cancel = "no", r.raised = task[t].raised, r.succ = task[t].succ,
           UNCHANGED <<active, owner, command>>
    PROVE  Lock'
  <1>1. /\ owner = t /\ active # None /\ task[t].cancel = "no"
        /\ task[t].pc \in {"created", "hook", "run", "again", "reply", "handoff"}
    BY DEF Lock, Single, Live
  <1>2. /\ task'[t] = r
        /\ \A u \in Task \ {t} : task'[u] = task[u]
    BY DEF Typed, TypeOK
  <1>3. Makers'
    BY <1>1, <1>2 DEF Lock, Makers, Running
  <1>4. Owned'
    BY <1>1, <1>2 DEF Lock, Owned, Alive
  <1>5. Cut'
    BY <1>1, <1>2 DEF Lock, Cut, Alive
  <1>6. Ends'
    BY <1>1, <1>2 DEF Lock, Ends, Alive, Running
  <1>7. Unowned' /\ Installed'
    BY <1>1, <1>2 DEF Lock, Unowned, Installed, InFlight
  <1>8. Single'
    BY <1>1, <1>2 DEF Lock, Single, Live
  <1> QED BY <1>3, <1>4, <1>5, <1>6, <1>7, <1>8 DEF Lock

LEMMA RunLock ==
    ASSUME Typed, Lock, NEW t \in Task, foreign' = {},
           \/ Start(t) \/ BeginRun(t) \/ BusyRun(t) \/ RunEnd(t)
           \/ RunSuperseded(t) \/ RunFollows(t) \/ NextTurn(t) \/ Refuse(t)
           \/ Reply(t) \/ ReplyFails(t)
    PROVE  Lock'
  <1>0. TypeOK /\ task[t] \in TaskRecord
    BY DEF Typed, TypeOK
  <1>1. Live(t) /\ task[t].cancel = "no" /\ ~task[t].raised
    BY AtLive
      DEF Start, BeginRun, BusyRun, RunEnd, RunSuperseded, RunFollows, NextTurn,
          Refuse, Reply, ReplyFails
  <1>2. active # None
    BY <1>1 DEF Lock, Single
  <1> DEFINE Moved(r) == /\ r \in TaskRecord /\ task' = [task EXCEPT ![t] = r]
                         /\ r.pc \in Running /\ r.made = task[t].made
                         /\ r.guard = r.made /\ r.cancel = "no"
                         /\ r.raised = task[t].raised /\ r.succ = task[t].succ
  <1>3. CASE Start(t)
    <2>1. active' = active /\ task[t].made = active
      BY <1>0, <1>2, <1>3 DEF Start, TypeOK
    <2> DEFINE r == [task[t] EXCEPT !.pc = "hook", !.guard = active]
    <2>2. Moved(r)
      BY <1>0, <1>1, <1>3, <2>1 DEF Start, TypeOK, TaskRecord, Pcs, Running
    <2> HIDE DEF r
    <2> QED BY <1>1, <1>3, <2>1, <2>2, MoveLock DEF Start
  <1>4. ASSUME NEW pc \in Running, task[t].pc \in Running, task' = Goto(t, pc),
               UNCHANGED <<active, owner, command>>
        PROVE  Lock'
    <2> DEFINE r == [task[t] EXCEPT !.pc = pc]
    <2>1. Moved(r)
      BY <1>0, <1>1, <1>4 DEF Goto, TypeOK, TaskRecord, Pcs, Running, Lock, Makers
    <2> HIDE DEF r
    <2> QED BY <1>1, <1>4, <2>1, MoveLock
  <1>5. CASE BeginRun(t)
    <2> DEFINE r == [task[t] EXCEPT !.pc = "again", !.event = None,
                                    !.next = task[t].event]
    <2>1. Moved(r)
      BY <1>0, <1>1, <1>5
        DEF BeginRun, At, TypeOK, TaskRecord, Pcs, Running, Waiting, Lock, Makers
    <2> HIDE DEF r
    <2> QED BY <1>1, <1>5, <2>1, MoveLock DEF BeginRun
  <1>6. CASE RunFollows(t)
    <2> DEFINE r == [task[t] EXCEPT !.pc = "again", !.next = pending, !.depth = @ + 1]
    <2>1. Moved(r)
      BY <1>0, <1>1, <1>6
        DEF RunFollows, At, TypeOK, TaskRecord, Pcs, Running, Lock, Makers
    <2> HIDE DEF r
    <2> QED BY <1>1, <1>6, <2>1, MoveLock DEF RunFollows, runner
  <1>7. CASE NextTurn(t)
    <2> DEFINE r == [task[t] EXCEPT !.pc = "run", !.next = None]
    <2>1. Moved(r)
      BY <1>0, <1>1, <1>7
        DEF NextTurn, At, TypeOK, TaskRecord, Pcs, Running, Waiting, Lock, Makers
    <2> HIDE DEF r
    <2> QED BY <1>1, <1>7, <2>1, MoveLock DEF NextTurn
  <1>8. CASE ReplyFails(t)
    BY <1>4, <1>8 DEF ReplyFails, At, Running
  <1>10. CASE BusyRun(t)
    <2> DEFINE r == [task[t] EXCEPT !.pc = "reply", !.event = None]
    <2>1. Moved(r)
      BY <1>0, <1>1, <1>10
        DEF BusyRun, At, TypeOK, TaskRecord, Pcs, Running, Waiting, Lock, Makers
    <2> HIDE DEF r
    <2> QED BY <1>1, <1>10, <2>1, MoveLock DEF BusyRun
  <1>11. CASE RunEnd(t) \/ RunSuperseded(t)
    <2>1. PICK pc \in {"reply", "unwind"} :
             task' = [task EXCEPT ![t].pc = pc, ![t].depth = 0]
      BY <1>11 DEF RunEnd, RunSuperseded
    <2> DEFINE r == [task[t] EXCEPT !.pc = pc, !.depth = 0]
    <2>2. Moved(r)
      BY <1>0, <1>1, <1>11, <2>1
        DEF RunEnd, RunSuperseded, At, TypeOK, TaskRecord, Pcs, Running, Lock, Makers
    <2> HIDE DEF r
    <2> QED BY <1>1, <1>11, <2>2, MoveLock DEF RunEnd, RunSuperseded
  <1>12. CASE Refuse(t)
    <2>1. PICK pc \in {"reply", "unwind"} :
             task' = [task EXCEPT ![t].pc = pc, ![t].event = None, ![t].next = None,
                                  ![t].depth = 0]
      BY <1>12 DEF Refuse
    <2> DEFINE r == [task[t] EXCEPT !.pc = pc, !.event = None, !.next = None,
                                    !.depth = 0]
    <2>2. Moved(r)
      BY <1>0, <1>1, <1>12, <2>1
        DEF Refuse, At, TypeOK, TaskRecord, Pcs, Running, Waiting, Lock, Makers
    <2> HIDE DEF r
    <2> QED BY <1>1, <1>12, <2>2, MoveLock DEF Refuse
  <1>9. CASE Reply(t)
    <2>1. task[t].pc = "reply" /\ UNCHANGED <<active, owner, command>>
      BY <1>9 DEF Reply, At
    <2>2. CASE task' = Goto(t, "unwind")
      BY <1>4, <2>1, <2>2 DEF Running
    <2>3. CASE task' = [task EXCEPT ![t].pc = "handoff", ![t].next = Slot]
      <3> DEFINE r == [task[t] EXCEPT !.pc = "handoff", !.next = Slot]
      <3>1. Moved(r)
        BY <1>0, <1>1, <2>1, <2>3, SlotType
          DEF TypeOK, TaskRecord, Pcs, Running, Lock, Makers
      <3> HIDE DEF r
      <3> QED BY <1>1, <2>1, <3>1, MoveLock
    <2> QED BY <1>9, <2>2, <2>3 DEF Reply
  <1> QED BY <1>3, <1>5, <1>6, <1>7, <1>8, <1>9, <1>10, <1>11, <1>12

LEMMA SuccFields ==
    ASSUME NEW r \in TaskRecord, NEW u
    PROVE  LET w == [r EXCEPT !.succ = u] IN
           /\ w.pc = r.pc /\ w.succ = u /\ w.made = r.made /\ w.guard = r.guard
           /\ w.cancel = r.cancel /\ w.raised = r.raised /\ w.root = r.root
  BY DEF TaskRecord

(* A new task, under a guard that is installed, takes over from the only    *)
(* task that may be live, w.                                                *)
LEMMA SucceedLock ==
    ASSUME Typed, Lock, NEW t \in Task, NEW u \in Task, Fresh(u), u # t,
           task[t].pc \in {"handoff", "unwind"}, active = task[t].guard,
           owner \in {None, t}, owner' = u,
           \E event \in Waiting : task'[u] = NewTask(event, task[t].guard, FALSE),
           task'[t].pc \in {"unwind", "await", "done"},
           task'[t].pc = "unwind" => task'[t].guard = task[t].guard,
           task'[t].made = task[t].made, task'[t].raised = task[t].raised,
           task'[t].cancel \in {"no", task[t].cancel}, task'[t].succ = u,
           \A v \in Task \ {t, u} : task'[v] = task[v],
           UNCHANGED <<active, command>>
    PROVE  Lock'
  <1>1. task[u].pc = "none"
    BY DEF Fresh
  <1>2. /\ task[t].guard = task[t].made /\ active = task[t].made
        /\ active \in Task /\ task[active].pc # "none"
    BY DEF Lock, Makers, Running
  <1>3. task[t].cancel = "no" /\ ~task[t].raised
    BY <1>2 DEF Lock, Cut, Ends, Alive, Running
  <1>4. /\ task'[u].pc = "created" /\ task'[u].made = active
        /\ task'[u].cancel = "no" /\ task'[u].raised = FALSE
        /\ task'[u].succ = None
    BY DEF NewTask, NoTask
  <1>5. active \notin Commands /\ active # None
    BY <1>2, Apart
  <1>6. Makers'
    <2>1. \A v \in Task : task[v].pc # "none" => task'[v].pc # "none"
      BY <1>1
    <2>2. ASSUME NEW v \in Task, task'[v].pc # "none"
          PROVE  /\ task'[v].made \in Task /\ task[task'[v].made].pc # "none"
                 /\ task'[v].pc \in Running => task'[v].guard = task'[v].made
      <3>1. CASE v = t
        BY <1>2, <3>1 DEF Running
      <3>2. CASE v = u
        BY <1>2, <1>4, <3>2 DEF Running
      <3>3. CASE v \notin {t, u}
        <4>1. task'[v] = task[v]
          BY <3>3
        <4> QED BY <2>2, <4>1 DEF Lock, Makers
      <3> QED BY <3>1, <3>2, <3>3
    <2> QED BY <2>1, <2>2 DEF Makers, Running
  <1>7. Owned'
    BY <1>4 DEF Owned, Alive
  <1>8. Cut'
    BY <1>2, <1>3, <1>4 DEF Lock, Cut, Alive
  <1>9. Ends'
    <2> SUFFICES ASSUME NEW v \in Task
                 PROVE  /\ task'[v].cancel # "no" \/ task'[v].raised => task'[v].succ = None
                        /\ Alive(v)' /\ task'[v].raised => task'[v].cancel = "taken"
                        /\ task'[v].pc \notin {"reap", "exited"}
                        /\ task'[v].pc = "await" => task'[v].succ # None
                        /\ task'[v].cancel = "taken" => task'[v].pc = "unwind"
                        /\ ~(task'[v].pc = "handoff" /\ task'[v].cancel = "asked")
      BY DEF Ends
    <2>1. CASE v = t
      BY <1>3, <2>1, Apart
    <2>2. CASE v = u
      BY <1>4, <2>2
    <2>3. CASE v \notin {t, u}
      BY <1>5, <2>3 DEF Lock, Ends, Alive
    <2> QED BY <2>1, <2>2, <2>3
  <1>10. Unowned' /\ Installed'
    BY <1>2, <1>4, <1>5, Apart DEF Lock, Unowned, Installed
  <1>11. Single'
    <2>1. ASSUME NEW v \in Task \ {t, u} PROVE ~Live(v)'
      BY <2>1, Apart DEF Lock, Single, Live
    <2> QED BY <1>5, <2>1 DEF Single, Live
  <1> QED BY <1>6, <1>7, <1>8, <1>9, <1>10, <1>11 DEF Lock

LEMMA HandoffLock ==
    ASSUME Typed, Lock, NEW t \in Task, Handoff(t) PROVE Lock'
  <1>0. TypeOK /\ task[t] \in TaskRecord /\ task[t].pc = "handoff"
    BY DEF Handoff, Typed, TypeOK
  <1> DEFINE c == IF task[t].cancel = "asked" THEN "taken" ELSE task[t].cancel
             r == [task[t] EXCEPT !.pc = "unwind", !.next = None, !.cancel = c]
  <1>1. task[t].cancel \in {"no", "asked"} /\ ~task[t].raised
    BY <1>0 DEF Lock, Ends, Alive, Running, TaskRecord
  <1>2. /\ r.pc = "unwind" /\ r.made = task[t].made /\ r.guard = task[t].guard
        /\ r.raised = task[t].raised /\ r.succ = task[t].succ
        /\ r.cancel = IF task[t].cancel = "no" THEN "no" ELSE "taken"
    BY <1>0, <1>1 DEF TaskRecord
  <1>7. c \in {"no", "taken"}
    BY <1>1
  <1>3. task[t].next \in Waiting
    BY <1>0 DEF TaskRecord
  <1>4. /\ UNCHANGED <<active, command>>
        /\ \/ task' = [task EXCEPT ![t] = r] /\ UNCHANGED owner
           \/ /\ active = task[t].guard
              /\ \E u \in Task :
                    /\ Fresh(u) /\ owner' = u
                    /\ task' = [task EXCEPT
                          ![t] = [r EXCEPT !.succ = u],
                          ![u] = NewTask(task[t].next, task[t].guard, FALSE)]
    BY DEF Handoff
  <1>8. r \in TaskRecord
    <2> HIDE DEF c
    <2> QED BY <1>0, <1>7 DEF TaskRecord, Pcs, Waiting
  <1> HIDE DEF r
  <1>5. CASE task' = [task EXCEPT ![t] = r] /\ UNCHANGED owner
    <2>1. task'[t] = r /\ \A u \in Task \ {t} : task'[u] = task[u]
      BY <1>0, <1>5 DEF TypeOK
    <2>2. active # None
      BY <1>0, <1>1, Apart DEF Lock, Ends, Single, Live
    <2>3. Makers' /\ Owned'
      BY <1>0, <1>2, <1>5, <2>1 DEF Lock, Makers, Owned, Alive, Running
    <2>4. Cut'
      BY <1>0, <1>2, <1>4, <1>5, <2>1 DEF Lock, Cut, Alive, Running, TypeOK
    <2>5. Ends'
      BY <1>0, <1>1, <1>2, <1>4, <1>5, <2>1 DEF Lock, Ends, Alive, Running
    <2>6. Unowned' /\ Installed'
      BY <1>0, <1>2, <1>4, <1>5, <2>1, <2>2
        DEF Lock, Unowned, Installed, InFlight, TypeOK
    <2>7. Single'
      BY <1>2, <1>4, <1>5, <2>1 DEF Lock, Single, Live
    <2> QED BY <2>3, <2>4, <2>5, <2>6, <2>7 DEF Lock
  <1>6. ASSUME active = task[t].guard, NEW u \in Task, Fresh(u), owner' = u,
               task' = [task EXCEPT
                   ![t] = [r EXCEPT !.succ = u],
                   ![u] = NewTask(task[t].next, task[t].guard, FALSE)]
        PROVE  Lock'
    <2>1. u # t
      BY <1>0, <1>6 DEF Fresh
    <2>2. task[t].cancel = "no"
      BY <1>0, <1>6 DEF Lock, Cut, Makers, Running
    <2>3. owner = t
      BY <1>0, <2>2 DEF Lock, Single, Live
    <2>5. /\ [r EXCEPT !.succ = u].pc = "unwind" /\ [r EXCEPT !.succ = u].succ = u
          /\ [r EXCEPT !.succ = u].made = r.made /\ [r EXCEPT !.succ = u].guard = r.guard
          /\ [r EXCEPT !.succ = u].cancel = r.cancel
          /\ [r EXCEPT !.succ = u].raised = r.raised
      BY <1>2, <1>8, SuccFields
    <2>6. /\ task'[t] = [r EXCEPT !.succ = u]
          /\ task'[u] = NewTask(task[t].next, task[t].guard, FALSE)
          /\ \A v \in Task \ {t, u} : task'[v] = task[v]
      BY <1>0, <1>6, <2>1 DEF TypeOK
    <2>7. /\ task'[t].pc = "unwind" /\ task'[t].succ = u
          /\ task'[t].made = task[t].made /\ task'[t].guard = task[t].guard
          /\ task'[t].cancel = "no" /\ task'[t].raised = task[t].raised
      BY <1>2, <2>2, <2>5, <2>6
    <2>8. UNCHANGED <<active, command>>
      BY <1>4
    <2>9. /\ Fresh(u) /\ u # t /\ task[t].pc \in {"handoff", "unwind"}
          /\ active = task[t].guard /\ owner \in {None, t} /\ owner' = u
      BY <1>0, <1>6, <2>1, <2>3
    <2>10. \E event \in Waiting : task'[u] = NewTask(event, task[t].guard, FALSE)
      BY <1>3, <2>6
    <2>11. task'[t].pc \in {"unwind", "await", "done"} /\ task'[t].cancel \in {"no", task[t].cancel}
      BY <2>7
    <2> HIDE DEF c
    <2> QED BY <2>6, <2>7, <2>8, <2>9, <2>10, <2>11, SucceedLock
  <1> QED BY <1>4, <1>5, <1>6

(* A processing that was not cancelled, or has no successor, cancels nothing. *)
LEMMA EndedQuiet ==
    ASSUME NEW ts \in [Task -> TaskRecord], NEW t \in Task, NEW r \in TaskRecord,
           r.raised \/ r.cancel # "no" => r.succ = None, NEW o
    PROVE  LET new == Ended(t, r, o, ts) IN
           /\ new[t].pc \in {"exited", "done", "await"}
           /\ new[t].pc = "exited" => o = t
           /\ new[t].pc = "await" => r.succ # None
           /\ new[t].cancel = "no"
           /\ new[t].made = r.made /\ new[t].raised = r.raised /\ new[t].succ = r.succ
           /\ \A u \in Task \ {t} : new[u] = ts[u]
  <1> DEFINE dying == r.raised \/ r.cancel # "no"
             w == [r EXCEPT !.pc = IF dying THEN "reap" ELSE "await", !.cur = r.succ]
             x == Exit(t, r, o)
  <1>1. /\ x.pc \in {"exited", "done"} /\ (x.pc = "exited" => o = t)
        /\ x.cancel = "no" /\ x.made = r.made /\ x.raised = r.raised
        /\ x.succ = r.succ
    BY DEF Exit, NoTask
  <1>2. /\ w.pc = IF dying THEN "reap" ELSE "await"
        /\ w.cancel = r.cancel /\ w.made = r.made /\ w.raised = r.raised
        /\ w.succ = r.succ
    BY DEF TaskRecord
  <1>3. Follow(t, r, r.succ, dying, o, ts)[t] = IF r.succ = None THEN x ELSE w
    BY DEF Follow
  <1>4. ASSUME NEW u \in Task \ {t}
        PROVE  Follow(t, r, r.succ, dying, o, ts)[u] = ts[u]
    <2>1. ~(u = r.succ /\ dying)
      BY Apart
    <2> HIDE DEF dying
    <2> QED BY <2>1 DEF Follow
  <1>5. /\ Ended(t, r, o, ts)[t] \in {x, w}
        /\ Ended(t, r, o, ts)[t] = w => r.succ # None \/ w = x
        /\ \A u \in Task \ {t} : Ended(t, r, o, ts)[u] = ts[u]
    BY <1>3, <1>4 DEF Ended
  <1> HIDE DEF w, x
  <1> QED BY <1>1, <1>2, <1>5

(* A task that is not to run again, and what it leaves to others. *)
LEMMA LeaveLock ==
    ASSUME Typed, Lock, NEW t \in Task,
           task[t].pc \in Running \cup {"created", "await"},
           task'[t].pc \in {"done", "await"},
           task'[t].pc = "await" => task'[t].succ # None,
           task'[t].cancel = "no",
           task'[t].made = task[t].made, task'[t].succ = task[t].succ,
           task'[t].raised => task'[t].succ = None,
           \A u \in Task \ {t} : task'[u] = task[u],
           owner' = IF owner = t THEN None ELSE owner,
           active' = IF owner = t /\ active = task[t].made THEN None ELSE active,
           active' = None => pending' = None /\ buffer' = None,
           UNCHANGED command
    PROVE  Lock'
  <1>0. task[t].made \in Task
    BY DEF Lock, Makers, Running
  <1>1. Makers'
    <2>1. \A v \in Task : /\ (task'[v].pc # "none") = (task[v].pc # "none")
                          /\ task'[v].made = task[v].made
      BY DEF Running
    <2>2. \A v \in Task : task'[v].pc \in Running => v # t
      BY DEF Running
    <2> QED BY <2>1, <2>2 DEF Lock, Makers
  <1>2. Owned'
    <2>1. owner' # None => owner' = owner /\ owner # t /\ owner \in Task
      BY DEF Typed, TypeOK
    <2>2. owner' # None => task'[owner'] = task[owner]
      BY <2>1
    <2> QED BY <2>1, <2>2 DEF Lock, Owned, Alive
  <1>3. Cut'
    <2> SUFFICES ASSUME NEW v \in Task, task'[v].cancel # "no"
                 PROVE  /\ Alive(v)' /\ active' # task'[v].made
                        /\ owner' # None => task'[owner'].made # task'[v].made
      BY DEF Cut
    <2>1. v # t /\ task'[v] = task[v]
      OBVIOUS
    <2>2. Alive(v) /\ active # task[v].made /\ task[v].made \in Task
      BY <2>1 DEF Lock, Cut, Makers, Alive, Running
    <2>3. owner # None => task[owner].made # task[v].made
      BY <2>1 DEF Lock, Cut
    <2>4. owner' # None => owner' \in Task /\ task'[owner'].made = task[owner].made
      BY DEF Typed, TypeOK
    <2> QED BY <2>1, <2>2, <2>3, <2>4, Apart DEF Alive
  <1>4. Ends'
    <2> SUFFICES ASSUME NEW v \in Task
                 PROVE  /\ task'[v].cancel # "no" \/ task'[v].raised => task'[v].succ = None
                        /\ Alive(v)' /\ task'[v].raised => task'[v].cancel = "taken"
                        /\ task'[v].pc \notin {"reap", "exited"}
                        /\ task'[v].pc = "await" => task'[v].succ # None
                        /\ task'[v].cancel = "taken" => task'[v].pc = "unwind"
                        /\ task'[v].pc = "handoff" /\ task'[v].cancel = "asked"
                             => active' \in Commands /\ owner' = None
      BY DEF Ends
    <2>1. CASE v = t
      BY <2>1 DEF Alive, Running
    <2>2. CASE v # t
      BY <2>2, Apart DEF Lock, Ends, Alive
    <2> QED BY <2>1, <2>2
  <1>5. Unowned'
    BY Apart DEF Lock, Unowned
  <1>6. Installed'
    <2>1. owner' # None => owner' = owner /\ owner \in Task /\ task'[owner] = task[owner]
      BY DEF Typed, TypeOK
    <2> QED BY <2>1, Apart DEF Lock, Installed, InFlight
  <1>7. Single'
    <2>1. ASSUME NEW v \in Task, Live(v)' PROVE owner' = v /\ active' # None
      <3>1. v # t /\ Live(v)
        BY <2>1 DEF Live
      <3> QED BY <3>1 DEF Lock, Single
    <2> QED BY <2>1 DEF Single
  <1> QED BY <1>1, <1>2, <1>3, <1>4, <1>5, <1>6, <1>7 DEF Lock

LEMMA SlotNone ==
    ASSUME TypeOK
    PROVE  /\ Slot = None => pending = None /\ buffer = None
           /\ pending = None /\ buffer = None => Slot = None /\ Rest = None
  <1>1. pending \in Waiting /\ buffer \in Waiting
    BY DEF TypeOK
  <1>2. buffer # None => Merged(pending, buffer) # None
    BY <1>1, MergedType
  <1> QED BY <1>2 DEF Slot, Rest, Blocked

LEMMA FinishLock ==
    ASSUME Typed, Lock, NEW t \in Task, Finish(t) PROVE Lock'
  <1>0. /\ TypeOK /\ task[t] \in TaskRecord /\ task[t].pc = "unwind"
        /\ task \in [Task -> TaskRecord] /\ buffer' = Rest /\ UNCHANGED command
    BY DEF Finish, At, Typed, TypeOK
  <1>1. /\ task[t].raised \/ task[t].cancel # "no" => task[t].succ = None
        /\ task[t].guard = task[t].made /\ task[t].made \in Task
    BY <1>0 DEF Lock, Ends, Makers, Running
  <1>2. ASSUME NEW o, task' = Ended(t, task[t], o, task), o # t,
               pending' = Slot,
               owner' = IF owner = t THEN None ELSE owner,
               active' = IF owner = t /\ active = task[t].made THEN None ELSE active,
               active' = None => Slot = None
        PROVE  Lock'
    <2>1. /\ task'[t].pc \in {"done", "await"}
          /\ task'[t].pc = "await" => task'[t].succ # None
          /\ task'[t].cancel = "no"
          /\ task'[t].made = task[t].made /\ task'[t].succ = task[t].succ
          /\ task'[t].raised => task'[t].succ = None
          /\ \A u \in Task \ {t} : task'[u] = task[u]
      BY <1>0, <1>1, <1>2, EndedQuiet
    <2>2. active' = None => pending' = None /\ buffer' = None
      BY <1>0, <1>2, SlotNone
    <2>3. task[t].pc \in Running \cup {"created", "await"}
      BY <1>0 DEF Running
    <2>4. UNCHANGED command
      BY <1>0
    <2>5. /\ owner' = IF owner = t THEN None ELSE owner
          /\ active' = IF owner = t /\ active = task[t].made THEN None ELSE active
      BY <1>2
    <2> QED BY <2>1, <2>2, <2>3, <2>4, <2>5, LeaveLock
  <1>3. ASSUME active = task[t].guard, owner \in {None, t},
               NEW u \in Task, Fresh(u), owner' = u, Slot # None,
               task' = Ended(t, [task[t] EXCEPT !.succ = u], u,
                     [task EXCEPT ![u] = NewTask(Slot, task[t].guard, FALSE)]),
               UNCHANGED active
        PROVE  Lock'
    <2> DEFINE n == NewTask(Slot, task[t].guard, FALSE)
               ts == [task EXCEPT ![u] = n]
               r == [task[t] EXCEPT !.succ = u]
    <2>1. task[t].cancel = "no" /\ ~task[t].raised
      BY <1>0, <1>1, <1>3 DEF Lock, Cut, Ends, Alive, Running
    <2>2. u # t
      BY <1>0, <1>3 DEF Fresh
    <2>3. /\ r.pc = "unwind" /\ r.succ = u /\ r.made = task[t].made
          /\ r.cancel = "no" /\ r.raised = FALSE
      BY <1>0, <2>1, SuccFields DEF TaskRecord
    <2>4. r \in TaskRecord
      BY <1>0 DEF TaskRecord
    <2>5. n \in TaskRecord
      <3>1. task[t].guard \in Guards /\ Slot \in Waiting
        BY <1>0, <1>1, SlotType DEF Guards
      <3> QED BY <3>1, NewTaskType
    <2>6. ts \in [Task -> TaskRecord] /\ ts[u] = n
          /\ \A v \in Task \ {u} : ts[v] = task[v]
      BY <1>0, <2>5
    <2>7. task' = Ended(t, r, u, ts)
      BY <1>3
    <2> HIDE DEF n, ts, r
    <2>8. /\ task'[t].pc \in {"done", "await"} /\ task'[t].cancel = "no"
          /\ task'[t].made = task[t].made /\ task'[t].raised = task[t].raised
          /\ task'[t].succ = u
          /\ \A v \in Task \ {t} : task'[v] = ts[v]
      <3>1. r.raised \/ r.cancel # "no" => r.succ = None
        BY <2>3
      <3>2. /\ task'[t].pc \in {"exited", "done", "await"}
            /\ task'[t].pc = "exited" => u = t
            /\ task'[t].cancel = "no"
            /\ task'[t].made = r.made /\ task'[t].raised = r.raised
            /\ task'[t].succ = r.succ
            /\ \A v \in Task \ {t} : task'[v] = ts[v]
        BY <2>4, <2>6, <2>7, <3>1, EndedQuiet
      <3>3. task[t].raised = FALSE
        BY <1>0, <2>1 DEF TaskRecord
      <3> QED BY <2>1, <2>2, <2>3, <3>2, <3>3
    <2>9. /\ \E event \in Waiting : task'[u] = NewTask(event, task[t].guard, FALSE)
          /\ \A v \in Task \ {t, u} : task'[v] = task[v]
      BY <1>0, <2>2, <2>6, <2>8, SlotType DEF n
    <2>10. /\ task[t].pc \in {"handoff", "unwind"}
           /\ task'[t].pc \in {"unwind", "await", "done"}
           /\ task'[t].pc = "unwind" => task'[t].guard = task[t].guard
           /\ task'[t].cancel \in {"no", task[t].cancel}
      BY <1>0, <2>8
    <2>11. UNCHANGED <<active, command>>
      BY <1>0, <1>3
    <2> QED BY <1>3, <2>2, <2>8, <2>9, <2>10, <2>11, SucceedLock
  <1>4. CASE /\ active = task[t].guard /\ owner \notin {None, t} /\ pending' = Slot
             /\ task' = Ended(t, task[t], owner, task) /\ UNCHANGED <<active, owner>>
    BY <1>1, <1>2, <1>4, Apart
  <1>5. CASE /\ ~(active = task[t].guard /\ Slot # None) /\ pending' = Slot
             /\ owner' = IF owner = t THEN None ELSE owner
             /\ active' = IF owner = t /\ active = task[t].guard THEN None ELSE active
             /\ task' = Ended(t, task[t], owner', task)
    <2>1. owner' # t
      BY <1>5, Apart
    <2>2. active' = None => Slot = None
      BY <1>0, <1>5, SlotNone DEF Lock, Installed
    <2> QED BY <1>1, <1>2, <1>5, <2>1, <2>2
  <1> QED BY <1>3, <1>4, <1>5 DEF Finish

LEMMA CallbackLock ==
    ASSUME Typed, Lock, NEW t \in Task, Callback(t) PROVE Lock'
  BY DEF Callback, Lock, Ends

LEMMA RootStepLock ==
    ASSUME Typed, Lock, NEW t \in Task, RootStep(t) PROVE Lock'
  <1> DEFINE cur == task[task[t].cur]
  <1>0. /\ TypeOK /\ task[t] \in TaskRecord /\ task \in [Task -> TaskRecord]
        /\ task[t].pc = "await" /\ cur \in TaskRecord
        /\ task' = Follow(t, task[t], cur.succ, task[t].pc = "reap" \/ cur.raised,
                          owner, task)
        /\ UNCHANGED <<active, owner, pending, buffer, command>>
    BY DEF RootStep, Typed, TypeOK, Carry, Lock, Ends, slots
  <1>1. cur.raised => cur.succ = None
    BY <1>0 DEF Lock, Ends, Typed, Carry
  <1>2. owner # t
    BY <1>0, Apart DEF Lock, Owned, Alive, Running
  <1>3. task[t].cancel = "no" /\ task[t].succ # None /\ ~task[t].raised
    BY <1>0 DEF Lock, Cut, Ends, Alive, Running
  <1> DEFINE w == [task[t] EXCEPT !.pc = "await", !.cur = cur.succ]
             x == Exit(t, task[t], owner)
  <1>4. task'[t] = IF cur.succ = None THEN x ELSE w
    BY <1>0, <1>1 DEF Follow
  <1>5. ASSUME NEW u \in Task \ {t} PROVE task'[u] = task[u]
    <2>1. ~(u = cur.succ /\ cur.raised) /\ task[t].pc # "reap"
      BY <1>0, <1>1, Apart
    <2>2. task'[u] = IF u = cur.succ /\ (task[t].pc = "reap" \/ cur.raised) /\ ~Done(u)
                     THEN Asked(task[u]) ELSE task[u]
      BY <1>0 DEF Follow
    <2> HIDE DEF cur
    <2> QED BY <2>1, <2>2
  <1>6. /\ x.pc = "done" /\ x.cancel = "no" /\ x.made = task[t].made
        /\ x.raised = task[t].raised /\ x.succ = task[t].succ
    BY <1>2 DEF Exit, NoTask
  <1>7. /\ w.pc = "await" /\ w.cancel = task[t].cancel /\ w.made = task[t].made
        /\ w.raised = task[t].raised /\ w.succ = task[t].succ
    BY <1>0 DEF TaskRecord
  <1> HIDE DEF w, x
  <1>8. /\ task'[t].pc \in {"done", "await"}
        /\ task'[t].pc = "await" => task'[t].succ # None
        /\ task'[t].cancel = "no"
        /\ task'[t].made = task[t].made /\ task'[t].succ = task[t].succ
        /\ task'[t].raised => task'[t].succ = None
    BY <1>3, <1>4, <1>6, <1>7
  <1>9. /\ owner' = IF owner = t THEN None ELSE owner
        /\ active' = IF owner = t /\ active = task[t].made THEN None ELSE active
        /\ task[t].pc \in Running \cup {"created", "await"}
        /\ UNCHANGED command
    BY <1>0, <1>2
  <1>10. active' = None => pending' = None /\ buffer' = None
    BY <1>0 DEF Lock, Installed
  <1> QED BY <1>5, <1>8, <1>9, <1>10, LeaveLock

(* A cancellation comes where the guard and the owner are gone. *)
LEMMA TakeCancelLock ==
    ASSUME Typed, Lock, NEW t \in Task, TakeCancel(t) PROVE Lock'
  <1> DEFINE r == [task[t] EXCEPT !.cancel = "taken", !.raised = TRUE]
             w == [r EXCEPT !.pc = "unwind", !.event = None, !.next = None,
                            !.depth = 0]
             x == [task[t] EXCEPT !.cancel = "taken"]
  <1>0. /\ TypeOK /\ task[t] \in TaskRecord /\ task \in [Task -> TaskRecord]
        /\ task[t].cancel = "asked"
        /\ UNCHANGED <<active, owner, pending, buffer, command>>
    BY DEF TakeCancel, Typed, TypeOK, slots
  <1>1. /\ task[t].succ = None /\ Alive(t) /\ active # task[t].made
        /\ active = None => pending = None /\ buffer = None
        /\ task[t].made \in Task
        /\ task[t].pc \in Running => task[t].guard = task[t].made
        /\ task[t].pc \in Running \cup {"created"}
    BY <1>0 DEF Lock, Cut, Ends, Installed, Makers, Alive, Running
  <1>2. owner # t
    BY <1>0, <1>1, Apart DEF Lock, Cut
  <1>3. /\ r \in TaskRecord /\ r.pc = task[t].pc /\ r.succ = None
        /\ r.cancel = "taken" /\ r.raised = TRUE /\ r.made = task[t].made
        /\ r.guard = task[t].guard
    BY <1>0, <1>1 DEF TaskRecord
  <1>4. /\ w.pc = "unwind" /\ w.succ = None /\ w.cancel = "taken"
        /\ w.made = task[t].made /\ w.guard = task[t].guard /\ w.raised = TRUE
    BY <1>3 DEF TaskRecord
  <1>6. /\ x.pc = task[t].pc /\ x.succ = None /\ x.cancel = "taken"
        /\ x.made = task[t].made /\ x.guard = task[t].guard
        /\ x.raised = task[t].raised
    BY <1>0, <1>1 DEF TaskRecord
  <1> HIDE DEF r, w, x
  <1>7. ASSUME task'[t].pc = "unwind", task'[t].succ = None,
               task'[t].cancel = "taken", task'[t].made = task[t].made,
               task'[t].guard = task[t].guard, task[t].pc \in Running,
               \A u \in Task \ {t} : task'[u] = task[u]
        PROVE  Lock'
    <2>1. Makers'
      BY <1>1, <1>7 DEF Lock, Makers, Running
    <2>2. Owned'
      BY <1>0, <1>2, <1>7 DEF Lock, Owned, Alive, Typed, TypeOK
    <2>3. Cut'
      BY <1>0, <1>1, <1>7 DEF Lock, Cut, Alive, Running, Typed, TypeOK
    <2>4. Ends'
      BY <1>0, <1>7 DEF Lock, Ends, Alive, Running
    <2>5. Unowned' /\ Installed'
      BY <1>0, <1>2, <1>7 DEF Lock, Unowned, Installed, InFlight, Typed, TypeOK
    <2>6. Single'
      BY <1>0, <1>7 DEF Lock, Single, Live
    <2> QED BY <2>1, <2>2, <2>3, <2>4, <2>5, <2>6 DEF Lock
  <1>8. ASSUME task'[t].pc = "done", task'[t].succ = None,
               task'[t].cancel = "no", task'[t].made = task[t].made,
               \A u \in Task \ {t} : task'[u] = task[u]
        PROVE  Lock'
    <2>1. /\ owner' = IF owner = t THEN None ELSE owner
          /\ active' = IF owner = t /\ active = task[t].made THEN None ELSE active
          /\ task[t].pc \in Running \cup {"created", "await"}
          /\ active' = None => pending' = None /\ buffer' = None
          /\ UNCHANGED command
      BY <1>0, <1>1, <1>2
    <2>2. /\ task'[t].pc \in {"done", "await"}
          /\ task'[t].pc = "await" => task'[t].succ # None
          /\ task'[t].succ = task[t].succ
          /\ task'[t].raised => task'[t].succ = None
      BY <1>1, <1>8
    <2> QED BY <1>8, <2>1, <2>2, LeaveLock
  <1>9. CASE task[t].pc = "created" /\ task' = [task EXCEPT ![t] = Exit(t, r, owner)]
    <2>1. /\ Exit(t, r, owner).pc = "done" /\ Exit(t, r, owner).succ = None
          /\ Exit(t, r, owner).cancel = "no"
          /\ Exit(t, r, owner).made = task[t].made
      BY <1>2, <1>3 DEF Exit, NoTask
    <2>2. task'[t] = Exit(t, r, owner) /\ \A u \in Task \ {t} : task'[u] = task[u]
      BY <1>0, <1>9
    <2> QED BY <1>8, <2>1, <2>2
  <1>10. CASE /\ task[t].pc \in {"hook", "run", "again", "reply", "unwind"}
              /\ \/ task' = [task EXCEPT ![t] = w]
                 \/ task[t].pc = "unwind" /\ task' = [task EXCEPT ![t] = x]
    <2>1. /\ task'[t] \in {w, x} /\ (task'[t] = x => x.pc = "unwind" \/ x = w)
          /\ \A u \in Task \ {t} : task'[u] = task[u]
          /\ task[t].pc \in Running
      BY <1>0, <1>6, <1>10 DEF Running
    <2> QED BY <1>4, <1>6, <1>7, <2>1
  <1>11. CASE task' = Ended(t, r, owner, task)
    <2>1. /\ task'[t].pc \in {"exited", "done", "await"}
          /\ task'[t].pc = "exited" => owner = t
          /\ task'[t].pc = "await" => r.succ # None
          /\ task'[t].cancel = "no"
          /\ task'[t].made = r.made /\ task'[t].succ = r.succ
          /\ \A u \in Task \ {t} : task'[u] = task[u]
      BY <1>0, <1>3, <1>11, EndedQuiet
    <2> QED BY <1>2, <1>3, <1>8, <2>1
  <1>12. \/ task[t].pc = "created" /\ task' = [task EXCEPT ![t] = Exit(t, r, owner)]
         \/ /\ task[t].pc \in {"hook", "run", "again", "reply", "unwind"}
            /\ \/ task' = [task EXCEPT ![t] = w]
               \/ task[t].pc = "unwind" /\ task' = [task EXCEPT ![t] = x]
         \/ task' = Ended(t, r, owner, task)
    BY DEF TakeCancel, r, w, x
  <1> QED BY <1>9, <1>10, <1>11, <1>12

(* A root task takes a session that nobody owns. *)
LEMMA StartRootLock ==
    ASSUME Typed, Lock, owner = None, NEW t \in Task, NEW event, StartRoot(t, event),
           \A v \in Task : task[v].cancel = "asked" => task[v].pc # "handoff"
    PROVE  Lock'
  <1>1. task[t].pc = "none" /\ active' = t /\ owner' = t
    BY DEF StartRoot, Fresh
  <1>2. /\ task'[t].pc = "created" /\ task'[t].made = t /\ task'[t].cancel = "no"
        /\ task'[t].raised = FALSE /\ task'[t].succ = None
        /\ \A v \in Task \ {t} : task'[v] = task[v]
    BY DEF StartRoot, NewTask, NoTask, Typed, TypeOK
  <1>3. Makers'
    BY <1>1, <1>2 DEF Lock, Makers, Running
  <1>4. Owned'
    BY <1>1, <1>2 DEF Owned, Alive
  <1>5. Cut'
    BY <1>1, <1>2 DEF Lock, Cut, Makers, Alive, Running
  <1>6. Ends'
    <2> SUFFICES ASSUME NEW v \in Task
                 PROVE  /\ task'[v].cancel # "no" \/ task'[v].raised => task'[v].succ = None
                        /\ Alive(v)' /\ task'[v].raised => task'[v].cancel = "taken"
                        /\ task'[v].pc \notin {"reap", "exited"}
                        /\ task'[v].pc = "await" => task'[v].succ # None
                        /\ task'[v].cancel = "taken" => task'[v].pc = "unwind"
                        /\ ~(task'[v].pc = "handoff" /\ task'[v].cancel = "asked")
      BY DEF Ends
    <2> QED BY <1>2 DEF Lock, Ends, Alive
  <1>7. Unowned' /\ Installed'
    BY <1>1, <1>2, Apart DEF Unowned, Installed
  <1>8. Single'
    BY <1>1, <1>2, Apart DEF Lock, Single, Live
  <1> QED BY <1>3, <1>4, <1>5, <1>6, <1>7, <1>8 DEF Lock

(* A command gives the session to what waits, or leaves it free. *)
LEMMA DrainLock ==
    ASSUME Typed, Lock, owner = None, Drain(None) PROVE Lock'
  <1>0. \A v \in Task : task[v].cancel = "asked" => task[v].pc # "handoff"
    BY DEF Drain
  <1>1. ASSUME NEW t \in Task, StartRoot(t, Slot) PROVE Lock'
    BY <1>0, <1>1, StartRootLock
  <1>2. CASE /\ Slot = None /\ active' = None /\ owner' = None
             /\ UNCHANGED <<slots, task>>
    <2>1. pending' = None /\ buffer' = None /\ task' = task
      BY <1>2, SlotNone DEF slots, Typed
    <2>2. Makers' /\ Owned'
      BY <1>2, <2>1 DEF Lock, Makers, Owned
    <2>3. Cut'
      BY <1>2, <2>1, Apart DEF Lock, Cut, Makers, Alive, Running
    <2>4. Ends'
      BY <1>0, <2>1 DEF Lock, Ends, Alive
    <2>5. Unowned' /\ Installed'
      BY <1>2, <2>1, Apart DEF Unowned, Installed
    <2>6. Single'
      BY <2>1, Apart DEF Lock, Single, Live
    <2> QED BY <2>2, <2>3, <2>4, <2>5, <2>6 DEF Lock
  <1> QED BY <1>1, <1>2 DEF Drain

(* A step that leaves the guard, the owner and the tasks alone. *)
LEMMA FrameLock ==
    ASSUME Typed, Lock, UNCHANGED <<active, owner, task>>,
           active \in Commands => command'[active] \notin {"unsent", "done"},
           \A c \in Commands : command'[c] = "waiting" => command[c] = "waiting",
           active = None => pending' = None /\ buffer' = None
    PROVE  Lock'
  <1>1. Makers' /\ Owned' /\ Cut' /\ Ends' /\ Single'
    BY DEF Lock, Makers, Owned, Cut, Ends, Single, Alive, Live
  <1>2. Unowned' /\ Installed'
    BY DEF Lock, Unowned, Installed, InFlight
  <1> QED BY <1>1, <1>2 DEF Lock

LEMMA Unhealed ==
    ASSUME Typed, NEW S, NEW why, why # "healed", Drop(S, why),
           \A m \in Messages : lost[m] # "healed"
    PROVE  \A m \in Messages : lost'[m] # "healed"
  BY DEF Drop

Healthy == \A m \in Messages : lost[m] # "healed"

LEMMA ArriveLock ==
    ASSUME Typed, Lock, Healthy, NEW m \in Messages, Arrive(m)
    PROVE  Lock' /\ Healthy'
  <1>1. PICK s \in Senders : ArriveFree(m, s) \/ ArriveMedia(m, s) \/ ArriveText(m, s)
    BY GuardAssumption DEF Arrive
  <1>2. ~Stale
    BY DEF Stale, Done, Lock, Owned, Alive, Running
  <1>3. command' = command
    BY <1>1 DEF ArriveFree, ArriveMedia, ArriveText, Arrival
  <1>4. CASE ArriveFree(m, s)
    <2>1. active = None /\ lost' = lost
      BY <1>2, <1>4 DEF ArriveFree
    <2>2. owner = None
      BY <2>1 DEF Lock, Installed
    <2>3. \A v \in Task : task[v].cancel = "asked" => task[v].pc # "handoff"
      BY <2>1, Apart DEF Lock, Ends
    <2>4. PICK t \in Task : StartRoot(t, [from |-> s, msgs |-> {m}])
      BY <1>4 DEF ArriveFree
    <2>5. Lock'
      BY <2>2, <2>3, <2>4, StartRootLock
    <2> QED BY <2>1, <2>5 DEF Healthy
  <1>5. CASE ArriveMedia(m, s) \/ ArriveText(m, s)
    <2>1. UNCHANGED <<active, owner, task>> /\ active # None
      BY <1>5 DEF ArriveMedia, ArriveText
    <2>2. active \in Commands => command'[active] \notin {"unsent", "done"}
      BY <1>3 DEF Lock, Installed, InFlight
    <2>3. Lock'
      BY <1>3, <2>1, <2>2, FrameLock
    <2>4. Healthy'
      BY <1>5, Unhealed DEF ArriveMedia, ArriveText, Healthy
    <2> QED BY <2>3, <2>4
  <1> QED BY <1>1, <1>4, <1>5

LEMMA CommandLock ==
    ASSUME Typed, Lock, Healthy, NEW c \in Commands, CommandArrive(c) \/ CommandStep(c)
    PROVE  Lock' /\ Healthy'
  <1>0. TypeOK /\ command \in [Commands -> Stages]
    BY DEF Typed, TypeOK, Stages
  <1>1. ASSUME NEW stage \in Stages, Stage(c, stage)
        PROVE  command'[c] = stage /\ \A d \in Commands \ {c} : command'[d] = command[d]
    BY <1>0, <1>1 DEF Stage
  <1>2. LiveOwner \/ owner = None
    BY DEF LiveOwner, Done, Lock, Owned, Alive, Running
  <1>3. active \in Commands => command[active] \notin {"unsent", "done"}
    BY DEF Lock, Installed, InFlight
  <1>4. CASE CommandArrive(c)
    <2>1. /\ active' = c /\ UNCHANGED <<owner, task>>
          /\ command'[c] = "handling"
          /\ \A d \in Commands \ {c} : command'[d] = command[d]
      BY <1>1, <1>4 DEF CommandArrive, Stages
    <2>2. Makers' /\ Owned'
      BY <2>1 DEF Lock, Makers, Owned, Alive
    <2>3. Cut'
      BY <2>1, Apart DEF Lock, Cut, Makers, Alive, Running
    <2>4. Ends'
      BY <2>1 DEF Lock, Ends, Alive
    <2>5. Unowned' /\ Installed'
      BY <2>1, Apart DEF Unowned, Installed, InFlight
    <2>6. Single'
      BY <2>1, Apart DEF Lock, Single, Live
    <2>7. Healthy'
      BY <1>4, Unhealed DEF CommandArrive, Healthy
    <2> QED BY <2>2, <2>3, <2>4, <2>5, <2>6, <2>7 DEF Lock
  <1>5. CASE CommandHandle(c) \/ CommandClear(c) \/ CommandReset(c)
    <2>1. /\ UNCHANGED <<active, owner, task>> /\ buffer' = buffer
          /\ pending' \in {pending, None}
          /\ command'[c] \in {"clearing", "resetting", "replying"}
          /\ \A d \in Commands \ {c} : command'[d] = command[d]
      BY <1>1, <1>5
        DEF CommandHandle, CommandClear, CommandReset, slots, Stages
    <2>2. active = None => pending' = None /\ buffer' = None
      BY <2>1 DEF Lock, Installed
    <2>3. Lock'
      BY <1>3, <2>1, <2>2, FrameLock
    <2>4. Healthy'
      BY <1>5, Unhealed
        DEF CommandHandle, CommandClear, CommandReset, Healthy, history
    <2> QED BY <2>3, <2>4
  <1>6. Healthy' \/ ~(CommandCancel(c) \/ CommandDrain(c) \/ CommandYield(c) \/ CommandFail(c))
    BY DEF CommandCancel, CommandDrain, CommandYield, CommandFail, Healthy, history
  <1>7. CASE CommandCancel(c)
    <2>1. ASSUME LiveOwner, owner' = None, task' = [task EXCEPT ![owner] = Asked(@)],
                 Stage(c, "waiting"), UNCHANGED <<active, slots>>
          PROVE  Lock'
      <3>1. /\ owner \in Task /\ task[owner] \in TaskRecord
            /\ Alive(owner) /\ task[owner].succ = None
        BY <1>0, <2>1 DEF LiveOwner, Lock, Owned, TypeOK
      <3>2. task[owner].cancel = "no" /\ ~task[owner].raised
        BY <3>1, Apart DEF Lock, Cut, Ends
      <3>3. /\ active = c /\ active' = c /\ command'[c] = "waiting"
            /\ \A v \in Task \ {owner} : task'[v] = task[v]
        BY <1>0, <1>1, <1>7, <2>1, <3>1 DEF CommandCancel, TypeOK, Stages
      <3>4. /\ task'[owner].cancel = "asked" /\ task'[owner].pc = task[owner].pc
            /\ task'[owner].made = task[owner].made
            /\ task'[owner].guard = task[owner].guard
            /\ task'[owner].raised = task[owner].raised
            /\ task'[owner].succ = None
        BY <1>0, <2>1, <3>1 DEF Asked, TypeOK, TaskRecord
      <3>5. Makers'
        BY <3>1, <3>3, <3>4 DEF Lock, Makers, Running
      <3>6. Owned'
        BY <2>1 DEF Owned
      <3>7. Cut'
        BY <2>1, <3>1, <3>3, <3>4, Apart DEF Lock, Cut, Makers, Alive, Running
      <3>8. Ends'
        BY <2>1, <3>1, <3>2, <3>3, <3>4 DEF Lock, Ends, Alive
      <3>9. Unowned' /\ Installed'
        BY <2>1, <3>3, Apart DEF Unowned, Installed, InFlight
      <3>10. Single'
        BY <3>3, <3>4, Apart DEF Lock, Single, Live
      <3> QED BY <3>5, <3>6, <3>7, <3>8, <3>9, <3>10 DEF Lock
    <2>2. CASE ~LiveOwner /\ Drain(None)
      BY <1>2, <1>6, <1>7, <2>2, DrainLock
    <2> QED BY <1>6, <1>7, <2>1, <2>2 DEF CommandCancel
  <1>8. ASSUME active # c, UNCHANGED <<active, owner, slots, task>>, Stage(c, "done")
        PROVE  Lock'
    <2>1. /\ command'[c] = "done"
          /\ \A d \in Commands \ {c} : command'[d] = command[d]
      BY <1>1, <1>8 DEF Stages
    <2>2. active = None => pending' = None /\ buffer' = None
      BY <1>8 DEF Lock, Installed, slots
    <2> QED BY <1>3, <1>8, <2>1, <2>2, FrameLock
  <1>9. CASE CommandDrain(c)
    <2>1. CASE active = c
      <3>1. owner = None
        BY <1>9, <2>1 DEF CommandDrain, Lock, Unowned
      <3>2. Drain(None)
        BY <1>9, <2>1, <3>1 DEF CommandDrain
      <3> QED BY <1>6, <1>9, <3>1, <3>2, DrainLock
    <2>2. CASE active # c
      BY <1>6, <1>8, <1>9, <2>2 DEF CommandDrain
    <2> QED BY <2>1, <2>2
  <1>10. CASE CommandYield(c)
    BY <1>6, <1>8, <1>10 DEF CommandYield
  <1>11. CASE CommandFail(c)
    <2>1. ASSUME LiveOwner, active' = task[owner].made, UNCHANGED <<owner, slots, task>>
          PROVE  Lock'
      <3>1. owner \in Task /\ owner # None /\ task[owner].made \in Task
        BY <1>0, <2>1 DEF LiveOwner, Lock, Owned, Makers, Alive, Running, TypeOK
      <3>2. Makers' /\ Owned'
        BY <2>1 DEF Lock, Makers, Owned, Alive
      <3>3. Cut'
        BY <2>1, <3>1 DEF Lock, Cut, Alive
      <3>4. Ends'
        BY <2>1, <3>1 DEF Lock, Ends, Alive
      <3>5. Unowned' /\ Installed'
        BY <2>1, <3>1, Apart DEF Unowned, Installed
      <3>6. Single'
        BY <2>1, <3>1, Apart DEF Lock, Single, Live
      <3> QED BY <3>2, <3>3, <3>4, <3>5, <3>6 DEF Lock
    <2>2. CASE ~LiveOwner /\ Drain(owner)
      <3>1. owner = None
        BY <1>2, <2>2
      <3>2. Drain(None)
        BY <2>2, <3>1
      <3> QED BY <1>6, <1>11, <3>1, <3>2, DrainLock
    <2>3. CASE active # c /\ UNCHANGED <<active, owner, slots, task>>
      BY <1>6, <1>8, <1>11, <2>3 DEF CommandFail
    <2> QED BY <1>6, <1>11, <2>1, <2>2, <2>3 DEF CommandFail
  <1> QED BY <1>4, <1>5, <1>7, <1>9, <1>10, <1>11 DEF CommandStep

(* Steps that leave the guard, the owner and the tasks alone. *)
LEMMA OtherLock ==
    ASSUME Typed, Lock, Healthy,
           \/ Flush \/ Evict \/ AskReset \/ ConfirmReset \/ UNCHANGED vars
           \/ \E t \in Task : Promote(t)
    PROVE  Lock' /\ Healthy'
  <1>1. UNCHANGED <<active, owner, task, command, lost>>
    BY DEF Flush, Evict, AskReset, ConfirmReset, Promote, vars, history
  <1>2. active = None => pending' = None /\ buffer' = None
    BY SlotNone DEF Flush, Evict, AskReset, ConfirmReset, Promote, vars, slots, Typed, Lock,
                    Installed
  <1>3. active \in Commands => command[active] \notin {"unsent", "done"}
    BY DEF Lock, Installed, InFlight
  <1> QED BY <1>1, <1>2, <1>3, FrameLock DEF Healthy

LEMMA TaskLock ==
    ASSUME Typed, Lock, Healthy, foreign' = {}, NEW t \in Task, TaskStep(t)
    PROVE  Lock' /\ Healthy'
  <1>1. Lock'
    BY RunLock, HandoffLock, FinishLock, TakeCancelLock, CallbackLock, RootStepLock,
       OtherLock
      DEF TaskStep
  <1>2. \/ lost' = lost
        \/ \E S, why : why # "healed" /\ Drop(S, why)
    BY DEF TaskStep, Start, BeginRun, Promote, BusyRun, RunEnd, RunSuperseded,
           RunFollows, NextTurn, Refuse, Reply, ReplyFails, Handoff, Finish, TakeCancel,
           Callback, RootStep, history
  <1>3. Healthy'
    BY <1>2, Unhealed DEF Healthy
  <1> QED BY <1>1, <1>3

LEMMA Adoption == Next => (foreign' = {} => foreign = {})
  BY DEF Next, TaskStep, Start, BeginRun, Promote, BusyRun, RunEnd, RunSuperseded,
         RunFollows, NextTurn, Refuse, Reply, ReplyFails, Handoff, Finish, TakeCancel,
         Callback, RootStep, Flush, Evict, AskReset, ConfirmReset, Arrive, ArriveFree,
         ArriveMedia, ArriveText, Arrival, CommandArrive, CommandStep, CommandHandle,
         CommandClear, CommandReset, CommandCancel, CommandDrain, CommandYield,
         CommandFail, history

LEMMA InitLock == Init => Lock /\ Healthy
  BY Apart DEF Init, NoTask, Lock, Makers, Owned, Cut, Ends, Unowned, Installed, Single,
         Healthy, Alive, Running, Live

LEMMA NextInv == Inv /\ [Next]_vars => Inv'
  <1> SUFFICES ASSUME Inv, [Next]_vars PROVE Inv'
    OBVIOUS
  <1>1. Typed /\ Typed'
    BY NextTyped DEF Inv
  <1>2. ASSUME foreign' = {} PROVE Lock' /\ Healthy'
    <2>1. Lock /\ Healthy
      BY <1>2, Adoption DEF Inv, Healthy, vars, history
    <2> QED BY <1>1, <1>2, <2>1, ArriveLock, CommandLock, OtherLock, TaskLock DEF Next
  <1> QED BY <1>1, <1>2 DEF Inv, Healthy

LEMMA InvHolds == Spec => []Inv
  <1>1. Init => Inv
    BY InitTyped, InitLock DEF Inv, Healthy
  <1> QED BY <1>1, NextInv, PTL DEF Spec

LEMMA FromInv ==
    ASSUME Inv
    PROVE  OneProcessor /\ NoHeal /\ NotStranded
  <1>1. OneProcessor
    BY DEF Inv, Lock, Single, OneProcessor
  <1>2. NoHeal
    BY DEF Inv, NoHeal
  <1>3. ASSUME foreign = {}, Idle PROVE active = None /\ pending = None /\ buffer = None
    <2>1. Lock /\ TypeOK
      BY <1>3 DEF Inv, Typed
    <2>2. owner = None
      BY <1>3, <2>1 DEF Idle, Lock, Owned, Alive, Running, TypeOK
    <2> QED BY <1>3, <2>1, <2>2 DEF Idle, Lock, Installed
  <1> QED BY <1>1, <1>2, <1>3 DEF NotStranded

(* One processor: however messages, commands, handoffs and cancellations    *)
(* fall together, a task that is to run or runs and was not cancelled owns  *)
(* the session under an installed guard, so that there is only one, as long *)
(* as no task adopts the guard of another.                                  *)
THEOREM Exclusion == Spec => []OneProcessor
  BY InvHolds, FromInv, PTL

(* The self-heal of handle_message never finds a stale lock, and so never   *)
(* drops what waits behind one, as long as no task adopts the guard of      *)
(* another.                                                                 *)
THEOREM NeverStale == Spec => []NoHeal
  BY InvHolds, FromInv, PTL

(* The late-arrival drain and the drain of a command leave nothing behind:  *)
(* a session in which nothing is left to run is free and has no message     *)
(* waiting.                                                                 *)
THEOREM NothingStranded == Spec => []NotStranded
  BY InvHolds, FromInv, PTL

(* No step of a task or of a message takes the guard away that a command    *)
(* has installed: it stays until the command is done, or goes to a later    *)
(* one.                                                                     *)
THEOREM CommandKept == Spec => CommandGuardKept
  <1> DEFINE A == active \in Commands /\ command'[active] # "done" /\ foreign' = {}
                    => active' \in Commands
  <1>1. ASSUME Inv, Next, active \in Commands, command'[active] # "done", foreign' = {}
        PROVE  active' \in Commands
    <2>1. Typed /\ TypeOK /\ Lock /\ active # None /\ active \notin Task
      BY <1>1, Adoption, Apart DEF Inv, Typed
    <2>2. ASSUME NEW t \in Task, TaskStep(t) PROVE active' \in Commands
      <3>1. CASE Finish(t)
        <4>1. task[t].guard \in Task
          BY <2>1, <3>1 DEF Finish, At, Lock, Makers, Running
        <4> QED BY <1>1, <2>1, <3>1, <4>1 DEF Finish
      <3>2. CASE Callback(t)
        BY <2>1, <3>2 DEF Callback, Lock, Ends
      <3>3. CASE Start(t)
        BY <1>1, <2>1, <3>3 DEF Start
      <3> QED BY <1>1, <2>2, <3>1, <3>2, <3>3
          DEF TaskStep, BeginRun, Promote, BusyRun, RunEnd, RunSuperseded, RunFollows,
              NextTurn, Refuse, Reply, ReplyFails, Handoff, TakeCancel, RootStep
    <2>3. ASSUME NEW m \in Messages, Arrive(m) PROVE active' \in Commands
      <3>1. ~Stale
        BY <2>1 DEF Stale, Done, Lock, Owned, Alive, Running
      <3> QED BY <1>1, <2>1, <2>3, <3>1 DEF Arrive, ArriveFree, ArriveMedia, ArriveText
    <2>4. ASSUME NEW c \in Commands, CommandStep(c) PROVE active' \in Commands
      <3>1. command' [c] = "done" \/ UNCHANGED active
        BY <2>1, <2>4
          DEF CommandStep, CommandHandle, CommandClear, CommandReset, CommandCancel,
              CommandDrain, CommandYield, CommandFail, Stage, TypeOK
      <3>2. active # c => UNCHANGED active
        BY <2>4
          DEF CommandStep, CommandHandle, CommandClear, CommandReset, CommandCancel,
              CommandDrain, CommandYield, CommandFail
      <3> QED BY <1>1, <3>1, <3>2
    <2>5. ASSUME Flush \/ Evict \/ AskReset \/ ConfirmReset PROVE active' \in Commands
      BY <1>1, <2>5 DEF Flush, Evict, AskReset, ConfirmReset
    <2>6. ASSUME NEW c \in Commands, CommandArrive(c) PROVE active' \in Commands
      BY <2>6 DEF CommandArrive
    <2> QED BY <1>1, <2>2, <2>3, <2>4, <2>5, <2>6 DEF Next
  <1>2. Inv /\ [Next]_vars => [A]_vars
    BY <1>1
  <1> QED BY InvHolds, <1>2, PTL DEF Spec, CommandGuardKept

=============================================================================
