------------------------ MODULE SessionCommands_proofs ------------------------
(***************************************************************************)
(* What only a command, a late reset or an eviction can cause in           *)
(* SessionGuard, for any number of messages, senders, tasks and commands: a *)
(* claim without a run, a run without its claim, and the loss of a message  *)
(* that the runner did not refuse.                                          *)
(*                                                                         *)
(* A run leaves its claim behind if its generation is not current when it  *)
(* ends.  For that something must have outdated the run and left its claim, *)
(* as a command and a confirmed reset do and an eviction does not (Holding).*)
(* What is left has no time (Stamping), so that no eviction removes it.     *)
(*                                                                         *)
(* Every message that came is exposed while a command, or what one left    *)
(* behind, disturbs the session (Exposure).  Without a disturbance the     *)
(* lock holds, one task is the owner of all that happens (Calm), and no    *)
(* step of it but a refusal drops anything or begins a disturbance: a       *)
(* command has to come, a reset to be confirmed or a claim to be evicted,   *)
(* and each of these exposes what came so far.                              *)
(***************************************************************************)
EXTENDS SessionMessages_proofs

-----------------------------------------------------------------------------
(* The claim of a run *)

Busy(t) == task[t].pc \in {"run", "again"}

Outdated == prompt = "closed" \/ \E c \in Commands : command[c] # "unsent"

(* A command found a run to stop and took the claim away, or one was evicted.*)
Freed == \/ evicted # {}
         \/ /\ stopped # {}
            /\ \E c \in Commands : command[c] \in {"replying", "waiting", "done"}

(* A run that has the claim has the generation too, until it is outdated. *)
Holding == \A t \in Task : Busy(t) /\ running = t => current = t \/ Outdated

(* The claim has its time only as long as its run goes on. *)
Stamping == stamped => running # None /\ Busy(running)

(* A command takes the claim away only from a run it found. *)
Clearing == \A c \in Commands : command[c] = "clearing" => stopped # {}

Claims == Holding /\ ClaimExplained /\ Stamping /\ Clearing

(* No run begins or ends. *)
SameRuns == \A t \in Task : task'[t].pc \in {"run", "again"} <=> Busy(t)

(* What the property says of a claim without a run, and of a run without it. *)
Left == running # None /\ ~Busy(running) => current # running /\ ~stamped /\ Outdated
Bare == \A t \in Task : Busy(t) => running = t \/ Freed

LEMMA Parts == ClaimExplained <=> Left /\ Bare
  BY DEF ClaimExplained, Left, Bare, Busy, Outdated, Freed

LEMMA PartsNext == ClaimExplained' <=> Left' /\ Bare'
  BY DEF ClaimExplained, Left, Bare, Busy, Outdated, Freed

-----------------------------------------------------------------------------
(* Steps by what they do to the claim *)

LEMMA Stays ==
    ASSUME Typed, Claims, SameRuns, Outdated => Outdated', Freed => Freed',
           Clearing', running' = running, current' = current, stamped' = stamped
    PROVE  Claims'
  <1>1. running \in Task \cup {None}
    BY DEF Typed, TypeOK
  <1>2. Holding' /\ Stamping'
    BY <1>1 DEF Claims, Holding, Stamping, SameRuns, Busy
  <1>3. Left' /\ Bare'
    BY <1>1, Parts DEF Claims, Left, Bare, SameRuns, Busy
  <1> QED BY <1>2, <1>3, PartsNext DEF Claims

(* A command or a reset outdates whatever runs, and an eviction what has the*)
(* claim; whoever takes the claim away is on record.                        *)
LEMMA Outdates ==
    ASSUME Typed, Claims, SameRuns, Outdated' \/ running' = None,
           Freed => Freed', Clearing',
           \/ running' = running /\ stamped' = stamped
           \/ running' = None /\ stamped' = FALSE /\ Freed',
           current' \in {current, None}
    PROVE  Claims'
  <1>1. running \in Task \cup {None} /\ None \notin Task
    BY Apart DEF Typed, TypeOK
  <1>2. Holding' /\ Stamping'
    BY <1>1 DEF Claims, Holding, Stamping, SameRuns, Busy
  <1>3. Left'
    BY <1>1, Parts DEF Claims, Left, SameRuns, Busy
  <1>4. Bare'
    BY <1>1, Parts DEF Claims, Bare, SameRuns, Busy
  <1> QED BY <1>2, <1>3, <1>4, PartsNext DEF Claims

(* A run ends and releases its claim, or the sentinel of another by then. *)
LEMMA Releases ==
    ASSUME Typed, Claims, NEW t \in Task, Busy(t), Release(t),
           task'[t].pc \notin {"run", "again"},
           \A u \in Task \ {t} : task'[u].pc \in {"run", "again"} <=> Busy(u),
           UNCHANGED <<command, prompt, stopped, evicted>>, current' = current
    PROVE  Claims'
  <1>1. running \in Task \cup {None} /\ None \notin Task
    BY Apart DEF Typed, TypeOK
  <1>2. Outdated' = Outdated /\ Freed' = Freed /\ Clearing' /\ Stamping'
    BY DEF Outdated, Freed, Clearing, Claims, Stamping, Release
  <1>3. running' \in {running, None}
    BY DEF Release
  <1>4. Holding'
    BY <1>1, <1>2, <1>3 DEF Claims, Holding, Busy
  <1>5. Left'
    <2>1. CASE running = t /\ current = t
      BY <2>1 DEF Release, Left
    <2>2. CASE running = t /\ current # t
      BY <1>2, <1>3, <2>2 DEF Claims, Holding, Left, Stamping, Release
    <2>3. CASE running # t
      BY <1>1, <1>2, <1>3, <2>3, Parts DEF Claims, Left, Busy, Release
    <2> QED BY <2>1, <2>2, <2>3
  <1>6. Bare'
    <2>1. ASSUME NEW u \in Task, Busy(u)' PROVE running' = u \/ Freed'
      <3>1. u # t /\ Busy(u)
        BY <2>1 DEF Busy
      <3> QED BY <1>2, <3>1, Parts DEF Claims, Bare
    <2> QED BY <2>1 DEF Bare
  <1> QED BY <1>2, <1>4, <1>5, <1>6, PartsNext DEF Claims

-----------------------------------------------------------------------------
(* Tasks *)

LEMMA AskedPlace == \A r \in TaskRecord : Asked(r).pc = r.pc
  BY DEF Asked, TaskRecord

(* One task moves, neither into a run nor out of one. *)
LEMMA GotoRuns ==
    ASSUME Typed, NEW t \in Task, NEW r, task' = [task EXCEPT ![t] = r],
           r.pc \in {"run", "again"} <=> Busy(t)
    PROVE  SameRuns
  BY DEF Typed, TypeOK, SameRuns, Busy

(* A task ends that is not in a run; the task that follows is new. *)
LEMMA EndedRuns ==
    ASSUME Typed, NEW t \in Task, ~Busy(t), NEW ts \in [Task -> TaskRecord],
           \A u \in Task : ts[u].pc \in {"run", "again"} <=> Busy(u),
           task'[t].pc \in Over,
           \A u \in Task \ {t} : task'[u] \in {ts[u], Asked(ts[u])}
    PROVE  SameRuns
  <1>1. \A u \in Task : Asked(ts[u]).pc = ts[u].pc
    BY AskedPlace
  <1> QED BY <1>1 DEF SameRuns, Busy, Over

LEMMA StartRootRuns ==
    ASSUME Typed, NEW t \in Task, NEW event, StartRoot(t, event) PROVE SameRuns
  <1>1. NewTask(event, t, TRUE).pc = "created" /\ ~Busy(t)
    BY DEF StartRoot, Fresh, NewTask, NoTask, Busy
  <1>2. task' = [task EXCEPT ![t] = NewTask(event, t, TRUE)]
    BY DEF StartRoot
  <1> QED BY <1>1, <1>2, GotoRuns

LEMMA DrainRuns ==
    ASSUME Typed, NEW o, Drain(o) PROVE SameRuns
  BY StartRootRuns DEF Drain, SameRuns, Busy

LEMMA TaskClaims ==
    ASSUME Typed, Claims, NEW t \in Task, TaskStep(t)
    PROVE  Claims'
  <1>0. TypeOK /\ task \in [Task -> TaskRecord] /\ task[t] \in TaskRecord
        /\ owner \in Task \cup {None}
    BY DEF Typed, TypeOK
  <1>1. /\ UNCHANGED <<command, prompt, stopped>> /\ (~BeginRun(t) => evicted' = evicted)
        /\ Outdated' = Outdated /\ (Freed => Freed') /\ Clearing'
    BY <1>0
      DEF Claims, Clearing, history, Freed, TaskStep, Start, BeginRun, Promote, BusyRun,
          RunEnd, RunSuperseded, RunFollows, NextTurn, Refuse, Reply, ReplyFails,
          Handoff, Finish, TakeCancel, Callback, RootStep, runner, Outdated
  <1>2. CASE \/ Start(t) \/ BusyRun(t) \/ RunFollows(t) \/ NextTurn(t)
             \/ Reply(t) \/ ReplyFails(t) \/ Callback(t)
    <2>1. SameRuns
      BY <1>0, <1>2
        DEF Start, BusyRun, RunFollows, NextTurn, Reply, ReplyFails, Callback, At,
            Goto, SameRuns, Busy, TaskRecord
    <2>2. running' = running /\ current' = current /\ stamped' = stamped
      BY <1>2 DEF Start, BusyRun, RunFollows, NextTurn, Reply, ReplyFails, Callback,
                  runner
    <2> QED BY <1>1, <2>1, <2>2, Stays
  <1>3. CASE BeginRun(t)
    <2>1. /\ running' = t /\ current' = t /\ (running = None \/ Freed')
          /\ task'[t].pc = "again"
          /\ \A u \in Task \ {t} : task'[u] = task[u]
      BY <1>0, <1>3 DEF BeginRun, TaskRecord, Freed
    <2>2. None \notin Task
      BY Apart
    <2>3. Bare'
      BY <1>1, <2>1, <2>2, Parts DEF Claims, Bare, Busy
    <2>4. Left' /\ Holding' /\ Stamping'
      BY <2>1, <2>2 DEF Left, Holding, Stamping, Busy
    <2> QED BY <1>1, <2>3, <2>4, PartsNext DEF Claims
  <1>4. CASE RunEnd(t) \/ RunSuperseded(t) \/ (Refuse(t) /\ Busy(t))
    <2>1. Busy(t) /\ Release(t) /\ current' = current
      BY <1>4 DEF RunEnd, RunSuperseded, Refuse, At, Busy
    <2>2. /\ task'[t].pc \in {"reply", "unwind"}
          /\ \A u \in Task \ {t} : task'[u] = task[u]
      BY <1>0, <1>4 DEF RunEnd, RunSuperseded, Refuse, TaskRecord
    <2>3. evicted' = evicted
      BY <1>4 DEF RunEnd, RunSuperseded, Refuse, history
    <2> QED BY <1>1, <2>1, <2>2, <2>3, Releases DEF Busy
  <1>10. CASE Refuse(t) /\ ~Busy(t)
    <2>1. /\ SameRuns
          /\ running' = running /\ current' = current /\ stamped' = stamped
      BY <1>0, <1>10 DEF Refuse, At, SameRuns, Busy, TaskRecord
    <2> QED BY <1>1, <2>1, Stays
  <1>5. CASE Handoff(t)
    <2>1. SameRuns
      <3> DEFINE c == IF task[t].cancel = "asked" THEN "taken" ELSE task[t].cancel
                 r == [task[t] EXCEPT !.pc = "unwind", !.next = None, !.cancel = c]
      <3>1. r.pc = "unwind" /\ \A u : [r EXCEPT !.succ = u].pc = "unwind"
        BY <1>0 DEF TaskRecord
      <3>2. ~Busy(t)
        BY <1>5 DEF Handoff, Busy
      <3>3. CASE task' = [task EXCEPT ![t] = r]
        BY <3>1, <3>2, <3>3, GotoRuns
      <3>4. ASSUME NEW u \in Task, Fresh(u),
                   task' = [task EXCEPT ![t] = [r EXCEPT !.succ = u],
                               ![u] = NewTask(task[t].next, task[t].guard, FALSE)]
            PROVE  SameRuns
        <4>1. NewTask(task[t].next, task[t].guard, FALSE).pc = "created" /\ ~Busy(u)
          BY <3>4 DEF NewTask, NoTask, Fresh, Busy
        <4> HIDE DEF r
        <4> QED BY <1>0, <3>1, <3>2, <3>4, <4>1 DEF SameRuns, Busy
      <3> QED BY <1>5, <3>3, <3>4 DEF Handoff
    <2> QED BY <1>1, <1>5, <2>1, Stays DEF Handoff, runner
  <1>6. CASE Finish(t)
    <2>1. ~Busy(t)
      BY <1>6 DEF Finish, At, Busy
    <2>2. ASSUME task' = Ended(t, task[t], owner', task) PROVE SameRuns
      BY <1>0, <2>1, <2>2, EndedFrame, EndedRuns DEF Busy
    <2>3. ASSUME NEW u \in Task, Fresh(u),
                 task' = Ended(t, [task[t] EXCEPT !.succ = u], u,
                       [task EXCEPT ![u] = NewTask(Slot, task[t].guard, FALSE)])
          PROVE  SameRuns
      <3> DEFINE r == [task[t] EXCEPT !.succ = u]
                 ts == [task EXCEPT ![u] = NewTask(Slot, task[t].guard, FALSE)]
      <3>1. r \in TaskRecord /\ Slot \in Waiting /\ task[t].guard \in Guards \cup {None}
        BY <1>0, SlotType DEF TaskRecord
      <3>2. NewTask(Slot, task[t].guard, FALSE).pc = "created" /\ ~Busy(u)
        BY <2>3 DEF NewTask, NoTask, Fresh, Busy
      <3>3. NewTask(Slot, task[t].guard, FALSE) \in TaskRecord
        BY <3>1, NoTaskType DEF NewTask, TaskRecord, Pcs
      <3>4. ts \in [Task -> TaskRecord]
            /\ \A v \in Task : ts[v].pc \in {"run", "again"} <=> Busy(v)
        BY <1>0, <3>2, <3>3 DEF Busy
      <3>5. task' = Ended(t, r, u, ts)
        BY <2>3
      <3> HIDE DEF r, ts
      <3> QED BY <2>1, <3>1, <3>4, <3>5, EndedFrame, EndedRuns
    <2>4. SameRuns
      BY <1>6, <2>2, <2>3 DEF Finish
    <2> QED BY <1>1, <1>6, <2>4, Stays DEF Finish, runner
  <1>7. CASE TakeCancel(t)
    <2> DEFINE r == [task[t] EXCEPT !.cancel = "taken", !.raised = TRUE]
               w == [r EXCEPT !.pc = "unwind", !.event = None, !.next = None,
                              !.depth = 0]
               x == [task[t] EXCEPT !.cancel = "taken"]
    <2>1. /\ r \in TaskRecord /\ w.pc = "unwind" /\ x.pc = task[t].pc
      BY <1>0 DEF TaskRecord
    <2>2. Exit(t, r, owner).pc \in {"exited", "done"}
      BY DEF Exit, NoTask
    <2>3. CASE Busy(t)
      <3>1. task' = [task EXCEPT ![t] = w] /\ Release(t) /\ current' = current
            /\ evicted' = evicted
        BY <1>7, <2>3 DEF TakeCancel, Busy
      <3> HIDE DEF w
      <3>2. task'[t].pc = "unwind" /\ \A u \in Task \ {t} : task'[u] = task[u]
        BY <1>0, <2>1, <3>1
      <3> QED BY <1>1, <2>3, <3>1, <3>2, Releases DEF Busy
    <2>4. CASE ~Busy(t)
      <3>1. /\ running' = running /\ current' = current /\ stamped' = stamped
            /\ \/ task' = [task EXCEPT ![t] = Exit(t, r, owner)]
               \/ task' = [task EXCEPT ![t] = w]
               \/ task' = [task EXCEPT ![t] = x]
               \/ task' = Ended(t, r, owner, task)
        BY <1>7, <2>4 DEF TakeCancel, Busy
      <3> HIDE DEF r, w, x
      <3>2. ASSUME task' = Ended(t, r, owner, task) PROVE SameRuns
        <4>1. r \in TaskRecord /\ \A u \in Task : task[u].pc \in {"run", "again"} <=> Busy(u)
          BY <2>1 DEF Busy
        <4>2. /\ task'[t].pc \in Over
              /\ \A u \in Task \ {t} : task'[u] \in {task[u], Asked(task[u])}
          BY <1>0, <3>2, <4>1, EndedFrame
        <4> QED BY <1>0, <2>4, <4>1, <4>2, EndedRuns DEF Busy
      <3>3. ASSUME \/ task' = [task EXCEPT ![t] = Exit(t, r, owner)]
                   \/ task' = [task EXCEPT ![t] = w]
                   \/ task' = [task EXCEPT ![t] = x]
            PROVE  SameRuns
        <4>1. PICK s \in {Exit(t, r, owner), w, x} : task' = [task EXCEPT ![t] = s]
          BY <3>3
        <4>2. s.pc \in {"run", "again"} <=> Busy(t)
          BY <2>1, <2>2, <2>4 DEF Busy
        <4> QED BY <4>1, <4>2, GotoRuns DEF Busy
      <3> QED BY <1>1, <3>1, <3>2, <3>3, Stays
    <2> QED BY <2>3, <2>4
  <1>8. CASE RootStep(t)
    <2> DEFINE cur == task[task[t].cur]
    <2>1. /\ cur \in TaskRecord
          /\ task' = Follow(t, task[t], cur.succ,
                            task[t].pc = "reap" \/ cur.raised, owner, task)
      BY <1>0, <1>8 DEF RootStep, Typed, Carry
    <2>2. cur.succ \in Task \cup {None} /\ (task[t].pc = "reap" \/ cur.raised) \in BOOLEAN
      BY <2>1 DEF TaskRecord
    <2>3. ~Busy(t)
      BY <1>8 DEF RootStep, Busy
    <2> HIDE DEF cur
    <2>4. SameRuns
      BY <1>0, <2>1, <2>2, <2>3, FollowFrame, EndedRuns DEF Busy
    <2> QED BY <1>1, <1>8, <2>4, Stays DEF RootStep, runner
  <1>9. CASE Promote(t)
    <2>1. /\ Busy(t) /\ current = t /\ current' = t /\ running' = t /\ running # t
          /\ task' = task /\ stamped' = stamped
      BY <1>9 DEF Promote, Busy
    <2>2. Freed'
      BY <1>1, <2>1, Parts DEF Claims, Bare
    <2>3. Bare' /\ Left' /\ Holding' /\ Stamping'
      BY <2>1, <2>2, Apart DEF Bare, Left, Holding, Stamping, Busy
    <2> QED BY <1>1, <2>3, PartsNext DEF Claims
  <1> QED BY <1>2, <1>3, <1>4, <1>5, <1>6, <1>7, <1>8, <1>9, <1>10 DEF TaskStep

-----------------------------------------------------------------------------
(* Messages and commands *)

LEMMA OtherClaims ==
    ASSUME Typed, Claims,
           \/ Flush \/ Evict \/ AskReset \/ ConfirmReset \/ UNCHANGED vars
           \/ \E m \in Messages : Arrive(m)
    PROVE  Claims'
  <1>1. CASE Flush \/ AskReset \/ UNCHANGED vars
    <2>1. /\ SameRuns /\ (Outdated => Outdated') /\ Freed' = Freed /\ Clearing'
          /\ running' = running /\ current' = current /\ stamped' = stamped
      BY <1>1 DEF Flush, AskReset, vars, runner, slots, history, SameRuns, Busy,
                  Outdated, Freed, Claims, Clearing
    <2> QED BY <2>1, Stays
  <1>2. CASE ConfirmReset
    <2>1. /\ SameRuns /\ Outdated' /\ Freed' = Freed /\ Clearing'
          /\ running' = running /\ current' = None /\ stamped' = stamped
      BY <1>2 DEF ConfirmReset, SameRuns, Busy, Outdated, Freed, Claims, Clearing
    <2> QED BY <2>1, Outdates
  <1>4. CASE Evict
    <2>1. /\ SameRuns /\ Freed' /\ Clearing'
          /\ running' = None /\ current' = None /\ stamped' = FALSE
      BY <1>4 DEF Evict, EvictStale, SameRuns, Busy, Freed, Claims, Clearing
    <2> QED BY <2>1, Outdates
  <1>3. ASSUME NEW m \in Messages, Arrive(m) PROVE Claims'
    <2>1. SameRuns
      BY <1>3, StartRootRuns
        DEF Arrive, ArriveFree, ArriveMedia, ArriveText, SameRuns, Busy
    <2>2. UNCHANGED <<running, current, stamped, prompt, command, stopped, evicted>>
      BY <1>3 DEF Arrive, ArriveFree, ArriveMedia, ArriveText, Arrival, runner
    <2> QED BY <2>1, <2>2, Stays DEF Outdated, Freed, Claims, Clearing
  <1> QED BY <1>1, <1>2, <1>3, <1>4

LEMMA CommandClaims ==
    ASSUME Typed, Claims, NEW c \in Commands, CommandArrive(c) \/ CommandStep(c)
    PROVE  Claims'
  <1>0. TypeOK
    BY DEF Typed
  <1>1. command'[c] # "unsent"
    BY <1>0 DEF CommandArrive, CommandStep, CommandHandle, CommandClear, CommandReset,
            CommandCancel, CommandDrain, CommandYield, CommandFail, Stage, TypeOK
  <1>2. Outdated'
    BY <1>1 DEF Outdated
  <1>3. current' \in {current, None}
    BY DEF CommandArrive, CommandStep, CommandHandle, CommandClear, CommandReset,
           CommandCancel, CommandDrain, CommandYield, CommandFail, Reset, EvictStale,
           runner
  <1>4. /\ \A d \in Commands \ {c} : command'[d] = command[d]
        /\ command[c] \in {"replying", "waiting", "done"}
             => command'[c] \in {"replying", "waiting", "done"}
    BY <1>0
      DEF CommandArrive, CommandStep, CommandHandle, CommandClear, CommandReset,
          CommandCancel, CommandDrain, CommandYield, CommandFail, Stage, TypeOK
  <1>5. CASE CommandHandle(c) /\ EvictStale
    <2>1. running' = None /\ stamped' = FALSE /\ Freed' /\ stopped' = stopped
      BY <1>0, <1>5 DEF CommandHandle, EvictStale, Freed, TypeOK
    <2>2. command'[c] # "clearing"
      BY <1>0, <1>5 DEF CommandHandle, EvictStale, Evictable, Stage, TypeOK
    <2>3. SameRuns
      BY <1>5 DEF CommandHandle, SameRuns, Busy
    <2> QED BY <1>2, <1>3, <1>4, <2>1, <2>2, <2>3, Outdates DEF Claims, Clearing
  <1>6. CASE ~(CommandHandle(c) /\ EvictStale)
    <2>1. /\ evicted' = evicted /\ (stopped # {} => stopped' # {})
          /\ command'[c] = "clearing" => stopped' # {}
      BY <1>0, <1>6
        DEF CommandArrive, CommandStep, CommandHandle, CommandClear, CommandReset,
            CommandCancel, CommandDrain, CommandYield, CommandFail, Stage, TypeOK,
            history
    <2>2. \/ running' = running /\ stamped' = stamped
          \/ /\ running' = None /\ stamped' = FALSE
             /\ command[c] = "clearing" /\ command'[c] = "replying"
      BY <1>0, <1>6
        DEF CommandArrive, CommandStep, CommandHandle, CommandClear, CommandReset,
            CommandCancel, CommandDrain, CommandYield, CommandFail, Stage, TypeOK,
            runner
    <2>3. Clearing' /\ (Freed => Freed')
      BY <1>4, <2>1, <2>2 DEF Claims, Clearing, Freed
    <2>4. command[c] = "clearing" /\ command'[c] = "replying" => Freed'
      BY <1>4, <2>1, <2>2 DEF Freed, Claims, Clearing
    <2>5. SameRuns
      <3>1. CASE \/ CommandArrive(c) \/ CommandHandle(c) \/ CommandClear(c)
                 \/ CommandReset(c) \/ CommandYield(c)
        BY <3>1 DEF CommandArrive, CommandHandle, CommandClear, CommandReset,
                    CommandYield, SameRuns, Busy
      <3>2. CASE CommandCancel(c)
        <4>1. ASSUME LiveOwner, task' = [task EXCEPT ![owner] = Asked(@)]
              PROVE  SameRuns
          <5>1. owner \in Task /\ Asked(task[owner]).pc = task[owner].pc
                /\ task' = [task EXCEPT ![owner] = Asked(task[owner])]
            BY <1>0, <4>1, AskedPlace DEF LiveOwner, TypeOK
          <5> QED BY <5>1, GotoRuns DEF Busy
        <4> QED BY <3>2, <4>1, DrainRuns DEF CommandCancel
      <3>3. CASE CommandDrain(c) \/ CommandFail(c)
        BY <3>3, DrainRuns DEF CommandDrain, CommandFail, SameRuns, Busy
      <3> QED BY <3>1, <3>2, <3>3 DEF CommandStep
    <2> QED BY <1>2, <1>3, <2>2, <2>3, <2>4, <2>5, Outdates
  <1> QED BY <1>5, <1>6

LEMMA InitClaims == Init => Claims
  BY DEF Init, NoTask, Claims, Holding, Stamping, Busy, ClaimExplained, Clearing

LEMMA ClaimsHold == Spec => [](Typed /\ Claims)
  <1>1. Init => Typed /\ Claims
    BY InitTyped, InitClaims
  <1>2. Typed /\ Claims /\ [Next]_vars => (Typed /\ Claims)'
    BY NextTyped, TaskClaims, OtherClaims, CommandClaims DEF Next
  <1> QED BY <1>1, <1>2, PTL DEF Spec

(* The claim of a run ends with it and not before, however runs, follow-ups,*)
(* commands, refusals and cancellations fall together, unless a command or a*)
(* reset that was confirmed late outdated the run, a command took the claim,*)
(* or it was evicted; and no eviction finds the claim of a run that ended.  *)
THEOREM ClaimEnds == Spec => []ClaimExplained
  <1>1. Claims => ClaimExplained
    BY DEF Claims
  <1> QED BY <1>1, ClaimsHold, PTL

-----------------------------------------------------------------------------
(* The loss of a message *)

Exposure == (Disturbed => arrived \subseteq exposed) /\ LossExplained

(* What is known of a session that nothing disturbs. *)
Calm ==
    /\ foreign = {} /\ Lock
    /\ active \notin Commands
    /\ \A c \in Commands : ~InFlight(c)
    /\ \A t \in Task :
          /\ task[t].cancel # "asked"
          /\ Busy(t) => current = t
          /\ task[t].pc \in {"created", "hook", "run", "again", "reply", "handoff"}
               => owner = t /\ active # None
    /\ running # None => running \in Task /\ Busy(running)

LEMMA Undisturbed ==
    ASSUME Inv, ~Disturbed PROVE Calm
  <1>1. /\ foreign = {} /\ Lock /\ TypeOK
        /\ \A c \in Commands : ~InFlight(c)
        /\ \A t \in Task : task[t].cancel # "asked" /\ (Busy(t) => current = t)
    BY DEF Inv, Typed, Disturbed, Busy
  <1>2. active \notin Commands
    BY <1>1 DEF Lock, Installed
  <1>3. ASSUME NEW t \in Task,
               task[t].pc \in {"created", "hook", "run", "again", "reply", "handoff"}
        PROVE  owner = t /\ active # None
    <2>1. task[t].cancel # "taken"
      BY <1>1, <1>3 DEF Lock, Ends
    <2>2. task[t].cancel = "no"
      BY <1>1, <2>1 DEF TypeOK, TaskRecord
    <2> QED BY <1>1, <1>3, <2>2 DEF Lock, Single, Live
  <1>4. running # None => running \in Task /\ Busy(running)
    BY <1>1 DEF Disturbed, Leaked, TypeOK, Busy
  <1> QED BY <1>1, <1>2, <1>3, <1>4 DEF Calm

LEMMA StaysCalm ==
    ASSUME Calm, UNCHANGED <<command, foreign>>,
           \A t \in Task : /\ task'[t].cancel # "asked"
                           /\ task'[t].pc \in {"run", "again"} => current' = t,
           running' # None
             => running' \in Task /\ task'[running'].pc \in {"run", "again"}
    PROVE  ~Disturbed'
  BY DEF Calm, Disturbed, Leaked, InFlight

(* The claim stays where it is as long as no run begins or ends. *)
LEMMA SameCalm ==
    ASSUME Calm, UNCHANGED <<command, foreign, running, current>>, SameRuns,
           \A t \in Task : task'[t].cancel # "asked"
    PROVE  ~Disturbed'
  <1>1. \A t \in Task : task'[t].pc \in {"run", "again"} => current' = t
    BY DEF Calm, SameRuns
  <1>2. running' # None
          => running' \in Task /\ task'[running'].pc \in {"run", "again"}
    BY DEF Calm, SameRuns
  <1> QED BY <1>1, <1>2, StaysCalm

(* One task moves and is not cancelled. *)
LEMMA MoveCalm ==
    ASSUME Typed, Calm, NEW t \in Task, NEW r, task' = [task EXCEPT ![t] = r],
           r.cancel # "asked", r.pc \in {"run", "again"} <=> Busy(t),
           UNCHANGED <<command, foreign, running, current>>
    PROVE  ~Disturbed'
  <1>1. SameRuns
    BY GotoRuns
  <1>2. \A u \in Task : task'[u].cancel # "asked"
    BY DEF Typed, TypeOK, Calm
  <1> QED BY <1>1, <1>2, SameCalm

LEMMA RootCalm ==
    ASSUME Typed, Calm, NEW t \in Task, NEW event, StartRoot(t, event),
           UNCHANGED <<command, foreign, running, current>>
    PROVE  ~Disturbed'
  <1>1. NewTask(event, t, TRUE).pc = "created" /\ NewTask(event, t, TRUE).cancel = "no"
    BY DEF NewTask, NoTask
  <1>2. ~Busy(t) /\ task' = [task EXCEPT ![t] = NewTask(event, t, TRUE)]
    BY DEF StartRoot, Fresh, Busy
  <1> QED BY <1>1, <1>2, MoveCalm

-----------------------------------------------------------------------------
(* Tasks *)

LEMMA RunCalm ==
    ASSUME Typed, Calm, NEW t \in Task,
           \/ Start(t) \/ BeginRun(t) \/ Promote(t) \/ BusyRun(t) \/ RunEnd(t)
           \/ RunSuperseded(t) \/ RunFollows(t) \/ NextTurn(t) \/ Refuse(t)
    PROVE  ~Disturbed' /\ UNCHANGED <<arrived, exposed>>
           /\ (Refuse(t) \/ lost' = lost)
  <1>0. TypeOK /\ task[t] \in TaskRecord /\ None \notin Task /\ task[t].cancel # "asked"
    BY Apart DEF Typed, TypeOK, Calm
  <1>1. CASE Start(t)
    <2>1. owner = t /\ active # None /\ active \in Task /\ active = task[t].made
      BY <1>0, <1>1 DEF Start, At, Calm, Lock, Installed
    <2>2. foreign' = foreign
      BY <1>1, <2>1 DEF Start
    <2> DEFINE r == [task[t] EXCEPT !.pc = "hook", !.guard = active']
    <2>3. /\ task' = [task EXCEPT ![t] = r] /\ r.cancel # "asked"
          /\ r.pc = "hook" /\ ~Busy(t)
      BY <1>0, <1>1 DEF Start, At, Busy, TypeOK, TaskRecord
    <2> HIDE DEF r
    <2>4. UNCHANGED <<command, foreign, running, current, arrived, lost, exposed>>
      BY <1>1, <2>2 DEF Start, runner
    <2> QED BY <2>3, <2>4, MoveCalm
  <1>2. CASE BeginRun(t)
    <2> DEFINE r == [task[t] EXCEPT !.pc = "again", !.event = None,
                                    !.next = task[t].event]
    <2>1. /\ task' = [task EXCEPT ![t] = r] /\ r.cancel # "asked" /\ r.pc = "again"
      BY <1>0, <1>2 DEF BeginRun, TypeOK, TaskRecord
    <2> HIDE DEF r
    <2>5. owner = t /\ ~Busy(t)
      BY <1>2 DEF BeginRun, At, Calm, Busy
    <2>6. running = None
      BY <2>5 DEF Calm, Busy
    <2>2. /\ running' = t /\ current' = t
          /\ UNCHANGED <<command, foreign, arrived, lost, exposed>>
      BY <1>2, <2>6 DEF BeginRun, Evictable
    <2>3. ASSUME NEW u \in Task
          PROVE  /\ task'[u].cancel # "asked"
                 /\ task'[u].pc \in {"run", "again"} => current' = u
      BY <1>0, <2>1, <2>2, <2>5 DEF Calm, Busy, TypeOK
    <2>4. task'[t].pc = "again"
      BY <1>0, <2>1 DEF TypeOK
    <2> QED BY <2>2, <2>3, <2>4, StaysCalm
  <1>3. CASE BusyRun(t)
    <2>1. owner = t /\ running \in Task /\ Busy(running) /\ ~Busy(t)
      BY <1>3 DEF BusyRun, At, Calm, Busy
    <2>2. owner = running
      BY <2>1 DEF Calm, Busy
    <2> QED BY <2>1, <2>2
  <1>4. CASE RunEnd(t) \/ (Refuse(t) /\ Busy(t))
    <2>1. Busy(t) /\ owner = t /\ current = t
      BY <1>4 DEF RunEnd, At, Busy, Calm
    <2>2. running # None => running = t
      BY <2>1 DEF Calm, Busy
    <2>3. running' = None
      BY <1>0, <1>4, <2>1, <2>2 DEF RunEnd, Refuse, At, Release, Busy
    <2>4. /\ \A u \in Task \ {t} : task'[u] = task[u]
          /\ task'[t].cancel = task[t].cancel /\ task'[t].pc \in {"reply", "unwind"}
      BY <1>0, <1>4 DEF RunEnd, Refuse, TypeOK, TaskRecord
    <2>5. ASSUME NEW u \in Task
          PROVE  /\ task'[u].cancel # "asked"
                 /\ task'[u].pc \in {"run", "again"} => current = u
      BY <1>0, <2>4 DEF Calm, Busy
    <2>6. /\ UNCHANGED <<command, foreign, arrived, exposed>> /\ current' = current
          /\ Refuse(t) \/ lost' = lost
      BY <1>4 DEF RunEnd, Refuse, history
    <2> QED BY <2>3, <2>5, <2>6, StaysCalm
  <1>9. CASE Refuse(t) /\ ~Busy(t)
    <2>1. PICK pc \in {"reply", "unwind"} :
            task' = [task EXCEPT ![t].pc = pc, ![t].event = None, ![t].next = None,
                                 ![t].depth = 0]
      BY <1>9 DEF Refuse
    <2> DEFINE r == [task[t] EXCEPT !.pc = pc, !.event = None, !.next = None,
                                    !.depth = 0]
    <2>2. task' = [task EXCEPT ![t] = r] /\ r.cancel # "asked" /\ r.pc = pc
      BY <1>0, <2>1 DEF TypeOK, TaskRecord
    <2>3. UNCHANGED <<command, foreign, running, current, arrived, exposed>>
      BY <1>9 DEF Refuse, At, Busy
    <2> HIDE DEF r
    <2> QED BY <1>9, <2>1, <2>2, <2>3, MoveCalm
  <1>5. CASE RunSuperseded(t)
    BY <1>5 DEF RunSuperseded, At, Calm, Busy
  <1>6. CASE RunFollows(t)
    <2> DEFINE r == [task[t] EXCEPT !.pc = "again", !.next = pending, !.depth = @ + 1]
    <2>1. /\ task' = [task EXCEPT ![t] = r] /\ r.cancel # "asked"
          /\ r.pc = "again" /\ Busy(t)
      BY <1>0, <1>6 DEF RunFollows, At, Busy, TypeOK, TaskRecord
    <2> HIDE DEF r
    <2> QED BY <1>6, <2>1, MoveCalm DEF RunFollows, runner, history
  <1>7. CASE NextTurn(t)
    <2> DEFINE r == [task[t] EXCEPT !.pc = "run", !.next = None]
    <2>1. /\ task' = [task EXCEPT ![t] = r] /\ r.cancel # "asked"
          /\ r.pc = "run" /\ Busy(t)
      BY <1>0, <1>7 DEF NextTurn, At, Busy, TypeOK, TaskRecord
    <2> HIDE DEF r
    <2> QED BY <1>7, <2>1, MoveCalm DEF NextTurn, runner
  <1>8. CASE Promote(t)
    <2>1. /\ Busy(t) /\ running' = t /\ current' = current /\ task' = task
          /\ UNCHANGED <<command, foreign, arrived, lost, exposed>>
      BY <1>8 DEF Promote, Busy, history
    <2>2. ASSUME NEW u \in Task
          PROVE  /\ task'[u].cancel # "asked"
                 /\ task'[u].pc \in {"run", "again"} => current' = u
      BY <2>1 DEF Calm, Busy
    <2> QED BY <2>1, <2>2, StaysCalm DEF Busy
  <1> QED BY <1>1, <1>2, <1>3, <1>4, <1>5, <1>6, <1>7, <1>8, <1>9

(* A processing ends: as it was not cancelled, or has no successor, it      *)
(* cancels nothing.                                                         *)
LEMMA EndCalm ==
    ASSUME Typed, Calm, NEW t \in Task, ~Busy(t), NEW r \in TaskRecord, NEW o,
           NEW ts \in [Task -> TaskRecord],
           \A u \in Task : /\ ts[u].cancel # "asked"
                           /\ ts[u].pc \in {"run", "again"} <=> Busy(u),
           r.raised \/ r.cancel # "no" => r.succ = None,
           task' = Ended(t, r, o, ts),
           UNCHANGED <<command, foreign, running, current>>
    PROVE  ~Disturbed'
  <1>1. /\ task'[t].cancel = "no"
        /\ task'[t].pc \in {"exited", "done", "await"}
        /\ \A u \in Task \ {t} : task'[u] = ts[u]
    BY EndedQuiet
  <1>2. SameRuns /\ \A u \in Task : task'[u].cancel # "asked"
    BY <1>1 DEF SameRuns, Busy
  <1> QED BY <1>2, SameCalm

LEMMA LeaveCalm ==
    ASSUME Typed, Calm, NEW t \in Task,
           \/ Reply(t) \/ ReplyFails(t) \/ Handoff(t) \/ Finish(t)
           \/ TakeCancel(t) \/ Callback(t) \/ RootStep(t)
    PROVE  ~Disturbed' /\ UNCHANGED <<arrived, lost, exposed>>
  <1>0. /\ TypeOK /\ task[t] \in TaskRecord /\ task \in [Task -> TaskRecord]
        /\ task[t].cancel # "asked"
    BY DEF Typed, TypeOK, Calm
  <1>1. UNCHANGED <<command, foreign, running, current, arrived, lost, exposed>>
    BY <1>0 DEF Reply, ReplyFails, Handoff, Finish, TakeCancel, Callback, RootStep,
                runner, history
  <1>2. CASE Reply(t) \/ ReplyFails(t) \/ Callback(t)
    <2>1. ~Busy(t)
      BY <1>2 DEF Reply, ReplyFails, Callback, At, Busy
    <2> DEFINE h == [task[t] EXCEPT !.pc = "handoff", !.next = Slot]
               g(pc) == [task[t] EXCEPT !.pc = pc]
    <2>2. /\ h.cancel # "asked" /\ h.pc = "handoff"
          /\ \A pc : g(pc).cancel # "asked" /\ g(pc).pc = pc
      BY <1>0 DEF TaskRecord
    <2>3. \/ task' = [task EXCEPT ![t] = h]
          \/ \E pc \in {"unwind", "done"} : task' = [task EXCEPT ![t] = g(pc)]
      BY <1>0, <1>2 DEF Reply, ReplyFails, Callback, Goto
    <2> HIDE DEF h, g
    <2> QED BY <1>1, <2>1, <2>2, <2>3, MoveCalm
  <1>3. CASE Handoff(t)
    <2> DEFINE c == IF task[t].cancel = "asked" THEN "taken" ELSE task[t].cancel
               r == [task[t] EXCEPT !.pc = "unwind", !.next = None, !.cancel = c]
    <2>1. /\ r.pc = "unwind" /\ r.cancel # "asked" /\ ~Busy(t)
          /\ \A u : [r EXCEPT !.succ = u].pc = "unwind"
                    /\ [r EXCEPT !.succ = u].cancel # "asked"
      BY <1>0, <1>3 DEF Handoff, TaskRecord, Busy
    <2>2. CASE task' = [task EXCEPT ![t] = r]
      BY <1>1, <2>1, <2>2, MoveCalm
    <2>3. ASSUME NEW u \in Task, Fresh(u),
                 task' = [task EXCEPT ![t] = [r EXCEPT !.succ = u],
                             ![u] = NewTask(task[t].next, task[t].guard, FALSE)]
          PROVE  ~Disturbed'
      <3>1. /\ NewTask(task[t].next, task[t].guard, FALSE).pc = "created"
            /\ NewTask(task[t].next, task[t].guard, FALSE).cancel = "no"
            /\ ~Busy(u)
        BY <2>3 DEF NewTask, NoTask, Fresh, Busy
      <3> HIDE DEF r
      <3>2. SameRuns
        BY <1>0, <2>1, <2>3, <3>1 DEF SameRuns, Busy
      <3>3. \A v \in Task : task'[v].cancel # "asked"
        BY <1>0, <2>1, <2>3, <3>1 DEF Calm
      <3> QED BY <1>1, <3>2, <3>3, SameCalm
    <2> QED BY <1>1, <1>3, <2>2, <2>3 DEF Handoff
  <1>4. CASE Finish(t)
    <2>1. /\ task[t].pc = "unwind" /\ ~Busy(t) /\ task[t].guard = task[t].made
          /\ task[t].raised \/ task[t].cancel # "no" => task[t].succ = None
          /\ task[t].raised => task[t].cancel = "taken"
      BY <1>4 DEF Finish, At, Busy, Calm, Lock, Ends, Makers, Alive, Running
    <2>2. ASSUME task' = Ended(t, task[t], owner', task) PROVE ~Disturbed'
      BY <1>0, <1>1, <2>1, <2>2, EndCalm DEF Calm, Busy
    <2>3. ASSUME active = task[t].guard, NEW u \in Task, Fresh(u),
                 task' = Ended(t, [task[t] EXCEPT !.succ = u], u,
                       [task EXCEPT ![u] = NewTask(Slot, task[t].guard, FALSE)])
          PROVE  ~Disturbed'
      <3> DEFINE r == [task[t] EXCEPT !.succ = u]
                 ts == [task EXCEPT ![u] = NewTask(Slot, task[t].guard, FALSE)]
      <3>1. ~task[t].raised /\ task[t].cancel = "no"
        BY <2>1, <2>3 DEF Calm, Lock, Cut
      <3>2. r \in TaskRecord /\ r.raised = task[t].raised /\ r.cancel = task[t].cancel
        BY <1>0 DEF TaskRecord
      <3>3. Slot \in Waiting /\ task[t].guard \in Guards \cup {None}
        BY <1>0, SlotType DEF TaskRecord
      <3>4. /\ NewTask(Slot, task[t].guard, FALSE).pc = "created" /\ ~Busy(u)
            /\ NewTask(Slot, task[t].guard, FALSE).cancel = "no"
        BY <2>3 DEF NewTask, NoTask, Fresh, Busy
      <3>5. NewTask(Slot, task[t].guard, FALSE) \in TaskRecord
        BY <3>3, NoTaskType DEF NewTask, TaskRecord, Pcs
      <3>6. /\ ts \in [Task -> TaskRecord]
            /\ \A v \in Task : /\ ts[v].cancel # "asked"
                               /\ ts[v].pc \in {"run", "again"} <=> Busy(v)
        BY <1>0, <3>4, <3>5 DEF Busy, Calm
      <3>7. task' = Ended(t, r, u, ts)
        BY <2>3
      <3> HIDE DEF r, ts
      <3> QED BY <1>1, <2>1, <3>1, <3>2, <3>6, <3>7, EndCalm
    <2> QED BY <1>1, <1>4, <2>2, <2>3 DEF Finish
  <1>5. CASE TakeCancel(t)
    BY <1>0, <1>5 DEF TakeCancel
  <1>6. CASE RootStep(t)
    <2> DEFINE cur == task[task[t].cur]
    <2>1. /\ cur \in TaskRecord /\ task[t].pc = "await"
          /\ task' = Follow(t, task[t], cur.succ,
                            task[t].pc = "reap" \/ cur.raised, owner, task)
      BY <1>0, <1>6 DEF RootStep, Typed, Carry, Calm, Lock, Ends
    <2>2. cur.raised => cur.succ = None
      BY <1>0, <1>6 DEF RootStep, Typed, Carry, Calm, Lock, Ends
    <2>3. cur.succ \in Task \cup {None} /\ (task[t].pc = "reap" \/ cur.raised) \in BOOLEAN
      BY <2>1 DEF TaskRecord
    <2>4. task'[t].cancel # "asked"
      <3> DEFINE w == [task[t] EXCEPT !.pc = IF task[t].pc = "reap" \/ cur.raised
                                             THEN "reap" ELSE "await", !.cur = cur.succ]
      <3>1. w.cancel = task[t].cancel /\ Exit(t, task[t], owner).cancel = "no"
        BY <1>0 DEF TaskRecord, Exit, NoTask
      <3>2. task'[t] = IF cur.succ = None THEN Exit(t, task[t], owner) ELSE w
        BY <2>1 DEF Follow
      <3> HIDE DEF w
      <3> QED BY <1>0, <3>1, <3>2
    <2>5. ASSUME NEW u \in Task \ {t} PROVE task'[u] = task[u]
      <3>1. ~(u = cur.succ /\ cur.raised) /\ task[t].pc # "reap"
        BY <2>1, <2>2, Apart
      <3>2. task'[u] = IF u = cur.succ /\ (task[t].pc = "reap" \/ cur.raised) /\ ~Done(u)
                       THEN Asked(task[u]) ELSE task[u]
        BY <2>1 DEF Follow
      <3> HIDE DEF cur
      <3> QED BY <3>1, <3>2
    <2>6. task'[t].pc \in Over
      BY <1>0, <2>1, <2>3, FollowFrame
    <2> HIDE DEF cur
    <2>7. SameRuns
      BY <2>1, <2>5, <2>6 DEF SameRuns, Busy, Over
    <2>8. \A u \in Task : task'[u].cancel # "asked"
      BY <2>4, <2>5 DEF Calm
    <2> QED BY <1>1, <2>7, <2>8, SameCalm
  <1> QED BY <1>2, <1>3, <1>4, <1>5, <1>6

-----------------------------------------------------------------------------
(* Messages and commands *)

(* A message that comes to a calm session is queued, starts a turn, or      *)
(* finds no room.                                                           *)
LEMMA ArriveCalm ==
    ASSUME Typed, Calm, NEW m \in Messages, Arrive(m)
    PROVE  /\ ~Disturbed'
           /\ UNCHANGED lost \/ Drop({m}, "crowded")
           /\ exposed \subseteq exposed'
  <1>1. PICK s \in Senders : ArriveFree(m, s) \/ ArriveMedia(m, s) \/ ArriveText(m, s)
    BY GuardAssumption DEF Arrive
  <1>2. /\ UNCHANGED <<command, foreign, running, current>>
        /\ exposed \subseteq exposed'
    BY <1>1 DEF ArriveFree, ArriveMedia, ArriveText, Arrival, runner
  <1>3. ~Stale
    BY DEF Stale, Done, Calm, Lock, Owned, Alive, Running
  <1>4. CASE ArriveFree(m, s)
    <2>1. lost' = lost
      BY <1>3, <1>4 DEF ArriveFree
    <2>2. ~Disturbed'
      BY <1>2, <1>4, RootCalm DEF ArriveFree
    <2> QED BY <1>2, <2>1, <2>2
  <1>5. CASE ArriveMedia(m, s) \/ ArriveText(m, s)
    <2>1. task' = task /\ (UNCHANGED lost \/ Drop({m}, "crowded"))
      BY <1>5 DEF ArriveMedia, ArriveText
    <2>2. SameRuns /\ \A t \in Task : task'[t].cancel # "asked"
      BY <2>1 DEF SameRuns, Busy, Calm
    <2> QED BY <1>2, <2>1, <2>2, SameCalm
  <1> QED BY <1>1, <1>4, <1>5

(* While something disturbs the session, all that came is exposed: what     *)
(* waits, and so what a step drops.                                         *)
LEMMA DisturbedStep ==
    ASSUME Inv, Inv', Sorted, Sorted', Exposure, Disturbed, [Next]_vars
    PROVE  Exposure'
  <1>1. arrived' \subseteq exposed' /\ exposed \subseteq exposed'
    <2>1. ASSUME NEW t \in Task, TaskStep(t)
          PROVE  arrived' = arrived /\ exposed \subseteq exposed'
      BY <2>1
        DEF TaskStep, Start, BeginRun, Promote, BusyRun, RunEnd, RunSuperseded,
            RunFollows, NextTurn, Refuse, Reply, ReplyFails, Handoff, Finish,
            TakeCancel, Callback, RootStep, Expose, history
    <2>2. ASSUME NEW c \in Commands, CommandArrive(c) \/ CommandStep(c)
          PROVE  arrived' = arrived /\ exposed \subseteq exposed'
      BY <2>2
        DEF CommandArrive, Expose, CommandStep, CommandHandle, CommandClear,
            CommandReset, CommandCancel, CommandDrain, CommandYield, CommandFail,
            history
    <2>3. ASSUME NEW m \in Messages, Arrive(m)
          PROVE  /\ arrived' = arrived \cup {m} /\ exposed' = exposed \cup {m}
      BY <2>3 DEF Arrive, ArriveFree, ArriveMedia, ArriveText, Arrival
    <2>4. ASSUME Flush \/ Evict \/ AskReset \/ ConfirmReset \/ UNCHANGED vars
          PROVE  arrived' = arrived /\ exposed \subseteq exposed'
      BY <2>4 DEF Flush, Evict, AskReset, ConfirmReset, Expose, history, vars
    <2> QED BY <2>1, <2>2, <2>3, <2>4 DEF Exposure, Next
  <1>2. ASSUME NEW m \in Messages
        PROVE  lost'[m] \in {"no", "crowded", "refused"} \/ m \in exposed'
    <2>1. lost'[m] # "no" => m \in arrived'
      BY DEF Sorted, Sums
    <2> QED BY <1>1, <2>1
  <1> QED BY <1>1, <1>2 DEF Exposure, LossExplained

(* A command that comes, a reset that is confirmed and an eviction expose   *)
(* what came.                                                               *)
LEMMA Exposes ==
    ASSUME Inv, Inv', Sorted', Exposure,
           Evict \/ ConfirmReset \/ \E c \in Commands : CommandArrive(c)
    PROVE  Exposure'
  <1>1. arrived' \subseteq exposed'
    BY DEF Evict, ConfirmReset, CommandArrive, Expose
  <1>2. \A m \in Messages : lost'[m] # "no" => m \in arrived'
    BY DEF Sorted, Sums
  <1> QED BY <1>1, <1>2 DEF Exposure, LossExplained

LEMMA CalmStep ==
    ASSUME Inv, Exposure, ~Disturbed, [Next]_vars,
           ~(Evict \/ ConfirmReset \/ \E c \in Commands : CommandArrive(c))
    PROVE  Exposure'
  <1>0. Typed /\ Calm /\ TypeOK
    BY Undisturbed DEF Inv, Typed
  <1>1. ASSUME NEW t \in Task, TaskStep(t) PROVE Exposure'
    <2>1. ~Disturbed' /\ exposed' = exposed /\ (Refuse(t) \/ lost' = lost)
      BY <1>0, <1>1, RunCalm, LeaveCalm DEF TaskStep
    <2>2. \A m \in Messages : lost'[m] \in {lost[m], "refused"}
      BY <2>1 DEF Refuse, Drop
    <2> QED BY <2>1, <2>2 DEF Exposure, LossExplained
  <1>2. ASSUME NEW m \in Messages, Arrive(m) PROVE Exposure'
    <2>1. /\ ~Disturbed' /\ exposed \subseteq exposed'
          /\ UNCHANGED lost \/ Drop({m}, "crowded")
      BY <1>0, <1>2, ArriveCalm
    <2> QED BY <2>1 DEF Exposure, LossExplained, Drop
  <1>3. CASE Flush \/ AskReset \/ UNCHANGED vars
    <2>1. /\ task' = task /\ UNCHANGED <<command, foreign, running, current>>
          /\ UNCHANGED <<lost, exposed>>
      BY <1>3 DEF Flush, AskReset, runner, history, vars
    <2>2. SameRuns /\ \A t \in Task : task'[t].cancel # "asked"
      BY <1>0, <2>1 DEF SameRuns, Busy, Calm
    <2>3. ~Disturbed'
      BY <1>0, <2>1, <2>2, SameCalm
    <2> QED BY <2>1, <2>3 DEF Exposure, LossExplained
  <1>4. ASSUME NEW c \in Commands, CommandStep(c) PROVE FALSE
    <2>1. command[c] \in {"unsent", "done"}
      BY <1>0 DEF Calm, InFlight
    <2> QED BY <1>4, <2>1
          DEF CommandStep, CommandHandle, CommandClear, CommandReset, CommandCancel,
              CommandDrain, CommandYield, CommandFail
  <1> QED BY <1>1, <1>2, <1>3, <1>4 DEF Next

LEMMA InitExposure == Init => Exposure
  BY DEF Init, Exposure, LossExplained

(* A message is dropped only if the runner refused it when its turn came,   *)
(* for want of room, or after a command of its session or an eviction came, *)
(* while a command was under way or had left a superseded run behind,       *)
(* however messages, handoffs and cancellations fall together: a session    *)
(* that nothing of this touches keeps every message.                        *)
THEOREM LossesExplained == Spec => []LossExplained
  <1>1. Init => Exposure
    BY InitExposure
  <1>2. /\ Inv /\ Inv' /\ Sorted /\ Sorted' /\ Exposure /\ [Next]_vars
        => Exposure'
    BY DisturbedStep, Exposes, CalmStep
  <1>3. Exposure => LossExplained
    BY DEF Exposure
  <1> QED BY <1>1, <1>2, <1>3, InvHolds, SortedHolds, PTL DEF Spec

=============================================================================
