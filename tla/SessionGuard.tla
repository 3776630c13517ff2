---------------------------- MODULE SessionGuard ----------------------------
(***************************************************************************)
(* gateway/platforms/base.py: the guard that lets one chat session be      *)
(* processed by one task at a time, with its debounce buffer, its pending  *)
(* slot, the handoff to a follow-up turn and the commands /stop, /new and  *)
(* /reset that take the guard over; and what the handler of gateway/run.py *)
(* does with the same pending slot while the agent of the session runs.    *)
(*                                                                         *)
(* Everything happens on one event loop: a step of the model is the code   *)
(* between two awaits that suspend.  A task that was created runs later,   *)
(* so that messages and commands may come in between.                      *)
(*                                                                         *)
(* One session is modelled, with busy_text_mode and busy_input_mode both   *)
(* "queue".  A guard (the asyncio.Event of _active_sessions) is named by   *)
(* the task or command it was made for.                                    *)
(***************************************************************************)
EXTENDS Integers, FiniteSets

CONSTANTS
    Messages,   \* what the users of the chat send, in this order
    Senders,
    Writes,     \* who may send each message
    Refusable,  \* bound: the messages without which the runner refuses none
    Task,       \* bound: the processing tasks that are ever made
    Commands,   \* /stop, /new and /reset sent while the session is active
    MaxInputs,  \* bound: messages, commands and confirmations together
    MaxDepth,   \* _MAX_INTERRUPT_DEPTH
    None

ASSUME GuardAssumption ==
    /\ Refusable \subseteq Messages
    /\ Messages \subseteq Nat /\ Task \subseteq Nat \ {0} /\ MaxDepth \in Nat
    /\ MaxInputs \in Nat
    /\ Commands \cap Int = {}
    /\ None \notin Int \cup Commands \cup Senders
    /\ None \notin [from : Senders, msgs : SUBSET Messages]
    /\ Writes \in [Messages -> SUBSET Senders]

(* The Event a task makes for itself when it finds no guard. *)
Own(t) == -t

Guards == Task \cup Commands \cup {Own(t) : t \in Task}

VARIABLES
    active,    \* _active_sessions: the guard installed
    owner,     \* _session_tasks: the task that owns the session
    pending,   \* _pending_messages: the slot of the next turn
    buffer,    \* _text_debounce: texts not yet in the slot
    timer,     \* a flush of the buffer is scheduled
    task,      \* the processing tasks
    command,   \* per command: how far its dispatch is
    running,   \* the runner's _running_agents: the task whose run it holds
    current,   \* the task whose run has the current generation
    stamped,   \* _running_agents_ts: the claim has its time
    prompt,    \* slash_confirm: whether a /new waits for its confirmation
    arrived,   \* history: messages that came
    said,      \* history: who sent a text that is not exposed
    runs,      \* history: per message, the turns of an agent it was given to
    lost,      \* history: per message, why it was dropped
    exposed,   \* history: messages a command may have touched
    foreign,   \* history: tasks that adopted the guard of another
    stopped,   \* history: runs whose claim a command found
    evicted    \* history: runs whose claim was evicted as stale

slots == <<pending, buffer, timer>>
runner == <<running, current, stamped, prompt>>
history == <<arrived, said, runs, lost, exposed, foreign, stopped, evicted>>
vars == <<active, owner, slots, task, command, runner, history>>

-----------------------------------------------------------------------------
(* Waiting messages: an event with the identity of its first sender *)

Waiting == [from : Senders, msgs : SUBSET Messages] \cup {None}

From(slot) == IF slot = None THEN None ELSE slot.from

Held(slot) == IF slot = None THEN {} ELSE slot.msgs

(* Mutant: the event keeps both senders. *)
MergedSenders(slot, event) ==
    IF slot = None THEN event
    ELSE [from |-> {slot.from, event.from}, msgs |-> slot.msgs \cup event.msgs]

(* merge_pending_message_event for texts and media. *)
Merged(slot, event) ==
    IF slot = None THEN event
    ELSE [slot EXCEPT !.msgs = @ \cup event.msgs]

(* _can_merge_text_debounce_events: another sender's turn is in the way. *)
Blocked == /\ buffer # None /\ pending # None
           /\ From(pending) # From(buffer)

(* _flush_text_debounce_now: the slot and the buffer it leaves. *)
Slot == IF buffer = None \/ Blocked THEN pending ELSE Merged(pending, buffer)
Rest == IF Blocked THEN buffer ELSE None

Drop(S, why) == lost' = [m \in Messages |-> IF m \in S THEN why ELSE lost[m]]

Give(S) == runs' = [m \in Messages |-> IF m \in S THEN runs[m] + 1 ELSE runs[m]]

-----------------------------------------------------------------------------
(* Tasks *)

NoTask == [pc |-> "none", event |-> None, next |-> None, guard |-> None,
           made |-> None, cancel |-> "no", raised |-> FALSE, depth |-> 0,
           root |-> FALSE, succ |-> None, cur |-> None]

NewTask(event, guard, root) ==
    [NoTask EXCEPT !.pc = "created", !.event = event, !.made = guard,
                   !.root = root]

Fresh(t) == /\ task[t].pc = "none"
            /\ \A u \in Task : u < t => task[u].pc # "none"

(* task.done(); the done callback of an "exited" task has yet to run. *)
Done(t) == task[t].pc \in {"exited", "done"}

(* The task waits at an await and no cancellation is to be thrown there. *)
At(t, pc) == task[t].pc = pc /\ task[t].cancel # "asked"

Asked(r) == [r EXCEPT !.cancel = "asked"]

(* The record of t when its coroutine is over, o being the owner then: what *)
(* the done callback, which matters to the owner only, and the root of the  *)
(* chain still look at.                                                     *)
Exit(t, r, o) ==
    [NoTask EXCEPT !.pc = IF o = t THEN "exited" ELSE "done",
                   !.made = r.made, !.raised = r.raised, !.succ = r.succ]

(* _run_lifecycle: root t, of record r, goes on to wait for the task s of   *)
(* its chain, or to cancel s when a cancellation got this far.              *)
Follow(t, r, s, dying, o, ts) ==
    [u \in Task |->
        CASE u = t -> IF s = None THEN Exit(t, r, o)
                      ELSE [r EXCEPT !.pc = IF dying THEN "reap" ELSE "await",
                                     !.cur = s]
          [] u # t /\ u = s /\ dying /\ ~Done(u) -> Asked(ts[u])
          [] OTHER -> ts[u]]

(* The processing of t ends with record r. *)
Ended(t, r, o, ts) ==
    IF r.root THEN Follow(t, r, r.succ, r.raised \/ r.cancel # "no", o, ts)
    ELSE [ts EXCEPT ![t] = Exit(t, r, o)]

(* _start_session_processing: a root task under a guard of its own. *)
StartRoot(t, event) ==
    /\ Fresh(t)
    /\ active' = t /\ owner' = t
    /\ task' = [task EXCEPT ![t] = NewTask(event, t, TRUE)]

Goto(t, pc) == [task EXCEPT ![t].pc = pc]

(* Mutant: the claim of the task itself stays. *)
ReleaseOther(t) ==
    /\ running' \in IF running = t THEN {t} ELSE {running, None}
    /\ stamped' = FALSE

(* The turn is prepared and has no agent yet: its claim is a sentinel. *)
Preparing(t) == task[t].pc = "again" /\ task[t].depth = 0

(* The finally clauses of _handle_message and _run_agent: the claim goes    *)
(* with its generation, and a sentinel goes, whose ever it is; the time     *)
(* goes in either case.                                                     *)
Release(t) ==
    /\ running' \in IF running = t /\ (current = t \/ Preparing(t)) THEN {None}
                    ELSE {running, None}
    /\ stamped' = FALSE

(* An agent was idle for the timeout of the gateway, and its claim has its  *)
(* time: the next event of the session evicts it.                           *)
Evictable == running # None /\ stamped /\ ~Preparing(running)

(* The eviction outdates the run and releases its claim.  The task goes on. *)
EvictStale ==
    /\ Evictable
    /\ running' = None /\ current' = None /\ stamped' = FALSE
    /\ evicted' = evicted \cup {running}

(* What a command, a reset or an eviction may touch came before it. *)
Expose == exposed' = exposed \cup arrived /\ said' = [m \in Messages |-> None]

-----------------------------------------------------------------------------
(* _process_message_background *)

Start(t) ==
    /\ At(t, "created")
    /\ active' = IF active = None THEN Own(t) ELSE active
    /\ foreign' = IF active' = task[t].made THEN foreign ELSE foreign \cup {t}
    /\ task' = [task EXCEPT ![t].pc = "hook", ![t].guard = active']
    /\ UNCHANGED <<owner, slots, command, runner, arrived, said, runs, lost,
                   exposed, stopped, evicted>>

(* The runner claims the session for a run and prepares its first turn: the *)
(* session is free, or the claim that holds it is stale and evicted.        *)
BeginRun(t) ==
    /\ At(t, "hook")
    /\ \/ running = None /\ UNCHANGED <<evicted, exposed, said>>
       \/ Evictable /\ evicted' = evicted \cup {running} /\ Expose
    /\ running' = t /\ current' = t /\ stamped' = TRUE
    /\ task' = [task EXCEPT ![t].pc = "again", ![t].event = None,
                            ![t].next = task[t].event]
    /\ UNCHANGED <<active, owner, slots, command, prompt, arrived, runs, lost,
                   foreign, stopped>>

(* track_agent: a run whose generation is current puts its agent in the     *)
(* place of its sentinel, or of whatever became of that.                    *)
Promote(t) ==
    /\ task[t].pc \in {"run", "again"} /\ ~Preparing(t) /\ current = t
    /\ running # t /\ running' = t
    /\ UNCHANGED <<active, owner, slots, task, command, current, stamped, prompt,
                   history>>

(* The runner already has a run of the session: the message is queued, and  *)
(* replaces the slot when both are texts and the agent is set up.           *)
BusyRun(t) ==
    /\ At(t, "hook") /\ running # None
    /\ \/ /\ pending' = Merged(pending, task[t].event)
          /\ UNCHANGED lost
       \/ /\ pending' = task[t].event
          /\ Drop(Held(pending), "replaced")
    /\ task' = [task EXCEPT ![t].pc = "reply", ![t].event = None]
    /\ UNCHANGED <<active, owner, buffer, timer, command, runner, arrived, said,
                   runs, exposed, foreign, stopped, evicted>>

(* The agent ends with its response or an exception, and takes no follow-up:*)
(* there is none, no result, or the depth is reached.                       *)
RunEnd(t) ==
    /\ At(t, "run")
    /\ \E pc \in {"reply", "unwind"} :
          task' = [task EXCEPT ![t].pc = pc, ![t].depth = 0]
    /\ Release(t)
    /\ UNCHANGED <<active, owner, slots, command, current, prompt, history>>

(* Mutant: the slot is taken and not used, whatever the generation. *)
RunDrops(t) ==
    /\ At(t, "run") /\ pending # None
    /\ Drop(Held(pending), "superseded")
    /\ pending' = None
    /\ task' = [task EXCEPT ![t].pc = "reply", ![t].depth = 0]
    /\ Release(t)
    /\ UNCHANGED <<active, owner, buffer, timer, command, current, prompt,
                   arrived, said, runs, exposed, foreign, stopped, evicted>>

(* The run takes the slot and throws it away, as its generation is old. *)
RunSuperseded(t) ==
    /\ At(t, "run") /\ pending # None /\ current # t
    /\ Drop(Held(pending), "superseded")
    /\ pending' = None
    /\ task' = [task EXCEPT ![t].pc = "reply", ![t].depth = 0]
    /\ Release(t)
    /\ UNCHANGED <<active, owner, buffer, timer, command, current, prompt,
                   arrived, said, runs, exposed, foreign, stopped, evicted>>

(* The run takes the slot for its own next turn, ... *)
RunFollows(t) ==
    /\ At(t, "run") /\ pending # None /\ current = t
    /\ task[t].depth < MaxDepth
    /\ task' = [task EXCEPT ![t].pc = "again", ![t].next = pending,
                            ![t].depth = @ + 1]
    /\ pending' = None
    /\ UNCHANGED <<active, owner, buffer, timer, command, runner, history>>

(* A turn is ready: the first one, or the follow-up, which is prepared after*)
(* the response before it was sent.                                         *)
NextTurn(t) ==
    /\ At(t, "again")
    /\ Give(Held(task[t].next))
    /\ task' = [task EXCEPT ![t].pc = "run", ![t].next = None]
    /\ UNCHANGED <<active, owner, slots, command, runner, arrived, said, lost,
                   exposed, foreign, stopped, evicted>>

(* The runner answers or refuses the event before it claims the session, or *)
(* the text of a turn is refused (_prepare_inbound_message_text), or its    *)
(* set-up raises: no agent sees the event.                                  *)
Refuse(t) ==
    /\ \/ /\ At(t, "hook")
          /\ Held(task[t].event) \cap Refusable # {}
          /\ Drop(Held(task[t].event), "refused")
          /\ UNCHANGED <<running, stamped>>
       \/ /\ At(t, "again")
          /\ Held(task[t].next) \cap Refusable # {}
          /\ Drop(Held(task[t].next), "refused")
          /\ Release(t)
    /\ \E pc \in {"reply", "unwind"} :
          task' = [task EXCEPT ![t].pc = pc, ![t].event = None, ![t].next = None,
                               ![t].depth = 0]
    /\ UNCHANGED <<active, owner, slots, command, current, prompt, arrived, said,
                   runs, exposed, foreign, stopped, evicted>>

(* The in-band drain, once the response is sent. *)
Reply(t) ==
    /\ At(t, "reply")
    /\ buffer' = Rest /\ timer' = FALSE
    /\ IF active = task[t].guard /\ Slot # None
       THEN /\ pending' = None
            /\ task' = [task EXCEPT ![t].pc = "handoff", ![t].next = Slot]
       ELSE /\ pending' = Slot
            /\ task' = Goto(t, "unwind")
    /\ UNCHANGED <<active, owner, command, runner, history>>

(* A send or a hook raised: no in-band drain. *)
ReplyFails(t) ==
    /\ At(t, "reply")
    /\ task' = Goto(t, "unwind")
    /\ UNCHANGED <<active, owner, slots, command, runner, history>>

(* Mutant: the follow-up is put back over what came in between. *)
HandoffOverwrites(t) ==
    /\ task[t].pc = "handoff" /\ active # task[t].guard
    /\ pending' = task[t].next
    /\ task' = [task EXCEPT ![t].pc = "unwind", ![t].next = None]
    /\ UNCHANGED <<active, owner, buffer, timer, command, runner, history>>

(* After _stop_typing_task, which swallows a cancellation: the follow-up    *)
(* goes back to the slot if the guard was replaced, and to a successor      *)
(* that becomes the owner otherwise.                                        *)
Handoff(t) ==
    /\ task[t].pc = "handoff"
    /\ LET r == [task[t] EXCEPT !.pc = "unwind", !.next = None,
                     !.cancel = IF @ = "asked" THEN "taken" ELSE @] IN
       \/ /\ active # task[t].guard
          /\ pending' = [task[t].next EXCEPT !.msgs = @ \cup Held(pending)]
          /\ task' = [task EXCEPT ![t] = r]
          /\ UNCHANGED owner
       \/ /\ active = task[t].guard
          /\ \E u \in Task :
                /\ Fresh(u)
                /\ owner' = u
                /\ task' = [task EXCEPT
                       ![t] = [r EXCEPT !.succ = u],
                       ![u] = NewTask(task[t].next, task[t].guard, FALSE)]
          /\ UNCHANGED pending
    /\ UNCHANGED <<active, buffer, timer, command, runner, history>>

FinishAs(t, late, o, a) ==
    /\ At(t, "unwind")
    /\ buffer' = Rest /\ timer' = FALSE
    /\ \/ /\ late
          /\ pending' = None /\ owner' \in Task /\ Fresh(owner')
          /\ task' = Ended(t, [task[t] EXCEPT !.succ = owner'], owner',
                 [task EXCEPT ![owner'] = NewTask(Slot, task[t].guard, FALSE)])
          /\ UNCHANGED active
       \/ /\ ~late
          /\ pending' = Slot /\ owner' = o /\ active' = a
          /\ task' = Ended(t, task[t], owner', task)
    /\ UNCHANGED <<command, runner, history>>

Late(t) == active = task[t].guard /\ Slot # None

OwnerAfter(t) == IF owner = t THEN None ELSE owner

ActiveAfter(t) ==
    IF owner = t /\ active = task[t].guard THEN None ELSE active

(* Mutant: the late drain does not ask who owns the session. *)
FinishUnowned(t) == FinishAs(t, Late(t), OwnerAfter(t), ActiveAfter(t))

(* Mutant: the owner is left to the done callback. *)
FinishOwned(t) == FinishAs(t, Late(t), owner, ActiveAfter(t))

(* Mutant: no late drain. *)
FinishEarly(t) == FinishAs(t, FALSE, OwnerAfter(t), ActiveAfter(t))

(* Mutant: the guard goes, whoever installed it. *)
FinishClears(t) ==
    FinishAs(t, Late(t), OwnerAfter(t), IF owner = t THEN None ELSE active)

(* The end of the finally clause, with the late-arrival drain. *)
Finish(t) ==
    /\ At(t, "unwind")
    /\ buffer' = Rest /\ timer' = FALSE
    /\ LET late == active = task[t].guard /\ Slot # None IN
       \/ /\ late /\ owner \notin {None, t}
          /\ pending' = Slot
          /\ task' = Ended(t, task[t], owner, task)
          /\ UNCHANGED <<active, owner>>
       \/ /\ late /\ owner \in {None, t}
          /\ pending' = None
          /\ \E u \in Task :
                /\ Fresh(u)
                /\ owner' = u
                /\ task' = Ended(t, [task[t] EXCEPT !.succ = u], u,
                       [task EXCEPT ![u] = NewTask(Slot, task[t].guard, FALSE)])
          /\ UNCHANGED active
       \/ /\ ~late
          /\ pending' = Slot
          /\ owner' = IF owner = t THEN None ELSE owner
          /\ active' = IF owner = t /\ active = task[t].guard THEN None ELSE active
          /\ task' = Ended(t, task[t], owner', task)
    /\ UNCHANGED <<command, runner, history>>

-----------------------------------------------------------------------------
(* Cancellation, and what waits for a task *)

(* CancelledError at the await where t stands.  A task that never ran has   *)
(* no finally clause, and in the finally clause it cuts the rest, unless    *)
(* the await is the one on the typing task.                                 *)
TakeCancel(t) ==
    /\ task[t].cancel = "asked"
    /\ LET r == [task[t] EXCEPT !.cancel = "taken", !.raised = TRUE]
           w == [r EXCEPT !.pc = "unwind", !.event = None, !.next = None,
                          !.depth = 0] IN
       \/ /\ task[t].pc = "created"
          /\ task' = [task EXCEPT ![t] = Exit(t, r, owner)]
          /\ Drop(Held(task[t].event), "cancelled")
          /\ UNCHANGED <<running, stamped>>
       \/ /\ task[t].pc = "hook"
          /\ task' = [task EXCEPT ![t] = w]
          /\ Drop(Held(task[t].event), "cancelled")
          /\ UNCHANGED <<running, stamped>>
       \/ /\ task[t].pc \in {"run", "again"}
          /\ task' = [task EXCEPT ![t] = w]
          /\ Drop(Held(task[t].next), "cancelled")
          /\ Release(t)
       \/ /\ task[t].pc = "reply"
          /\ task' = [task EXCEPT ![t] = w]
          /\ UNCHANGED <<running, stamped, lost>>
       \/ /\ task[t].pc = "unwind"
          /\ \/ task' = [task EXCEPT ![t].cancel = "taken"]
             \/ task' = Ended(t, r, owner, task)
          /\ UNCHANGED <<running, stamped, lost>>
    /\ UNCHANGED <<active, owner, slots, command, current, prompt, arrived,
                   said, runs, exposed, foreign, stopped, evicted>>

(* _cleanup_root_task and _cleanup_successor. *)
Callback(t) ==
    /\ task[t].pc = "exited"
    /\ owner' = IF owner = t THEN None ELSE owner
    /\ active' = IF owner = t /\ active = task[t].made THEN None ELSE active
    /\ task' = Goto(t, "done")
    /\ UNCHANGED <<slots, command, runner, history>>

(* The root goes down its chain, or cancels it link by link. *)
RootStep(t) ==
    /\ task[t].pc \in {"await", "reap"} /\ Done(task[t].cur)
    /\ LET cur == task[task[t].cur] IN
       task' = Follow(t, task[t], cur.succ,
                      task[t].pc = "reap" \/ cur.raised, owner, task)
    /\ UNCHANGED <<active, owner, slots, command, runner, history>>

TaskStep(t) ==
    \/ Start(t) \/ BeginRun(t) \/ Promote(t) \/ BusyRun(t)
    \/ RunEnd(t) \/ RunSuperseded(t) \/ RunFollows(t) \/ NextTurn(t)
    \/ Refuse(t)
    \/ Reply(t) \/ ReplyFails(t) \/ Handoff(t) \/ Finish(t)
    \/ TakeCancel(t) \/ Callback(t) \/ RootStep(t)

-----------------------------------------------------------------------------
(* handle_message *)

(* _flush_text_debounce: the timer fires. *)
Flush ==
    /\ timer
    /\ pending' = Slot /\ buffer' = Rest /\ timer' = FALSE
    /\ UNCHANGED <<active, owner, task, command, runner, history>>

(* _session_task_is_stale. *)
Stale == active # None /\ owner # None /\ Done(owner)

InFlight(c) == command[c] \notin {"unsent", "done"}

Within == Cardinality(arrived)
          + Cardinality({c \in Commands : command[c] # "unsent"})
          + (IF prompt = "none" THEN 0 ELSE 1)
          + Cardinality(evicted) < MaxInputs

(* The runner holds the claim of a run that has ended, or was cancelled. *)
Leaked == /\ running # None
          /\ \/ task[running].pc \notin {"run", "again"}
             \/ task[running].cancel = "asked"

(* A command is under way, or has left a run without a generation, a claim, *)
(* a cancelled task or a task under its guard behind.                       *)
Disturbed ==
    \/ \E c \in Commands : InFlight(c)
    \/ \E t \in Task : \/ task[t].cancel = "asked"
                       \/ task[t].pc \in {"run", "again"} /\ current # t
    \/ Leaked \/ foreign # {}

(* A command that bypasses the guard, as /status does, evicts a stale claim.*)
Evict ==
    /\ Within /\ active # None
    /\ EvictStale /\ Expose
    /\ UNCHANGED <<active, owner, slots, task, command, prompt, arrived, runs,
                   lost, foreign, stopped>>

Next1(m) == m \notin arrived /\ \A n \in Messages : n < m => n \in arrived

Arrival(m, sender) ==
    /\ Within /\ Next1(m)
    /\ arrived' = arrived \cup {m}
    /\ IF Disturbed THEN exposed' = exposed \cup {m} /\ UNCHANGED said
       ELSE said' = [said EXCEPT ![m] = sender] /\ UNCHANGED exposed
    /\ UNCHANGED <<command, runner, runs, foreign, stopped, evicted>>

(* The session is free, or its lock is stale: _heal_stale_session_lock      *)
(* drops what waited behind it.                                             *)
ArriveFree(m, s) ==
    /\ Arrival(m, s)
    /\ \E t \in Task : StartRoot(t, [from |-> s, msgs |-> {m}])
    /\ \/ active = None /\ UNCHANGED <<slots, lost>>
       \/ /\ Stale
          /\ pending' = None /\ buffer' = None /\ timer' = FALSE
          /\ Drop(Held(pending) \cup Held(buffer), "healed")

ArriveMedia(m, s) ==
    /\ Arrival(m, None)
    /\ active # None /\ ~Stale
    /\ pending' = Merged(pending, [from |-> s, msgs |-> {m}])
    /\ UNCHANGED <<active, owner, buffer, timer, task, lost>>

(* Mutant: a text joins its sender's event in the slot at once. *)
ArriveTextDirect(m, s) ==
    LET event == [from |-> s, msgs |-> {m}] IN
    /\ Arrival(m, s)
    /\ active # None /\ ~Stale
    /\ \/ /\ From(pending) = s
          /\ pending' = Merged(pending, event)
          /\ UNCHANGED <<buffer, timer>>
       \/ /\ From(pending) # s /\ From(buffer) \in {None, s}
          /\ buffer' = Merged(buffer, event) /\ timer' = TRUE
          /\ UNCHANGED pending
    /\ UNCHANGED <<active, owner, task, lost>>

(* _queue_text_debounce: the buffer of another sender goes to the slot      *)
(* first; when the slot is taken by a third one, the text is dropped.       *)
ArriveText(m, s) ==
    LET event == [from |-> s, msgs |-> {m}] IN
    /\ Arrival(m, s)
    /\ active # None /\ ~Stale
    /\ \/ /\ From(buffer) \in {None, s}
          /\ buffer' = Merged(buffer, event) /\ timer' = TRUE
          /\ UNCHANGED <<pending, lost>>
       \/ /\ From(buffer) \notin {None, s} /\ ~Blocked
          /\ pending' = Slot
          /\ buffer' = event /\ timer' = TRUE
          /\ UNCHANGED lost
       \/ /\ From(buffer) \notin {None, s} /\ Blocked
          /\ timer' = FALSE
          /\ IF From(pending) = s
             THEN pending' = Merged(pending, event) /\ UNCHANGED lost
             ELSE Drop({m}, "crowded") /\ UNCHANGED pending
          /\ UNCHANGED buffer
    /\ UNCHANGED <<active, owner, task>>

Arrive(m) == \E s \in Writes[m] :
    ArriveFree(m, s) \/ ArriveMedia(m, s) \/ ArriveText(m, s)

-----------------------------------------------------------------------------
(* _dispatch_active_session_command *)

Stage(c, stage) == command' = [command EXCEPT ![c] = stage]

CommandArrive(c) ==
    /\ Within /\ command[c] = "unsent" /\ active # None /\ ~Stale
    /\ Drop(Held(buffer), "command")
    /\ buffer' = None /\ timer' = FALSE
    /\ active' = c
    /\ Stage(c, "handling")
    /\ Expose
    /\ UNCHANGED <<owner, pending, task, runner, arrived, runs, foreign, stopped, evicted>>

(* The runner finds a run to interrupt; or none, or a stale one it evicts,  *)
(* and then /new resets the session or asks for a confirmation first.       *)
CommandHandle(c) ==
    /\ command[c] = "handling"
    /\ \/ /\ running # None
          /\ stopped' = stopped \cup {running}
          /\ current' = None
          /\ Stage(c, "clearing")
          /\ UNCHANGED <<prompt, running, stamped, evicted>>
       \/ /\ \/ running = None /\ UNCHANGED <<running, current, stamped, evicted>>
             \/ EvictStale
          /\ \/ /\ \E stage \in {"resetting", "replying"} : Stage(c, stage)
                /\ UNCHANGED prompt
             \/ /\ Within /\ prompt # "closed" /\ prompt' = "open"
                /\ Stage(c, "replying")
          /\ UNCHANGED stopped
    /\ UNCHANGED <<active, owner, slots, task, arrived, said, runs, lost,
                   exposed, foreign>>

(* /new in a free session: the task that answers it is left out. *)
AskReset ==
    /\ Within /\ active = None /\ prompt = "none"
    /\ prompt' = "open"
    /\ UNCHANGED <<active, owner, slots, task, command, running, current, stamped,
                   history>>

(* The user confirms: resolve drops the prompt and runs the reset, whatever *)
(* the session does by then.                                                *)
ConfirmReset ==
    /\ prompt = "open"
    /\ prompt' = "closed"
    /\ current' = None
    /\ Expose
    /\ UNCHANGED <<active, owner, slots, task, command, running, stamped, arrived,
                   runs, lost, foreign, stopped, evicted>>

(* _handle_reset_command; the session's prompt goes with the conversation. *)
Reset == /\ current' = None
         /\ prompt' = IF prompt = "open" THEN "none" ELSE prompt

(* _interrupt_and_clear_session after its await, and the reset of /new. *)
CommandClear(c) ==
    /\ command[c] = "clearing"
    /\ Drop(Held(pending), "command")
    /\ pending' = None
    /\ running' = None /\ stamped' = FALSE
    /\ Reset \/ UNCHANGED <<current, prompt>>
    /\ Stage(c, "replying")
    /\ UNCHANGED <<active, owner, buffer, timer, task, arrived, said, runs,
                   exposed, foreign, stopped, evicted>>

CommandReset(c) ==
    /\ command[c] = "resetting"
    /\ Reset
    /\ Stage(c, "replying")
    /\ UNCHANGED <<active, owner, slots, task, running, stamped, history>>

(* Mutant: the guard is released and nothing is drained. *)
Undrained(o) ==
    /\ active' = None /\ owner' = o
    /\ UNCHANGED <<slots, task>>

(* _drain_pending_after_session_command, with the guard still in place, o   *)
(* being the owner it leaves when nothing waits.  By then a cancelled task  *)
(* has moved on that stood where nothing can hold the cancellation up.      *)
Drain(o) ==
    /\ \A t \in Task : task[t].cancel = "asked"
                        => task[t].pc \notin {"created", "handoff"}
    /\ \/ /\ Slot = None
          /\ active' = None /\ owner' = o
          /\ UNCHANGED <<slots, task>>
       \/ /\ Slot # None
          /\ \E t \in Task : StartRoot(t, Slot)
          /\ pending' = None /\ buffer' = Rest /\ timer' = FALSE

LiveOwner == owner # None /\ ~Done(owner)

(* cancel_session_processing, once the response was sent. *)
CommandCancel(c) ==
    /\ command[c] = "replying" /\ active = c
    /\ \/ /\ LiveOwner
          /\ owner' = None
          /\ task' = [task EXCEPT ![owner] = Asked(@)]
          /\ Stage(c, "waiting")
          /\ UNCHANGED <<active, slots>>
       \/ /\ ~LiveOwner
          /\ Drain(None)
          /\ Stage(c, "done")
    /\ UNCHANGED <<runner, history>>

(* The cancelled owner has ended, or five seconds have passed. *)
CommandDrain(c) ==
    /\ command[c] = "waiting"
    /\ IF active = c THEN Drain(owner) ELSE UNCHANGED <<active, owner, slots, task>>
    /\ Stage(c, "done")
    /\ UNCHANGED <<runner, history>>

(* Another command has taken the guard: nothing is cancelled or drained. *)
CommandYield(c) ==
    /\ command[c] = "replying" /\ active # c
    /\ Stage(c, "done")
    /\ UNCHANGED <<active, owner, slots, task, runner, history>>

(* Mutant: the guard is given back to a live owner, and kept without one. *)
CommandKeeps(c) ==
    /\ command[c] \in {"handling", "resetting", "replying"}
    /\ active' = IF active = c /\ LiveOwner THEN task[owner].made ELSE active
    /\ Stage(c, "done")
    /\ UNCHANGED <<owner, slots, task, runner, history>>

(* The handler or the send raised: _recover_command_owner. *)
CommandFail(c) ==
    /\ command[c] \in {"handling", "resetting", "replying"}
    /\ \/ active # c /\ UNCHANGED <<active, owner, slots, task>>
       \/ /\ active = c /\ LiveOwner
          /\ active' = task[owner].made
          /\ UNCHANGED <<owner, slots, task>>
       \/ /\ active = c /\ ~LiveOwner /\ Drain(owner)
    /\ Stage(c, "done")
    /\ UNCHANGED <<runner, history>>

CommandStep(c) ==
    \/ CommandHandle(c) \/ CommandClear(c) \/ CommandReset(c) \/ CommandCancel(c)
    \/ CommandDrain(c) \/ CommandYield(c) \/ CommandFail(c)

-----------------------------------------------------------------------------
Init ==
    /\ active = None /\ owner = None
    /\ pending = None /\ buffer = None /\ timer = FALSE
    /\ task = [t \in Task |-> NoTask]
    /\ command = [c \in Commands |-> "unsent"]
    /\ running = None /\ current = None /\ stamped = FALSE /\ prompt = "none"
    /\ arrived = {} /\ exposed = {} /\ foreign = {} /\ stopped = {}
    /\ evicted = {}
    /\ said = [m \in Messages |-> None]
    /\ runs = [m \in Messages |-> 0]
    /\ lost = [m \in Messages |-> "no"]

Next == \/ Flush \/ Evict \/ AskReset \/ ConfirmReset
        \/ \E m \in Messages : Arrive(m)
        \/ \E c \in Commands : CommandArrive(c) \/ CommandStep(c)
        \/ \E t \in Task : TaskStep(t)

Spec == Init /\ [][Next]_vars

(* The event loop runs what is ready; an agent ends, by its inactivity      *)
(* timeout at the latest.                                                   *)
Fairness == /\ WF_vars(Flush)
            /\ \A t \in Task : WF_vars(TaskStep(t))
            /\ \A c \in Commands : WF_vars(CommandStep(c))

FairSpec == Spec /\ Fairness

-----------------------------------------------------------------------------
(* Properties *)

Pcs == {"none", "created", "hook", "run", "again", "reply", "handoff", "unwind",
        "await", "reap", "exited", "done"}

TaskRecord ==
    [pc : Pcs, event : Waiting, next : Waiting,
     guard : Guards \cup {None}, made : Guards \cup {None},
     cancel : {"no", "asked", "taken"}, raised : BOOLEAN, depth : Nat,
     root : BOOLEAN, succ : Task \cup {None}, cur : Task \cup {None}]

(* Types of the variables. *)
TypeOK ==
    /\ active \in Guards \cup {None}
    /\ owner \in Task \cup {None}
    /\ pending \in Waiting /\ buffer \in Waiting
    /\ timer \in BOOLEAN
    /\ task \in [Task -> TaskRecord]
    /\ command \in [Commands -> {"unsent", "handling", "clearing", "resetting",
                                 "replying", "waiting", "done"}]
    /\ running \in Task \cup {None} /\ current \in Task \cup {None}
    /\ stamped \in BOOLEAN /\ prompt \in {"none", "open", "closed"}
    /\ arrived \subseteq Messages /\ exposed \subseteq Messages
    /\ said \in [Messages -> Senders \cup {None}]
    /\ foreign \subseteq Task /\ stopped \subseteq Task /\ evicted \subseteq Task
    /\ runs \in [Messages -> Nat]
    /\ lost \in [Messages -> {"no", "command", "superseded", "replaced",
                              "cancelled", "crowded", "refused", "healed"}]

Live(t) == /\ task[t].pc \in {"created", "hook", "run", "again", "reply", "handoff"}
           /\ task[t].cancel = "no"

(* A session is processed by one task at a time: a task that is to run, or  *)
(* runs, and was not cancelled owns the session, whose guard is installed   *)
(* (base.py: two agents on one session_key mean duplicate responses).  It   *)
(* may fail once a task has adopted the guard of a command.                 *)
OneProcessor ==
    foreign = {} => \A t \in Task : Live(t) => owner = t /\ active # None

Holders(m) ==
    {t \in Task : \/ m \in Held(task[t].next)
                  \/ /\ task[t].pc \in {"created", "hook"}
                     /\ m \in Held(task[t].event)}

Places(m) == Cardinality(Holders(m))
             + (IF m \in Held(pending) THEN 1 ELSE 0)
             + (IF m \in Held(buffer) THEN 1 ELSE 0)

(* A message waits in exactly one place, was given to the agent in exactly  *)
(* one turn, or was dropped by a step that is known to drop, and never two  *)
(* of these: merges, handoffs, drains and restored slots neither lose nor   *)
(* repeat it.                                                               *)
Accounted ==
    \A m \in arrived :
        Places(m) + runs[m] + (IF lost[m] = "no" THEN 0 ELSE 1) = 1

(* Texts of one sender reach the agent in the order they were sent, or in   *)
(* one turn, although they wait in a buffer, a slot and a task, as long as  *)
(* no command touches the session.                                          *)
InOrder ==
    \A m, n \in Messages :
        m < n /\ said[m] # None /\ said[m] = said[n] /\ runs[n] > 0
        => runs[m] > 0 \/ lost[m] # "no"

(* A message is dropped only if the runner refused it, as its own turn came,*)
(* if the slot and the buffer were both taken by other senders, or if a     *)
(* command of the session or an eviction came after it, or had begun or     *)
(* left an outdated run when it came.                                       *)
LossExplained ==
    \A m \in Messages :
        lost[m] \in {"no", "crowded", "refused"} \/ m \in exposed

(* The lock is never found stale, so that healing it drops nothing, unless  *)
(* a task adopted the guard of another.                                     *)
NoHeal == foreign = {} => \A m \in Messages : lost[m] # "healed"

Idle == /\ ~timer
        /\ \A c \in Commands : ~InFlight(c)
        /\ \A t \in Task : task[t].pc \in {"none", "await", "reap", "done"}

(* When nothing is left to run, the session is free and no message waits in *)
(* it (base.py: the queued message would be silently dropped).              *)
NotStranded ==
    foreign = {} /\ Idle => active = None /\ pending = None /\ buffer = None

(* While a command is under way its guard stays, or goes to a later command *)
(* (base.py: the cleanup of the old task must not clear it).                *)
CommandGuardKept ==
    [][(active \in Commands /\ command'[active] # "done" /\ foreign' = {})
       => (active' \in Commands)]_vars

Broken == foreign # {} \/ Leaked

(* Every message is given to the agent or dropped in the end, unless a task *)
(* adopts the guard of another or a claim is left behind.                   *)
Answered ==
    <>Broken \/ []<>(\A m \in arrived : runs[m] > 0 \/ lost[m] # "no")

(* The session becomes free again and again, with the same exceptions. *)
Released == <>Broken \/ []<>(active = None)

(* The claim of a run ends with the run (run.py: the sentinel must not      *)
(* linger or the session would be permanently locked out), unless a /stop,  *)
(* a /new or a reset that was confirmed late outdated the run, and then no  *)
(* eviction can remove it; and no run goes on without its claim, beside     *)
(* which another could begin (run.py: an older run must not clobber the     *)
(* state of a newer run), unless a command found a run to stop and took the *)
(* claim away, or the claim was evicted.                                    *)
ClaimExplained ==
    /\ running # None /\ task[running].pc \notin {"run", "again"} =>
         /\ current # running /\ ~stamped
         /\ prompt = "closed" \/ \E c \in Commands : command[c] # "unsent"
    /\ \A t \in Task : task[t].pc \in {"run", "again"} =>
         \/ running = t \/ evicted # {}
         \/ /\ stopped # {}
            /\ \E c \in Commands : command[c] \in {"replying", "waiting", "done"}

=============================================================================
