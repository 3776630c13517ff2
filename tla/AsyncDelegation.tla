--------------------------- MODULE AsyncDelegation ---------------------------
(***************************************************************************)
(* tools/async_delegation.py: subagents that run in the background and     *)
(* whose result comes back as a turn of its own, with the watcher of       *)
(* gateway/run.py that brings it in.  The batch functions are modelled;    *)
(* those for a single child do the same.                                   *)
(*                                                                         *)
(* The registry keeps its records, and process_registry its queue, in the  *)
(* memory of the gateway; delegations.db survives it.  A worker thread     *)
(* writes the database and the queue one after the other, and the watcher, *)
(* a task of the event loop, takes the whole queue, hands each event to    *)
(* the adapter and acknowledges it in the database afterwards.  The event  *)
(* waits there, as a task or in the slot of the session, for the turn that *)
(* looks up the conversation; SessionGuard has what happens meanwhile.     *)
(* The process may die between any two of these steps, and a write to the  *)
(* database may fail.                                                      *)
(*                                                                         *)
(* One chat is modelled.  A conversation is a lineage of session ids under *)
(* compression; /new, /resume and the expiry of the session change the     *)
(* conversation of the chat.                                               *)
(***************************************************************************)
EXTENDS Naturals, Sequences, FiniteSets

CONSTANTS
    Delegations,    \* delegation ids, drawn at random by _new_delegation_id
    Conversations,
    MaxChildren,    \* max_async_children
    Retained,       \* _MAX_RETAINED_COMPLETED, of rows and of records
    MaxCrashes,     \* bound: how often the gateway dies
    MaxFaults,      \* bound: how often a write or a hand-over fails
    MaxCommands,    \* bound: how often a command changes the conversation of
                    \* the chat or discards what waits in it
    None

ASSUME DelegationAssumption ==
    /\ None \notin Delegations \cup Conversations
    /\ {MaxChildren, Retained, MaxCrashes, MaxFaults, MaxCommands} \subseteq Nat

VARIABLES
    alive,     \* the gateway process runs
    connected, \* its adapters hold the platform of the chat
    current,   \* the conversation of the chat (in sessions.json)
    parent,    \* per delegation: the conversation that dispatched it, or None
    record,    \* per delegation: the status of its entry in _records
    finished,  \* the records with a completed_at, oldest first
    worker,    \* per delegation: where its thread is
    row,       \* per delegation: its row in delegations.db
    newer,     \* per row: the rows with a later updated_at
    queue,     \* process_registry.completion_queue
    batch,     \* events the watcher took and has not looked at
    inHand,    \* the event the watcher has injected and not acknowledged
    waiting,   \* the events at the adapter whose turn has not begun
    injected,  \* history: how often the result was handed to the adapter
    entered,   \* history: the conversations it entered
    missed,    \* history: what a command discarded at the adapter, or a crash
               \* after the acknowledgement
    strayed,   \* history: what was at the adapter as the conversation changed
    cut,       \* history: how often its acknowledgement did not happen
    crashes, faults, commands

memory == <<record, finished, worker, queue, batch, inHand>>
chat == <<waiting, entered, missed, strayed>>
disk == <<row, newer>>
bounds == <<crashes, faults, commands>>
vars == <<alive, connected, current, parent, memory, disk, chat, injected, cut,
          bounds>>

Set(f, d, v) == [f EXCEPT ![d] = v]

(* updated_at of the row of d becomes the time. *)
Touch(d) == [e \in Delegations |-> IF e = d THEN {} ELSE newer[e] \cup {d}]

(* A write raises, as the database is locked for ten seconds or the disk full,
   or the adapter does. *)
Fault == faults < MaxFaults /\ faults' = faults + 1

-----------------------------------------------------------------------------
(* Dispatch, on the thread of an agent of the chat *)

Running == {d \in Delegations : record[d] = "running"}

(* The capacity check and the insert share one lock hold. *)
Dispatch(d) ==
    /\ alive /\ parent[d] = None
    /\ Cardinality(Running) < MaxChildren
    /\ parent' = Set(parent, d, current)
    /\ record' = Set(record, d, "running")
    /\ worker' = Set(worker, d, "insert")
    /\ UNCHANGED <<alive, connected, current, finished, disk, queue, batch,
                   inHand, chat, injected, cut, bounds>>

Completed == {d \in Delegations : row[d] \in {"pending", "delivered"}}

(* The rows _persist_dispatch deletes: all but the newest completed ones,
   delivered or not.  (Those older than a week go too; a week is not
   modelled.) *)
Retired == {d \in Completed : Cardinality(newer[d] \cap Completed) >= Retained}

(* _persist_dispatch and the submission of the worker. *)
PersistDispatch(d) ==
    /\ alive /\ worker[d] = "insert"
    /\ \/ /\ \/ worker' = Set(worker, d, "run") /\ UNCHANGED record
             \/ \* The executor refuses: the row stays.
                /\ worker' = Set(worker, d, "done")
                /\ record' = Set(record, d, "none")
          /\ row' = [e \in Delegations |-> IF e = d THEN "running"
                                        ELSE IF e \in Retired THEN "none"
                                        ELSE row[e]]
          /\ newer' = Touch(d)
          /\ UNCHANGED faults
       \/ \* The exception leaves dispatch, and the record as it is.
          /\ Fault
          /\ worker' = Set(worker, d, "done")
          /\ UNCHANGED <<record, disk>>
    /\ UNCHANGED <<alive, connected, current, parent, finished, queue, batch,
                   inHand, chat, injected, cut, crashes, commands>>

-----------------------------------------------------------------------------
(* The worker *)

(* Mutant: a runner that raises ends the worker. *)
FinalizeReturned(d) ==
    /\ alive /\ worker[d] = "run"
    /\ \/ /\ worker' = Set(worker, d, "persist")
          /\ record' = Set(record, d, "finalizing")
          /\ finished' = Append(finished, d)
       \/ worker' = Set(worker, d, "done") /\ UNCHANGED <<record, finished>>
    /\ UNCHANGED <<alive, connected, current, parent, disk, queue, batch,
                   inHand, chat, injected, cut, bounds>>

(* The runner returns, raises, or was interrupted; _finalize. *)
Finalize(d) ==
    /\ alive /\ worker[d] = "run"
    /\ worker' = Set(worker, d, "persist")
    /\ record' = Set(record, d, "finalizing")
    /\ finished' = Append(finished, d)
    /\ UNCHANGED <<alive, connected, current, parent, disk, queue, batch,
                   inHand, chat, injected, cut, bounds>>

(* Mutant: what it raises is logged, and the event published all the same. *)
PersistCompletionLogged(d) ==
    /\ alive /\ worker[d] = "persist"
    /\ worker' = Set(worker, d, "put")
    /\ \/ /\ row' = Set(row, d, "pending")
          /\ newer' = Touch(d)
          /\ UNCHANGED faults
       \/ Fault /\ UNCHANGED disk
    /\ UNCHANGED <<alive, connected, current, parent, record, finished, queue,
                   batch, inHand, chat, injected, cut, crashes, commands>>

(* _persist_completion; what it raises ends the worker. *)
PersistCompletion(d) ==
    /\ alive /\ worker[d] = "persist"
    /\ \/ /\ worker' = Set(worker, d, "put")
          /\ row' = Set(row, d, "pending")
          /\ newer' = Touch(d)
          /\ UNCHANGED faults
       \/ Fault /\ worker' = Set(worker, d, "done") /\ UNCHANGED disk
    /\ UNCHANGED <<alive, connected, current, parent, record, finished, queue,
                   batch, inHand, chat, injected, cut, crashes, commands>>

Publish(d) ==
    /\ alive /\ worker[d] = "put"
    /\ worker' = Set(worker, d, "note")
    /\ queue' = queue \cup {d}
    /\ UNCHANGED <<alive, connected, current, parent, record, finished, disk,
                   batch, inHand, chat, injected, cut, bounds>>

(* How many records _prune_completed_locked drops, the oldest first. *)
Excess == IF Len(finished) > Retained THEN Len(finished) - Retained ELSE 0

(* _note_delivery_attempt, whose failure is only logged; the record gets its
   final status, if it was not dropped by the end of another, and the oldest
   records are dropped. *)
Settle(d) ==
    /\ alive /\ worker[d] = "note"
    /\ worker' = Set(worker, d, "done")
    /\ \/ /\ newer' = IF row[d] = "none" THEN newer ELSE Touch(d)
          /\ UNCHANGED faults
       \/ Fault /\ UNCHANGED newer
    /\ finished' = SubSeq(finished, Excess + 1, Len(finished))
    /\ record' = [e \in Delegations |->
                    IF \E i \in 1..Excess : finished[i] = e THEN "none"
                    ELSE IF e = d /\ record[e] # "none" THEN "done"
                    ELSE record[e]]
    /\ UNCHANGED <<alive, connected, current, parent, row, queue, batch, inHand,
                   chat, injected, cut, crashes, commands>>

-----------------------------------------------------------------------------
(* _async_delegation_watcher *)

(* Mutant: the batch holds what the queue returns when it is empty. *)
DrainPadded ==
    /\ alive /\ batch = {} /\ inHand = None /\ queue # {}
    /\ batch' = queue \cup {None} /\ queue' = {}
    /\ UNCHANGED <<alive, connected, current, parent, record, finished, worker,
                   disk, inHand, chat, injected, cut, bounds>>

Drain ==
    /\ alive /\ batch = {} /\ inHand = None /\ queue # {}
    /\ batch' = queue /\ queue' = {}
    /\ UNCHANGED <<alive, connected, current, parent, record, finished, worker,
                   disk, inHand, chat, injected, cut, bounds>>

(* _async_delegation_owned_by_current_session *)
Owned(d) == current = parent[d]

(* Mutant: whatever became of the event is acknowledged. *)
SkipAcknowledged(d) ==
    /\ alive /\ inHand = None /\ d \in batch
    /\ ~Owned(d) \/ ~connected
    /\ batch' = batch \ {d}
    /\ row' = IF row[d] = "pending" THEN Set(row, d, "delivered") ELSE row
    /\ UNCHANGED <<alive, connected, current, parent, record, finished, worker,
                   newer, queue, inHand, chat, injected, cut, bounds>>

(* A conversation that is not current, or an adapter that is not there: the
   event is "deferred", that is dropped. *)
Skip(d) ==
    /\ alive /\ inHand = None /\ d \in batch
    /\ ~Owned(d) \/ ~connected
    /\ batch' = batch \ {d}
    /\ UNCHANGED <<alive, connected, current, parent, record, finished, worker,
                   disk, queue, inHand, chat, injected, cut, bounds>>

(* _inject_watch_notification: handle_message starts a task for the event, or
   leaves it in the slot of the session that is active. *)
Inject(d) ==
    /\ alive /\ inHand = None /\ d \in batch
    /\ Owned(d) /\ connected
    /\ batch' = batch \ {d}
    /\ inHand' = d
    /\ injected' = Set(injected, d, injected[d] + 1)
    /\ waiting' = waiting \cup {d}
    /\ UNCHANGED <<alive, connected, current, parent, record, finished, worker,
                   disk, queue, entered, missed, strayed, cut, bounds>>

(* handle_message raises: the event is dropped. *)
InjectFails(d) ==
    /\ alive /\ inHand = None /\ d \in batch
    /\ Owned(d) /\ connected /\ Fault
    /\ batch' = batch \ {d}
    /\ UNCHANGED <<alive, connected, current, parent, record, finished, worker,
                   disk, queue, inHand, chat, injected, cut, crashes, commands>>

(* mark_completion_delivered; what it raises is only logged. *)
Acknowledge ==
    /\ alive /\ inHand # None
    /\ inHand' = None
    /\ \/ /\ IF row[inHand] = "pending"
             THEN /\ row' = Set(row, inHand, "delivered")
                  /\ newer' = Touch(inHand)
             ELSE UNCHANGED disk
          /\ UNCHANGED <<cut, faults>>
       \/ Fault /\ cut' = Set(cut, inHand, cut[inHand] + 1) /\ UNCHANGED disk
    /\ UNCHANGED <<alive, connected, current, parent, record, finished, worker,
                   queue, batch, chat, injected, crashes, commands>>

-----------------------------------------------------------------------------
(* The gateway and the chat *)

Command == commands < MaxCommands /\ commands' = commands + 1

(* A conversation with a new session id. *)
Fresh == {c \in Conversations \ {current} :
             \A d \in Delegations : parent[d] # c /\ c \notin entered[d]}

(* The turn of S looks up the conversation with get_or_create_session, or
   follows a run in the conversation of that run.  What waited in the slot was
   merged, and enters together. *)
Enter(S) ==
    /\ alive /\ S # {} /\ S \subseteq waiting
    /\ waiting' = waiting \ S
    /\ \/ UNCHANGED <<current, strayed, commands>>
       \/ \* The session has expired or was suspended, and is renewed.
          /\ Command
          /\ current' \in Fresh
          /\ strayed' = strayed \cup waiting
    /\ entered' = [d \in Delegations |-> IF d \in S THEN entered[d] \cup {current'}
                                       ELSE entered[d]]
    /\ UNCHANGED <<alive, connected, parent, memory, disk, missed, injected, cut,
                   crashes, faults>>

(* /stop takes what waits in the slot, or cancels its task, as a /new does that
   finds no run; the gateway drains for a restart; the run is outdated as it
   has taken its follow-up, or its text is refused. *)
Discard(S) ==
    /\ alive /\ Command /\ S # {} /\ S \subseteq waiting
    /\ waiting' = waiting \ S /\ missed' = missed \cup S
    /\ UNCHANGED <<alive, connected, current, parent, memory, disk, entered,
                   strayed, injected, cut, crashes, faults>>

(* Mutant: the follow-ups of the old conversation are kept. *)
NewKeeps(c) ==
    /\ alive /\ Command /\ c \in Fresh
    /\ current' = c
    /\ UNCHANGED <<alive, connected, parent, memory, disk, chat, injected, cut,
                   crashes, faults>>

(* /new while a run holds the claim of the session: what waits is discarded
   before reset_session.  The children of the conversation are told to stop;
   they end as Finalize has it. *)
New(c) ==
    /\ alive /\ Command /\ c \in Fresh
    /\ current' = c
    /\ waiting' = {} /\ missed' = missed \cup waiting
    /\ UNCHANGED <<alive, connected, parent, memory, disk, entered, strayed,
                   injected, cut, crashes, faults>>

(* /resume (switch_session), a message that renews the session, and a /new that
   finds no run: they leave what waits. *)
Switch(c) ==
    /\ alive /\ Command /\ c # current
    /\ current' = c
    /\ strayed' = strayed \cup waiting
    /\ UNCHANGED <<alive, connected, parent, memory, disk, waiting, entered,
                   missed, injected, cut, crashes, faults>>

Crash ==
    /\ alive /\ crashes < MaxCrashes
    /\ crashes' = crashes + 1 /\ alive' = FALSE
    /\ record' = [d \in Delegations |-> "none"] /\ finished' = <<>>
    /\ worker' = [d \in Delegations |-> IF worker[d] = "none" THEN "none" ELSE "done"]
    /\ queue' = {} /\ batch' = {} /\ inHand' = None /\ waiting' = {}
    /\ missed' = missed \cup {d \in waiting : row[d] = "delivered"}
    /\ cut' = IF inHand = None THEN cut ELSE Set(cut, inHand, cut[inHand] + 1)
    /\ UNCHANGED <<connected, current, parent, disk, entered, strayed, injected,
                   faults, commands>>

(* Mutant: every completed row is restored. *)
PendingCompleted == Completed

(* The rows that restore_undelivered_completions selects. *)
Pending == {d \in Delegations : row[d] = "pending"}

(* Mutant: nothing is restored. *)
RestartEmpty ==
    /\ ~alive /\ alive' = TRUE
    /\ UNCHANGED <<connected, current, parent, memory, disk, chat, injected,
                   cut, bounds>>

(* A new process; the registry of processes restores the queue with
   restore_undelivered_completions, whose failure is only logged.  It takes the
   rows by their completed_at, which the model does not keep. *)
Restart ==
    /\ ~alive /\ alive' = TRUE
    /\ \/ /\ queue' = Pending
          /\ \E at \in [Pending -> 1..Cardinality(Pending)] :
                newer' = [d \in Delegations |->
                  IF d \in Pending THEN {e \in Pending : at[e] > at[d]}
                  ELSE newer[d] \cup Pending]
          /\ UNCHANGED faults
       \/ \* A failing update rolls the others back, not the queue.
          Fault /\ queue' \in SUBSET Pending /\ UNCHANGED newer
    /\ UNCHANGED <<connected, current, parent, record, finished, worker, row,
                   batch, inHand, chat, injected, cut, crashes, commands>>

(* An adapter loses its platform, and a new one is connected; the tasks and
   the slot of the old one go on. *)
Disconnect ==
    /\ connected /\ connected' = FALSE
    /\ UNCHANGED <<alive, current, parent, memory, disk, chat, injected, cut,
                   bounds>>

Connect ==
    /\ ~connected /\ connected' = TRUE
    /\ UNCHANGED <<alive, current, parent, memory, disk, chat, injected, cut,
                   bounds>>

-----------------------------------------------------------------------------
Init ==
    /\ alive = TRUE /\ connected = TRUE /\ current \in Conversations
    /\ parent = [d \in Delegations |-> None]
    /\ record = [d \in Delegations |-> "none"] /\ finished = <<>>
    /\ worker = [d \in Delegations |-> "none"]
    /\ row = [d \in Delegations |-> "none"]
    /\ newer = [d \in Delegations |-> {}]
    /\ queue = {} /\ batch = {} /\ inHand = None
    /\ waiting = {} /\ missed = {} /\ strayed = {}
    /\ entered = [d \in Delegations |-> {}]
    /\ injected = [d \in Delegations |-> 0] /\ cut = [d \in Delegations |-> 0]
    /\ crashes = 0 /\ faults = 0 /\ commands = 0

WorkerStep(d) == \/ PersistDispatch(d) \/ Finalize(d) \/ PersistCompletion(d)
                 \/ Publish(d) \/ Settle(d)

WatcherStep ==
    \/ Drain \/ Acknowledge
    \/ \E d \in Delegations : Skip(d) \/ Inject(d) \/ InjectFails(d)

TurnStep == \E S \in SUBSET Delegations : Enter(S)

ChatStep == \/ Disconnect \/ Connect
            \/ \E S \in SUBSET Delegations : Discard(S)
            \/ \E c \in Conversations : New(c) \/ Switch(c)

Next == \/ \E d \in Delegations : Dispatch(d) \/ WorkerStep(d)
        \/ WatcherStep \/ TurnStep \/ Crash \/ Restart \/ ChatStep

Spec == Init /\ [][Next]_vars

(* Threads run, children end, the watcher polls, the turn of the session ends
   and the next begins, a gateway that died is started again. *)
Fairness == /\ \A d \in Delegations : WF_vars(WorkerStep(d))
            /\ WF_vars(WatcherStep) /\ WF_vars(TurnStep) /\ WF_vars(Restart)
FairSpec == Spec /\ Fairness

-----------------------------------------------------------------------------
(* Properties *)

(* The type invariant. *)
TypeOK ==
    /\ alive \in BOOLEAN /\ connected \in BOOLEAN /\ current \in Conversations
    /\ parent \in [Delegations -> Conversations \cup {None}]
    /\ record \in [Delegations -> {"none", "running", "finalizing", "done"}]
    /\ finished \in Seq(Delegations)
    /\ worker \in [Delegations ->
         {"none", "insert", "run", "persist", "put", "note", "done"}]
    /\ row \in [Delegations -> {"none", "running", "pending", "delivered"}]
    /\ newer \in [Delegations -> SUBSET Delegations]
    /\ queue \subseteq Delegations /\ batch \subseteq Delegations
    /\ inHand \in Delegations \cup {None}
    /\ waiting \subseteq Delegations /\ missed \subseteq Delegations
    /\ strayed \subseteq Delegations
    /\ entered \in [Delegations -> SUBSET Conversations]
    /\ injected \in [Delegations -> Nat] /\ cut \in [Delegations -> Nat]
    /\ crashes \in 0..MaxCrashes /\ faults \in 0..MaxFaults
    /\ commands \in 0..MaxCommands

(* The events on their way to a conversation. *)
Handed == queue \cup batch \cup waiting \cup ({inHand} \ {None})

(* A result that is acknowledged entered a conversation, or waits for its turn,
   or was lost there, to a command or to a crash. *)
AckHonest ==
    \A d \in Delegations :
        row[d] = "delivered" => entered[d] # {} \/ d \in waiting \cup missed

(* A result is handed to the adapter a second time only if an acknowledgement
   was cut off, by a crash or by the database. *)
RepeatsExplained == \A d \in Delegations : injected[d] <= cut[d] + 1

(* An event is handed to the watcher only once the database has the result: no
   crash can lose what somebody is about to see. *)
DurableFirst == \A d \in Handed : row[d] # "running"

(* A result enters a conversation that did not ask for it only if the chat
   changed while the result was at the adapter, and not by a /new that met a
   run: that one leaves nothing of the old conversation behind. *)
OwnConversation ==
    \A d \in Delegations : entered[d] \subseteq {parent[d]} \/ d \in strayed

(* The platform is there, neither the database nor the adapter fails, and the
   chat keeps the conversation. *)
Steady(d) == connected /\ faults = 0 /\ parent[d] \in {None, current}

(* It is in a conversation; or a command discarded it, or a crash after its
   acknowledgement; or newer rows replaced it. *)
Settled(d) == entered[d] # {} \/ d \in missed \/ row[d] = "none"

(* In a steady chat a result that was persisted enters a conversation, whatever
   crash comes first, with the exceptions of Settled. *)
ResultReturns ==
    \A d \in Delegations :
        []Steady(d) => (row[d] = "pending" ~> Settled(d))

(* While the database works, a delegation does not hold its slot for ever. *)
SlotFreed ==
    [](faults = 0) =>
        \A d \in Delegations : record[d] = "running" ~> record[d] # "running"

(* "Background delegations persist completed results across process restarts"
   (tools/delegate_tool.py:2568): once the platform is connected for good, a
   result of the conversation that is still current enters the chat. *)
PersistedReturns ==
    <>[]connected =>
        \A d \in Delegations :
            row[d] = "pending" ~> Settled(d) \/ current # parent[d]
=============================================================================
