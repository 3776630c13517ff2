# Marlow: a verification development

TLA+ models of the parts of Marlow whose correctness depends on the order of
steps of several actors, model-checked with TLC on small instances and proved
with TLAPS for every value of their constants.

Marlow is an agent that answers in chats.  A *gateway* process (`gateway/run.py`)
connects *platform adapters* (`gateway/platforms/`) to *agent runs*
(`run_agent.py`, `agent/`), which call *tools* (`tools/`).  Around the runs live
the scheduler of cron jobs (`cron/`), the stores (`marlow_state.py`,
`gateway/session.py`, `agent/memory_consolidation.py`, `agent/experience/`), and
two more front ends (`cli.py`, `tui_gateway/`).

| module | what it is |
|---|---|
| `CronJobs` | `cron/jobs.py`, `cron/scheduler.py`, `tools/cronjob_tools.py`: the job file, the tick, the user's edits |
| `JobLedger` | abstract: what the scheduler promises of the jobs |
| `CronInvariants` | the inductive invariants behind its safety properties |
| `CronJobs_proofs` | theorems about `CronJobs`, the refinement of `JobLedger` among them |
| `DeliveryGrant` | abstract: what a confirmation of a delivery promises |
| `PendingDelivery` | `gateway/pending_delivery.py`, `tools/send_message_tool.py`: the confirmation itself |
| `PendingDelivery_proofs` | theorems about it, the refinement of `DeliveryGrant` among them |
| `AsyncDelegation` | `tools/async_delegation.py` and the watcher in `gateway/run.py`: delegations that run in the background |
| `AsyncDelegation_proofs` | theorems about `AsyncDelegation` |
| `SessionGuard` | `gateway/platforms/base.py` and the handler of `gateway/run.py`: who processes a chat session, and what becomes of its messages |
| `SessionGuard_proofs` | theorems about `SessionGuard`: types, the lock |
| `SessionMessages_proofs` | theorems about `SessionGuard`: where every message is |
| `SessionCommands_proofs` | theorems about `SessionGuard`: what only a command can cause |
| `SessionOrder_proofs` | theorems about `SessionGuard`: in which order texts reach the agent |
| `SessionRequests` | `tools/approval.py`, `tools/clarify_gateway.py` and the runs of `gateway/run.py`: the questions on which threads of an agent block |
| `SessionRequests_proofs` | theorems about `SessionRequests` |
| `MC*` and `*.cfg` | the instances TLC checks |

`PROJECT.json` maps every definition to the lines it models.

## Inventory

What is not modelled, or only partly, appears in `PROJECT.json` with the reason.

**Cron jobs** (`cron/jobs.py`, `cron/scheduler.py`).  State: `jobs.json`, replaced
as a whole by every write; a lock of the process around the scheduler's own
load-change-save sequences; a lock on a file, held for the whole of a tick.
Operations: create, update (and pause, resume, trigger through it), remove;
`get_due_jobs`, `advance_next_run`, `mark_job_run`; the tick.  Hard: several
processes tick (the gateway, a second gateway, the command line); the user's
operations take neither lock; runs of one tick are parallel; a process may die
in a run.  Correct when no occurrence of a recurring job is run twice, no run of
a job overlaps another, runs are counted exactly and limited, and whatever is
due is dealt with.

**Confirmation of deliveries** (`gateway/pending_delivery.py`).  State: entries
under one lock, each with a state, a result, an event, staged copies of files;
a callback per session.  Operations: register, ask, wait, approve, cancel,
claim, finish, expire, the end of a run.  Actors: the thread of the tool, the
event loop with the user's answer, the end of a run.  Hard: several functions
write to an entry after they released the lock; the session of a stopped run is
handed to the next run while the thread of the first still waits.  Correct when
a message is sent at most once and only while it is granted, the report to the
agent is true, every call returns and nothing outlives its run.

**Background delegation** (`tools/async_delegation.py`).  State: records in
memory, rows in `delegations.db`, a queue of events, the watcher's batch.  Hard:
the process may die between any two steps, the database may be locked, the
platform may be away and the chat may have moved on.  Correct when a result is
durable before anyone sees it, acknowledged only when it was handed to the
adapter, repeated only when an acknowledgement was cut off, and kept out of a
conversation that did not ask for it.

**Session guard** (`gateway/platforms/base.py`, 3380-4830).  State: the guard (an
`asyncio.Event`), the owner task, the pending slot and the text debounce of a
session; chains of successor tasks.  Operations: receive, start, drain in band and
late, dispatch of /stop, /new and /reset, cancel, recover, heal.  Hard: everything,
between awaits; a task adopts the guard it finds.  Correct when one task at a time
processes the session, no message is lost but by a command, an eviction or its own
refusal, and the session becomes free again.

**Gateway runner** (`gateway/run.py`).  State: running agents, run generations,
queued events and a cache of agents per session.  Hard: results of superseded
runs, eviction of runs that look idle, drain at restart.

**Session store** (`gateway/session.py`).  State: `sessions.json` in memory and
on disk.  Hard: expiry and reset against runs in progress.

**Command approval, clarify, slash confirmation** (`tools/approval.py`,
`tools/clarify_gateway.py`, `tools/slash_confirm.py`).  State: queues of entries
under a lock, an event each.  Hard: an answer and a deadline at once; the result
is written after the lock was released.

**File state** (`tools/file_state.py`).  State: read stamps, last writers and
locks per path.  Hard: sibling agents that read, write and are evicted from
bounded tables.

**Processes** (`tools/process_registry.py`).  State: running and finished
processes, a checkpoint file, the completion queue.  Hard: exit, kill, poll and
recovery after a crash.

**Stream consumer** (`gateway/stream_consumer.py`).  State: a thread-safe queue,
the message being edited.  Hard: the final text against flood control and the
fallback send.

**Memory consolidation** (`agent/memory_consolidation*.py`).  State: an outbox,
leases, one cursor per scope, in SQLite.  Hard: a lease that expires while its
holder still works.

**Experience store**, **session database**, **memory manager**, **context
compression**, **conversation loop**, **transports**, **skills and curator**,
**checkpoints**, **MCP**, **command line and terminal UI**, **plugins**: mostly
sequential code over a database or a wire format.

Interactions: the adapter calls the runner's message handler; the runner starts
an agent run on a thread and registers the callbacks of the session for
approvals, clarifications and deliveries; tools on that thread block on events
the event loop sets; tasks of the event loop drain the completion queue and turn
events into messages; the cron ticker is a thread of the gateway that runs
agents of its own.

## Modules

### CronJobs and JobLedger

`disk` is `jobs.json`: a record per job with the fields the scheduler decides on
(schedule, repeat limit and count, enabled, state, next and last run).  A load
and the save that follows it are two steps, because only some of the callers hold
a lock between them; in between the file in memory is in `tfile` (a tick), `wfile`
(a worker marking its run) or `edit` (the user).  `lock[p]` is `_jobs_file_lock`
of a process and `flock` the lock of `tick`.

A tick is `TickStart`, `GetDueLoad`/`GetDueSave`, `AdvanceLoad`/`AdvanceSave` per
due job, `Dispatch`, `RunStart`, `MarkLoad`/`MarkSave` per job, `TickEnd`.
`DueFile`, `AdvancedFile` and `MarkedFile` are what the three functions of
`jobs.py` make of the file; `ComputeNextRun`, `RecoverableOneshot` and `Grace` are
their helpers.  A user operation is a first load that resolves the reference to a
job (`EditResolve`), a second on which the change is made (`EditLoad`), and a save
(`EditSave`); `CreateLoad` needs one load.  `Crash` ends a process that ticks; its
locks go with it and `jobs.json` stays.

Time is a small clock whose unit is no longer than any period; the match of a cron
expression is the constant `CronNext`, of which only that it is later is assumed.
What a run does, its output files and the delivery of its output are not modelled;
a run always ends (the scheduler has an inactivity timeout) and its outcome does
not matter to the file.

`JobLedger` is what the scheduler promises while nobody edits the file: `Start` a
run of a job for an occurrence, `Finish` it, `Lose` all runs with their process.
It knows no locks, copies, ticks or processes.  `LedgerKept` reads its variables
off the detailed module: the jobs of `disk`, their limits, how often they were
counted (`marks`), the occurrence a run last started for (`fired`), and the jobs
that run in any process.  A save that drops a job and the count that made it drop
are one step of both, so that a job leaves the file exactly at its limit.

### PendingDelivery and DeliveryGrant

`pc` says where the thread of a `send_message` call is, `entries`, `state`, `result`
and `event` are the entries, `files` the staged copies.  A function is one step as
far as it holds the lock.  `unregister_gateway_notify` is three kinds of steps
(`Unregister`, `Wake`, `Mark`), because it goes on writing to entries it took out,
after it released the lock.  An answer is two steps: `Answer` is
`resolve_from_event` up to the call of `cancel` or `approve`, which take the lock
again.  The attachments are copied between `Stage` and `Staged`, which removes what
was copied when one is missing.  `clock` says which of two deadlines has passed: the
expiry of the entry, and the end of the wait, which begins later and is as long.

`StartRun`, `Stop`, `Unregister` and `ClearSession` are what the runner does: a run
that was stopped gives up its session at once, and ends whenever its thread
notices.  `Unregister` waits for the call of its run, since the thread that runs
the agent is the one that blocks: send_message is not among the tools that
`execute_code` serves (`code_execution_tool.py:55`) or a child has
(`delegate_tool.py:45`), whose threads a run may leave behind.  A run starts when its
session has none, or when one of its session was stopped.  `Stop` stands for all that
frees a session under a run: /stop and /new, the eviction of a stale claim
(`run.py:6768`) and the inactivity timeout (`run.py:17874`).  The first three are in
`SessionGuard`; that nothing else begins a run beside another is an assumption of
this module and of `SessionRequests`, read from the code and not proved.

`DeliveryGrant` is the promise in six words per request: new, asked, granted, used,
over or void.  `Grant` computes it from a request's thread and its entry, and
`GrantKept` says that every step of the detailed module is a step of the abstract
one or none.  The end of a run voids all its requests at once, so a step of
`DeliveryGrant` voids a set.

### AsyncDelegation

`worker` is the place of a worker thread: it inserted its record, runs the child,
writes the result to the database, puts the event on the queue, notes the delivery
attempt.  `row` is the row in `delegations.db`, and `newer` the order of
`updated_at`, by which rows are retired; `finished` is the order by which records in
memory are pruned.  The watcher takes the whole queue (`Drain`), drops what the chat
does not want or the platform cannot take (`Skip`), hands the rest to the adapter
(`Inject`, or `InjectFails` when that raises) and acknowledges (`Acknowledge`) in
separate steps.  `Crash` empties the memory; `Restart` fills the queue from the
pending rows.  Every write to the database and every hand-over may raise (`Fault`),
and each caller treats that its own way: the dispatch leaves a record without a
worker, the completion ends the worker, the others only log.

An event that was handed over is not in a conversation yet: it waits (`waiting`) in
the slot of the session or with a task, until a turn takes it and looks the
conversation up (`Enter`, `get_or_create_session` at `run.py:8009`).  The check of
the watcher (`run.py:15127`), the acknowledgement (`run.py:15142`) and the turn are
three steps, and between any two of them `New` (/new on a session with a run: the
slot is discarded, then the conversation reset), `Switch` (/resume, a /new without a
run, or a message that renews an expired session: what waits stays), `Discard`
(/stop, the drain of a restart, a follow-up that is refused or whose run is
outdated) or a crash may come.  `entered` remembers where a result went, `missed`
what was thrown away at the adapter, or was acknowledged and died there with the
process, and `strayed` what waited there while the conversation changed.

The slot, the task and the run in which an event waits are one set here;
`SessionGuard` has them apart.

Not modelled: rows older than a week, the delivery to the CLI and the TUI (whose
acknowledgement comes after the turn), the steer and interrupt modes, which put a text
into the run that is under way, what a turn does with the result, and the children.

### SessionGuard

Everything here is one event loop, so a step is what happens between two awaits
that really suspend.  A guard is an `asyncio.Event` that is compared by identity;
it is named by the task or the command it was made for, and a guard that a task
makes because it found none is `Own(t)`.

`task` holds a record per `asyncio.Task`: its place, its event, the guard it adopted
(`guard`) and the guard it was started under (`made`), whether it was cancelled, and
for the root of a chain the task it waits for.  A task that was created runs later
(`Start`); that is when a command may have come in between. `BeginRun`, `NextTurn`,
`RunEnd`, `RunFollows`, `RunSuperseded`, `Refuse` and `BusyRun` are what the handler
in `gateway/run.py` does with the claim of the session (`running`), the generation
(`current`) and the same pending slot; `Reply`, `Handoff` and `Finish` are the
drains of `_process_message_background`; `TakeCancel` is `CancelledError` at each of
its awaits.  `Promote` is `track_agent`, which puts the agent of a current run in
the place of the sentinel, or of nothing.  A run is set up before its agent sees
anything (`Preparing`): its claim is a sentinel then, and the turn may be refused or
raise (`Refuse`: a blocked reference of `_prepare_inbound_message_text`,
`run.py:7919`, for a first turn and for a follow-up taken from the slot,
`run.py:18178`; or what the runner answers itself).

`EvictStale` is the eviction of `run.py:6768-6838`: an event that meets a claim
whose agent was idle for the timeout outdates the run, releases its claim and goes
on, while the task of the run lives.  It happens to a message (`BeginRun`), a
command that takes the guard (`CommandHandle`) or one that bypasses it (`Evict`).
It needs an agent in the claim and the time of the claim in `_running_agents_ts`
(`stamped`, `run.py:6774`).  The idle time is not modelled: an agent may always be
the one that hangs.

A message is in `pending`, `buffer`, an event of a task, or was
given to the agent (`runs`) or dropped (`lost`, with the reason).  History variables
besides: who sent a text that no command has touched (`said`), which messages a
command may cost (`exposed`), the runs a command found and took the claim from
(`stopped`), and those that were evicted (`evicted`).

A command that takes the guard is `CommandArrive`, then what the runner does with
it, then the cancellation of the owner and the drain (`CommandCancel`,
`CommandDrain`), or the recovery (`CommandFail`), or nothing when a later command
has taken the guard (`CommandYield`).  `AskReset` and `ConfirmReset` are a /new
whose confirmation comes late.

Abstractions.  `busy_text_mode` and `busy_input_mode` are "queue", the modes that
use the slot; interrupting and steering bypass it.  A command in an idle session
is an ordinary turn.  The agent, the sending of a response and the hooks are steps
that end or raise.  `Drain` assumes that a cancelled task which had nothing to wait
for has moved on when the drain runs, because the loop runs ready tasks in order
and the command awaited at least once since.  The prompt of `slash_confirm` does
not expire.  /resume and the hand-off from the command line release the claim of a run
without outdating it (`run.py:13065`, `run.py:5194`); they and goal continuations are
left out.  In the instance, a message is written by a sender who wrote before, or
by the next new one, as senders are only compared.

### SessionRequests

Threads of an agent run block here on questions to the users: an approval
(`Call`, `Enqueue`, `Notify`, `NotifyFailed`) or a clarification (`Register`,
`Render`, `SendFailed`, `Begin`), then for both `Wake` or `Expire`, `Drop`, `Read`.
Each is the code between two acquisitions of the lock.  All functions that answer
(`Resolve`, `Take`, `Boundary`, `Unregister`, `EndRun`) take or find entries under
the lock and write the result and the event after it: `writes` holds what is yet
to be written and by whom, `Write` does it.  The event loop is one thread, so its
next input waits for its writes.

`StartRun`, `Stop`, `Unregister` and `EndRun` are a run against its session; it
starts under the same condition as in `PendingDelivery`.  A run ends when the
threads it waits for are back, also after an interrupt: the `with` around the
executor (`agent/tool_executor.py:358`) joins the threads of its pool.  It does not
join the thread that serves the calls of an `execute_code` script: when the script
is over or killed while that thread waits for an approval, the join gives up after
three seconds (`code_execution_tool.py:1303`).  `Abandon` is that; an abandoned
thread may go on to ask after its run has ended (`Call`). `Once` stands for every
choice that approves; what a session or permanent choice adds to the allow-lists,
the classifier of commands, hooks and heartbeats are left out.  Which approvals only
their own card may decide (`scoped`) depends on the configuration and is chosen
freely.  When a thread returns, its entry is garbage and the model clears it.

## Runs

| run | instance | shows |
|---|---|---|
| `cron_tick` | 2 processes, 3 jobs (one sequential), all three kinds of schedules, limits none and 2, clock to 2, 1 crash, no edits | `AtMostOnce`, `NoLostMark`, the refinement `LedgerKept`, and the invariant `CronInv` that the proofs use (the repeat limit is a part of it) |
| `cron_edits` | 2 processes, 1 job, all 8 user operations, 2 of them, 1 crash | `NoConcurrentRun` and `SchedInv` whatever the user does; `DueHandled`: nothing stays due for ever |
| `cron_outage` | 2 processes, 2 jobs, croniter missing, clock to 4, 1 crash | `RecurringNeverDisabled`, and `OneShotRetired` |
| `cron_refire` | 1 process, 1 job, 1 edit | a violation of `AtMostOnce` (below) |
| `cron_trigger` | 1 process, 1 job, 1 trigger | a violation of `TriggerKept` (below) |
| `delivery` | 2 requests, 2 runs of one session, another session and user | the refinement `GrantKept`, `CancelHonoured`, `ReportTrue`, `NoOrphan`, `FilesGone`, and `CallReturns` |
| `delivery_stop` | 1 request, 1 run | a violation of `StopWithdraws` |
| `delivery_end` | 1 request, 2 runs | a violation of `OwnEndOnly` |
| `async_delegation` | 2 delegations, 1 slot, no completed row retained, 1 crash, 1 failing write or hand-over, 1 change of conversation or discard | `AckHonest`, `RepeatsExplained`, `DurableFirst`, `OwnConversation`, `ResultReturns`, `SlotFreed` |
| `async_return` | 1 delegation, 1 crash | a violation of `PersistedReturns` |
| `session` | 4 messages of up to 3 senders, one of which may be refused, 1 command, 1 prompted reset, evictions, 4 inputs in all, 4 tasks, depth 1 | `OneProcessor`, `Accounted`, `InOrder`, `LossExplained`, `NoHeal`, `NotStranded`, `ClaimExplained`, `CommandGuardKept`, and `Answered`, `Released` |
| `requests` | 2 questions out of 2 approvals and 2 clarifications, 2 runs, 2 inputs or abandoned threads | `DecisionHonoured`, `AnswerReturned`, `OverlapOnly`, and `Released` |

**Bounds.**  Two processes are enough for every race on the file lock and for a tick
that follows a crash; a second crash only repeats the first, because a dead process
leaves nothing but the file.  Three jobs give two parallel workers and a sequential
job beside them.  The clock of 2 or 4 units spans two occurrences of a job of period
1 or 2 and the grace after each.  Two edits are one operation overtaken by another.
Two requests of two runs contain every crossing of an answer, an expiry and the end
of another run; further requests meet the same entries pairwise.  Two delegations
with one slot and no retained row let a dispatch retire a result that nobody has
seen, and fill the slot; one change of the conversation can come before, during or
after each hand-over (two were explored, without a violation).  A third sender is
the one whose text finds both the slot and the buffer taken; four inputs (a message,
a command, a prompted reset and an eviction count one each) are a command, a prompt
or an eviction around three messages, or four messages; a task is made per input at
most.  One refusable message (`Refusable`) is a first turn, a follow-up, or a part
of one.  One command meets every place of a task; a second one, within the same four
inputs, was explored without a violation of the safety properties.  Two questions in
one queue, or of two runs, and two inputs are every crossing of an answer with
another answer, a deadline, a stop, a boundary, an abandoned thread or the end of a
run; three questions or three inputs were explored for safety.  The safety results
do not depend on these bounds where a theorem exists.

**Deadlock** is not checked: the clocks, the requests and the delegations are
finite, so the systems stop when all is done.  That a thread does not hang is what
`CallReturns`, `SlotFreed`, `DueHandled` and `OneShotRetired` say.

**Fairness** is assumed of what the code runs unconditionally, and of nothing the
user or the environment does.  Cron: the ticker thread of a process ticks every
minute and a tick is a loop (`TickStep`), time passes (`Tock`).  Delivery: the
thread of a call takes its next step, and time passes.  Delegation: worker threads
run, the watcher polls, the turn of an event that waits begins (the run before it
ends), a gateway that died is started again.  Session: the event loop runs what is
ready and a timer fires; an agent's run ends, by its inactivity timeout at the
latest; a command's handler and its response end. Requests: the threads of a run
take their next step, and whoever has taken an entry writes to it; the deadline of a
wait is *not* fair, so that `Released` says the answer itself wakes the thread.
Crashes, faults, stops, answers, edits and the platform's connection are not fair.

## What the violations say

They are disagreements between the code and what the repository says of it;
`PROJECT.json` quotes both.

- `cron_refire`: `update_job` saves a file it loaded before `advance_next_run`, so
  an occurrence that has run becomes due again.
- `cron_trigger`: a trigger given while a tick has picked the job is overwritten
  by that tick.
- `delivery_stop`: /stop does not withdraw the open request of the run it stops;
  the request can still be approved.
- `delivery_end`: the late end of a stopped run withdraws the request of the run
  that replaced it.
- `async_return`: an event that cannot be injected is dropped in memory, so the
  persisted result does not come back in the life of this process.

## What the models show besides

These are outcomes the properties of `session` and `requests` name as their
exceptions, or that a reader should know when changing this code.

- *A command's guard is adopted* (`base.py:4226`).  A task created just before a
  command runs when the command's guard is installed, and takes it for its own.
  From then on two tasks may process the session, or the guard may stay; this is
  why the properties of `SessionGuard` say `foreign = {}`.
- *A claim without a run* (`run.py:18264`).  A run whose generation is old does not
  release the claim, on the ground that who outdated it "has already installed its
  own state".  A /new that was prompted in a free session and is confirmed while a
  run is on (`run.py:13696`, `slash_confirm.resolve`), or a /new handled just before
  the run claims the session, outdates the run and installs nothing: the claim
  stays.  The eviction of stale claims does not free it: it asks for the time of the
  claim (`run.py:6774`), which the handler takes away whenever it ends
  (`run.py:7685`), so every later message finds the session busy until a /stop or /new
  clears it.  `ClaimExplained` says that in the model only a command or a confirmed
  reset leads there, and that such a claim never has its time.
- *A run without its claim* (`run.py:7680`).  The `finally` of the handler releases
  the claim without a generation when it finds a sentinel there, whoever set it: a
  run that was stopped drops the sentinel of the run that replaced it, although
  "an older async run whose generation was bumped by /stop or /new" must not clobber
  "a newer run's state" (`run.py:15526`).  Until `Promote` sets it again, a message
  may begin a second run beside it.  `ClaimExplained` says that this
  needs a command that found a run to stop, or an eviction.
- *Media overtakes texts.*  A photo goes to the slot while an earlier text of the same
  sender is still in the buffer, and a run that follows takes the slot only; so
  `InOrder` is about texts.
- *A follow-up lost to a stop.*  A message sent after /stop may be discarded with
  what /stop discards, because the discarding comes after an await
  (`run.py:15672`); or be taken from the slot by the stopped run and dropped as
  superseded (`run.py:18056`); or be in the chain that is cancelled.  `LossExplained`
  names what else can cause it: an eviction, a third sender (`base.py:3521`), or the
  refusal of the follow-up itself, which the run then drops (`run.py:18178`).
- *Clarifications outlive /stop and /new.*  `clarify_gateway.clear_session` says it
  is "used by session-boundary cleanup (e.g. `/new` ...)", but only the end of a run
  and a failed send call it; until the run ends, the next text is taken for the
  answer to its question.
- *A failed send or a late end withdraws what is not its own*
  (`run.py:16899`, `run.py:17361`, `run.py:17378`): the cleanup is by session.
  `OverlapOnly` bounds it to sessions where runs overlapped, and to the questions of
  threads that their own run abandoned: that end denies an approval the user may still
  look at, and the command does not run.
- *A result acknowledged and not seen.*  The acknowledgement (`run.py:15142`)
  follows the hand-over and precedes the turn: a /stop that empties the slot, or a
  crash before the turn, loses a result that no restart restores (`missed` in
  `AckHonest`).
- *A result in another conversation.*  A result that waits at the adapter enters the
  conversation its turn finds: after a /resume, a /new that found no run, or the
  renewal of an expired session that is another one, although the watcher requires
  "the event's durable parent or compression tip to own its route" (`run.py:15024`),
  and for it "the same stable route after /new is deliberately not sufficient"
  (`run.py:15041`).  `OwnConversation` bounds it to these (`strayed`): a /new that
  meets a run leaves nothing behind.
- *A job that no outcome disabled, but an edit left disabled.*  A one-shot that may
  run again is paused while it runs; a change of its schedule sees it paused; the end
  of the run completes it, and the change then makes it recurring without enabling it.
  `Rescheduling` excludes changes of the schedule for this reason.  Without croniter
  the end of a run also turns "paused" into "error" (`jobs.py:920`).
- *Told too much.*  A card may be told that its command was approved although the
  wait has just expired (`approval.py:833`); the command does not run, which is what
  `DecisionHonoured` says.  A second text to one clarification overwrites the first.

## Proofs

All proofs are checked by `tlapm` to the last leaf, from the assumptions the
modules declare (`CronAssumption`, `NoJobAssumption`, `RunAssumption`,
`DelegationAssumption`, `GuardAssumption`, `RequestAssumption`) and nothing else.

**CronJobs_proofs.**  `SchedInv` (types, `LockInv`, `EditInv`) is inductive by
itself, with every operation of the user included; `LockInv` says that a process
is inside a tick exactly when it holds the file lock, and that one of its threads
is between a load and a save exactly when `_jobs_file_lock` is held.
`Exclusion` follows at once.  `NoLostMark` is not inductive: the file that is about to
be saved counts too.  `CountInv` adds that such a file agrees with `jobs.json` but for
the one record it changes.  `AtMostOnce` needs `OccInv`: the next run in `jobs.json`,
and in every file in memory that will replace it, is later than the occurrence that
was started last.  These two hold only while nobody edits (`Editors = {}`), and the
last needs croniter; `cron_refire` shows why the first condition is there.
`OutcomeInv` says that every file that will replace `jobs.json` keeps recurring jobs
enabled or paused.  It survives the user's edits too, but for a change of the
schedule, as long as croniter is installed; without croniter the end of a run
overwrites "paused" by "error", so there it needs `Editors = {}` (`OutcomesKnown`).

`KeepsLedger` is the refinement of `JobLedger`, and `LedgerInv` what it needs beyond
locks, counts and occurrences: a one-shot keeps its only time and has none once it
was run (`OnceKept`), every copy of the file has the schedules of the file
(`SameSchedule`), a worker about to save drops its own job only and only at its
limit, and a job that was picked is in the file as it was picked until its own run
is marked (`PickInv`).  Each action then maps: a load, a repair, an advance and a
tick that ends change no variable of the ledger (`LedgerStutter`); `RunStart` is
`Start` (`RunStarts`), where "no job beside a sequential one" comes from the order
in which a tick starts jobs and from the file lock across processes; `MarkSave` is
`Finish` (`MarkFinishes`); the death of a process is `Lose` (`CrashLoses`).

**PendingDelivery_proofs.**  `Inv` says where the thread of a request can be while
its entry is in `_entries`, taken out by the end of a run (`DoomedInv`), or
cancelled (`RefusedInv`), and that only the thread that sent reports so
(`SendsInv`, `ResultInv`).  The safety properties are its consequences.
`Refinement` then shows for each action what it does to `Worth`: one request moves
one step, or some requests become void (`MoveStep`, `VoidStep`).
`FilesInv` is about the runs of a session: two of them overlap only once one was
stopped (`AloneInv`), and without a stopped run a staged file is with the thread, an
entry, or what the end of its own run took out (`StoredInv`); so the end of the run
meets it.

**AsyncDelegation_proofs.**  The invariant ties the place of the worker to the row
(`Stages`), says that a dead process holds nothing (`Dead`), that an event is at one
place (`OnePlace`), and counts (`Counts`): as long as a result can still be
injected, it was injected no more often than its acknowledgement was cut off.

`Accounted` says that the event the watcher is about to acknowledge entered a
conversation, waits at the adapter or was missed. `Tracked` says that an event that
waits for its turn belongs to the conversation of the chat or has strayed; with it
`Ownership` follows over the hand-over, the commands and the turn, which are
separate steps: `New` keeps it because it discards what waits before it changes the
conversation.

`NothingForgotten` and `SlotsHeld` are the parts of `ResultReturns` and `SlotFreed`
that are safety.  The first is a theorem about behaviours in which the platform
stays connected, nothing failed and the chat keeps its conversation (`Steady`, the
conditions under which `ResultReturns` promises it): a pending row always has
somebody who will publish it, the adapter where it waits, or a process that is dead
and will restore it (`Routed`).  The second says that only a thread that is under
way holds a slot, as long as no write failed.

**SessionGuard_proofs.**  Typing needs `Carry`: a task at a place where it holds an
event has one.  `Lock` is the invariant behind the exclusion, and holds as long as
no task adopted the guard of another.  Its core: whoever is alive and not cancelled
is the owner (`Single`); the guard is installed exactly while there is an owner or a
command under way (`Installed`); a task works under the guard its chain was started
with (`Makers`); a cancelled task has lost that guard for good (`Cut`) and makes no
successor (`Ends`).  `NoHeal`, `NotStranded` and `CommandGuardKept` follow from it.
`TakeCancel`, `Handoff` and `Finish` are the steps with content; the rest only move
a task that stays the owner (`MoveLock`).

**SessionMessages_proofs.**  A message waits in the slot, in the buffer, with a task
that is to handle it, or with one that hands it over.  `Disjoint` says that these
places have no message in common, `Sums` that what waits is what came and was
neither given to the agent nor dropped.  Each step moves whole events from place to
place (`Moves`, `QueueMoves`); the end of a turn, where the in-band drain, the late
drain and the successor meet, is the long case (`EndSorted`).  `Accounted` follows,
and with it that no message is given to the agent in two turns.

**SessionOrder_proofs.**  `InOrder` speaks of messages that were given to the agent;
an order that is inductive has to speak of those that wait.  `Line` does: of two
texts of a sender, the earlier is not in the buffer while the later is in the slot,
does not wait in either while the later is with a task, and does not wait at all
once the later was given.  It needs that the buffer holds one sender's texts
(`Texts`), that messages come in the order of their numbers (`Prefix`), and that
nothing is in `said` while a command disturbs the session (`Told`), since a command
throws the order away together with what waits.  Steps either move places on as a
whole (`Advance`) or put a new text behind all of its sender's.

**SessionCommands_proofs.**  A run holds the claim and the current generation until
something outdates it, and only a command, a confirmed reset or an eviction does
(`Holding`); an eviction takes the claim along, so a claim without a run has one of
the other two behind it, and has lost its time.  In the other direction, a run loses
its claim only to a command that found one to stop (`stopped`) or to an eviction:
before that, all that clears the claim is the end of the run that has it
(`Clearing`). For lost messages, `Exposure` says that everything that came is
exposed while the session is disturbed: a command under way or an eviction behind
it, a cancelled task, a superseded run, a claim left behind, an adopted guard.
Without a disturbance (`Calm`) one task owns all that happens, and no step of it but
a refusal drops a message, or starts a disturbance (`CalmStep`).

**SessionRequests_proofs.**  A decision is made under the lock and read by the
thread without it.  `Decisions` follows it: in the queue there is none; while it is
written there is exactly one write, and the event is not set; once the event is set
the result is the decision.  `Answers` is the same for clarifications, where several
answers may be on their way.  `Places` and `Sessions` say whose threads wait in the
queues, so that the end of a run can only meet questions of runs that overlap it or
of threads that were abandoned. `NoLostWakeup` is the part of `Released` that is
safety: once a question is settled, its thread has its event set or a step that sets
it is under way, and no later answer, boundary or end of a run takes that back
(`Wakes`).

Every safety property that a run checks is a theorem.  Only model-checked are the
liveness properties (`DueHandled`, `OneShotRetired`, `CallReturns`, `ResultReturns`,
`SlotFreed`, `Answered` and the two `Released`): liveness under fairness is out of the
prover's reach, and so is induction over data.  `NoLostWakeup`, `NothingForgotten` and
`SlotsHeld` prove of three of them what is left when fairness is taken away: the step
that has to happen is always there to be taken.

## Not modelled, and the plan

The session store, the registries of files and processes, the stream consumer and
the consolidation of memory have protocols worth a module each:

- `MemoryConsolidation`: outbox, lease and cursor with crashes, against a log that is
  applied once and in order;
- `FileState`: the registry with its bounded tables, against the reference "warn
  whenever another agent wrote since I read";
- `ProcessRegistry` with its recovery, sharing the completion queue with
  `AsyncDelegation`;
- `SessionReset`: expiry, reset and resume of the session store, composed with
  `SessionGuard`;
- pure algorithms: the boundary of a compression.

Of the modules there are, two abstractions are worth stating next: an outbox (asked,
stored, shown, acknowledged) that `AsyncDelegation` implements, and the runs of a
session as a module of its own that `SessionGuard` implements and `PendingDelivery`
and `SessionRequests` use, in the place of their assumption about who begins beside
whom.

Of the components that are modelled partly, the other busy modes of the adapter,
the cache of agents of the runner, the allow-lists of approvals and the expiry of
a confirmation are left.  The rest is sequential code over a database or a wire
format, or belongs to a library; `PROJECT.json` gives the reason for each.
