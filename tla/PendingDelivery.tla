--------------------------- MODULE PendingDelivery ---------------------------
(***************************************************************************)
(* gateway/pending_delivery.py: the confirmation of a message an agent     *)
(* wants to send to another conversation, with its callers: the            *)
(* send_message tool (tools/send_message_tool.py), whose thread blocks for *)
(* the user's answer, the gateway's event loop, which hands the answer in, *)
(* and the end of an agent run (gateway/run.py), which withdraws what is   *)
(* left.                                                                   *)
(*                                                                         *)
(* The entries live in memory under one lock, and what a function does     *)
(* while it holds the lock is one step.  Several functions go on writing   *)
(* to an entry after they released it; those writes are steps of their     *)
(* own.  A run of an agent executes its send_message calls one by one.  A  *)
(* run that was stopped gives up its session at once, so the next run may  *)
(* start while the thread of the first is still blocked.                   *)
(*                                                                         *)
(* The last two variables are history: no action's guard reads them.       *)
(***************************************************************************)
EXTENDS Naturals

CONSTANTS
    Requests,   \* request identifiers, drawn at random by make_request_id
    Runs,       \* runs of an agent
    Sessions,   \* session keys
    Actors,     \* users (with the route their message came by)
    SessionOf,  \* the session of a run
    ActorOf,    \* the user a run works for
    None

ASSUME RunAssumption ==
    /\ SessionOf \in [Runs -> Sessions] /\ ActorOf \in [Runs -> Actors]
    /\ None \notin Runs \cup Requests
    /\ None \notin {"cancelled", "timed_out", "ended", "sent", "failed",
                    "denied", "error"}

VARIABLES
    run,      \* per run: "new", "active", "closing" or "ended"
    stopped,  \* the runs that were stopped
    notify,   \* _gateway_notify_cbs: the run whose callback a session has
    call,     \* per run: the request of its send_message call, or None
    doomed,   \* per run: entries taken out, not yet cancelled by its end
    owner,    \* per request: its run
    pc,       \* per request: where the tool's thread is
    entries,  \* the requests in _entries
    state,    \* per request: the state of the entry
    result,   \* per request: the result of the entry, or None
    event,    \* the entries whose event is set
    clock,    \* per request: "open", past its expiry, or past the deadline
    shown,    \* requests whose confirmation the user has seen
    reply,    \* the answer the event loop is handing in
    files,    \* requests with staged files on the disk
    told,     \* per request: what the tool call returned, or None
    sends,    \* history: how often a request was handed to the platform
    refused   \* history: requests the user cancelled

entry == <<entries, state, result, event>>
runs == <<run, stopped, notify, call, doomed>>
hist == <<sends, refused>>
vars == <<runs, owner, pc, entry, clock, shown, reply, files, told, hist>>

Revocable == {"pending", "approved"}
NoReply == [request |-> None, choice |-> "none"]

(* Mutant: an entry that is neither pending nor approved leaves the index but
   stays in _entries. *)
OfSessionRevocable(s) ==
    {q \in entries : SessionOf[owner[q]] = s /\ state[q] \in Revocable}

(* _forget and the pops of whole sessions take a request out of _entries and
   of _session_index together, so the index is not a variable. *)
OfSession(s) == {q \in entries : SessionOf[owner[q]] = s}

Set(f, q, v) == [f EXCEPT ![q] = v]

-----------------------------------------------------------------------------
(* The send_message call *)

(* The call of a run ends with what it returns to the agent. *)
Return(q, what) ==
    /\ pc' = Set(pc, q, "done")
    /\ told' = Set(told, q, what)
    /\ call' = Set(call, owner[q], None)

(* The attachments are copied one by one; a run that was stopped starts no
   more tools. *)
Stage(r, q) ==
    /\ run[r] = "active" /\ r \notin stopped
    /\ call[r] = None /\ owner[q] = None
    /\ owner' = Set(owner, q, r)
    /\ pc' = Set(pc, q, "copying")
    /\ call' = Set(call, r, q)
    /\ files' = files \cup {q}
    /\ UNCHANGED <<run, stopped, notify, doomed, entry, clock, shown, reply,
                   told, hist>>

(* The last one is copied, or one is missing: what was copied is removed. *)
Staged(q) ==
    /\ pc[q] = "copying"
    /\ \/ /\ pc' = Set(pc, q, "staged")
          /\ UNCHANGED <<files, told, call>>
       \/ /\ Return(q, "error")
          /\ files' = files \ {q}
    /\ UNCHANGED <<run, stopped, notify, doomed, owner, entry, clock, shown,
                   reply, hist>>

(* register, with a new entry. *)
Register(q) ==
    /\ pc[q] = "staged"
    /\ pc' = Set(pc, q, "registered")
    /\ entries' = entries \cup {q}
    /\ state' = Set(state, q, "pending")
    /\ UNCHANGED <<runs, owner, result, event, clock, shown, reply, files,
                   told, hist>>

(* What cancel does to an entry it may cancel. *)
Cancelled(q) ==
    /\ state' = Set(state, q, "cancelled")
    /\ result' = Set(result, q, "cancelled")
    /\ event' = event \cup {q}
    /\ files' = files \ {q}
    /\ entries' = entries \ {q}

(* request_confirmation asks through the callback of the session; without
   one the entry is dropped. *)
Prompt(q) ==
    /\ pc[q] = "registered"
    /\ IF notify[SessionOf[owner[q]]] = None
       THEN /\ Return(q, "cancelled")
            /\ state' = Set(state, q, "cancelled")
            /\ event' = event \cup {q}
            /\ files' = files \ {q}
            /\ entries' = entries \ {q}
            /\ UNCHANGED shown
       ELSE \* The callback only logs that a message did not get through.
            /\ pc' = Set(pc, q, "prompted")
            /\ shown' \in {shown, shown \cup {q}}
            /\ UNCHANGED <<state, event, files, entries, told, call>>
    /\ UNCHANGED <<run, stopped, notify, doomed, owner, result, clock, reply,
                   hist>>

(* The callback returns, later than an answer to it may. *)
Prompted(q) ==
    /\ pc[q] = "prompted"
    /\ IF state[q] = "cancelled" /\ result[q] # None
       THEN /\ Return(q, result[q])
            /\ files' = files \ {q}
            /\ entries' = entries \ {q}
       ELSE /\ pc' = Set(pc, q, "entering")
            /\ UNCHANGED <<files, entries, told, call>>
    /\ UNCHANGED <<run, stopped, notify, doomed, owner, state, result, event,
                   clock, shown, reply, hist>>

(* wait_for_approval looks the entry up again. *)
Enter(q) ==
    /\ pc[q] = "entering"
    /\ IF q \in entries
       THEN pc' = Set(pc, q, "waiting") /\ UNCHANGED <<told, call>>
       ELSE Return(q, "denied")
    /\ UNCHANGED <<run, stopped, notify, doomed, owner, entry, clock, shown,
                   reply, files, hist>>

(* _expire *)
Expire(q) ==
    IF q \in entries /\ state[q] \in Revocable
    THEN /\ state' = Set(state, q, "expired")
         /\ result' = Set(result, q, "timed_out")
         /\ event' = event \cup {q}
         /\ files' = files \ {q}
         /\ entries' = entries \ {q}
    ELSE UNCHANGED <<entry, files>>

(* Mutant: the wait goes on when _expire found nothing to expire. *)
WaitTimeoutExpired(q) ==
    /\ pc[q] = "waiting" /\ clock[q] = "over"
    /\ q \in entries /\ state[q] \in Revocable
    /\ Expire(q)
    /\ Return(q, "timed_out")
    /\ UNCHANGED <<run, stopped, notify, doomed, owner, clock, shown, reply,
                   hist>>

(* The deadline of wait_for_approval, whatever the entry has become. *)
WaitTimeout(q) ==
    /\ pc[q] = "waiting" /\ clock[q] = "over"
    /\ Expire(q)
    /\ Return(q, "timed_out")
    /\ UNCHANGED <<run, stopped, notify, doomed, owner, clock, shown, reply,
                   hist>>

(* Mutant: the state stands for a missing result, also before it is settled. *)
WaitWakeState(q) ==
    /\ pc[q] = "waiting" /\ q \in event
    /\ IF result[q] = None /\ state[q] = "approved"
       THEN pc' = Set(pc, q, "claiming") /\ UNCHANGED <<told, call>>
       ELSE Return(q, IF result[q] # None THEN result[q] ELSE state[q])
    /\ UNCHANGED <<run, stopped, notify, doomed, owner, entry, clock, shown,
                   reply, files, hist>>

(* The event is set: return what the entry says by then. *)
WaitWake(q) ==
    /\ pc[q] = "waiting" /\ q \in event
    /\ IF result[q] = None /\ state[q] = "approved"
       THEN pc' = Set(pc, q, "claiming") /\ UNCHANGED <<told, call>>
       ELSE Return(q, IF result[q] # None THEN result[q]
                      ELSE IF state[q] = "expired" THEN "timed_out"
                      ELSE "cancelled")
    /\ UNCHANGED <<run, stopped, notify, doomed, owner, entry, clock, shown,
                   reply, files, hist>>

(* Mutant: the tool trusts the entry it holds instead of looking it up. *)
ClaimHeld(q) ==
    /\ pc[q] = "claiming"
    /\ IF state[q] = "approved"
       THEN /\ state' = Set(state, q, "sending")
            /\ pc' = Set(pc, q, "sending")
            /\ UNCHANGED <<told, call>>
       ELSE Return(q, "error") /\ UNCHANGED state
    /\ UNCHANGED <<run, stopped, notify, doomed, owner, entries, result, event,
                   clock, shown, reply, files, hist>>

(* claim; the tool's finish after a claim that failed changes nothing. *)
Claim(q) ==
    /\ pc[q] = "claiming"
    /\ IF q \in entries /\ state[q] = "approved"
       THEN /\ state' = Set(state, q, "sending")
            /\ pc' = Set(pc, q, "sending")
            /\ UNCHANGED <<told, call>>
       ELSE Return(q, "error") /\ UNCHANGED state
    /\ UNCHANGED <<run, stopped, notify, doomed, owner, entries, result, event,
                   clock, shown, reply, files, hist>>

(* OutboundDeliveryService.send, which may fail before or in the middle. *)
Transmit(q) ==
    /\ pc[q] = "sending"
    /\ \E outcome \in {"sent", "failed"} : pc' = Set(pc, q, outcome)
    /\ sends' = Set(sends, q, sends[q] + 1)
    /\ UNCHANGED <<runs, owner, entry, clock, shown, reply, files, told,
                   refused>>

(* Mutant: the tool returns the result of the entry. *)
FinishResult(q) ==
    /\ pc[q] \in {"sent", "failed"}
    /\ IF q \in entries /\ state[q] = "sending"
       THEN /\ state' = Set(state, q, pc[q])
            /\ result' = Set(result, q, pc[q])
            /\ event' = event \cup {q}
            /\ files' = files \ {q}
            /\ entries' = entries \ {q}
       ELSE UNCHANGED <<entry, files>>
    /\ Return(q, result'[q])
    /\ UNCHANGED <<run, stopped, notify, doomed, owner, clock, shown, reply,
                   hist>>

(* finish: only if the entry is still there and still being sent; the tool
   returns the result of the send whatever became of the entry. *)
Finish(q) ==
    /\ pc[q] \in {"sent", "failed"}
    /\ IF q \in entries /\ state[q] = "sending"
       THEN /\ state' = Set(state, q, pc[q])
            /\ result' = Set(result, q, pc[q])
            /\ event' = event \cup {q}
            /\ files' = files \ {q}
            /\ entries' = entries \ {q}
       ELSE UNCHANGED <<entry, files>>
    /\ Return(q, pc[q])
    /\ UNCHANGED <<run, stopped, notify, doomed, owner, clock, shown, reply,
                   hist>>

(* The entry expires ten minutes after it was made, the wait ends ten minutes
   after it began. *)
Pass(q) ==
    /\ pc[q] \notin {"none", "copying", "staged", "done"}
    /\ \/ clock[q] = "open" /\ clock' = Set(clock, q, "late")
       \/ clock[q] = "late" /\ pc[q] = "waiting" /\ clock' = Set(clock, q, "over")
    /\ UNCHANGED <<runs, owner, pc, entry, shown, reply, files, told, hist>>

-----------------------------------------------------------------------------
(* The user's answer, handed in by the event loop *)

(* resolve_from_event up to its call of cancel or approve: an answer of
   somebody else, from elsewhere or to a settled request has no effect. *)
Answer(q, choice, s, a) ==
    /\ reply = NoReply /\ q \in shown
    /\ q \in entries /\ state[q] = "pending"
    /\ IF clock[q] # "open"
       THEN Expire(q) /\ UNCHANGED reply
       ELSE /\ s = SessionOf[owner[q]] /\ a = ActorOf[owner[q]]
            /\ reply' = [request |-> q, choice |-> choice]
            /\ UNCHANGED <<entry, files>>
    /\ UNCHANGED <<runs, owner, pc, clock, shown, told, hist>>

(* Mutant: cancel leaves the entry to the thread it wakes. *)
CancelWakes(q) ==
    /\ reply = [request |-> q, choice |-> "cancel"]
    /\ reply' = NoReply
    /\ IF q \in entries /\ state[q] \in Revocable
       THEN /\ event' = event \cup {q} /\ refused' = refused \cup {q}
            /\ UNCHANGED <<entries, state, result, files>>
       ELSE UNCHANGED <<entry, files, refused>>
    /\ UNCHANGED <<runs, owner, pc, clock, shown, told, sends>>

(* cancel *)
Cancel(q) ==
    /\ reply = [request |-> q, choice |-> "cancel"]
    /\ reply' = NoReply
    /\ IF q \in entries /\ state[q] \in Revocable
       THEN Cancelled(q) /\ refused' = refused \cup {q}
       ELSE UNCHANGED <<entry, files, refused>>
    /\ UNCHANGED <<runs, owner, pc, clock, shown, told, sends>>

(* approve: an entry that expired in the meantime is marked, and its waiter
   left to its own deadline. *)
Approve(q) ==
    /\ reply = [request |-> q, choice |-> "once"]
    /\ reply' = NoReply
    /\ IF q \in entries /\ state[q] = "pending"
       THEN IF clock[q] # "open"
            THEN /\ state' = Set(state, q, "expired")
                 /\ result' = Set(result, q, "timed_out")
                 /\ UNCHANGED event
            ELSE /\ state' = Set(state, q, "approved")
                 /\ event' = event \cup {q}
                 /\ UNCHANGED result
       ELSE UNCHANGED <<state, result, event>>
    /\ UNCHANGED <<runs, owner, pc, entries, clock, shown, files, told, hist>>

-----------------------------------------------------------------------------
(* Runs *)

(* A run registers its callback, in place of the one before it.  It starts
   when its session has no run; once one was stopped the claim of a later run
   may be gone too (SessionGuard), so that any number can be in the session. *)
StartRun(r) ==
    /\ run[r] = "new"
    /\ \/ \A r2 \in Runs : SessionOf[r2] = SessionOf[r]
                           => run[r2] \in {"new", "ended"}
       \/ \E r2 \in stopped : SessionOf[r2] = SessionOf[r]
    /\ run' = Set(run, r, "active")
    /\ notify' = Set(notify, SessionOf[r], r)
    /\ UNCHANGED <<stopped, call, doomed, owner, pc, entry, clock, shown,
                   reply, files, told, hist>>

(* /stop, /new, the eviction of a run that looks idle, or its inactivity
   timeout: the agent is interrupted and the session is free for the next
   run. *)
Stop(r) ==
    /\ run[r] = "active" /\ r \notin stopped
    /\ stopped' = stopped \cup {r}
    /\ UNCHANGED <<run, notify, call, doomed, owner, pc, entry, clock, shown,
                   reply, files, told, hist>>

(* run_conversation has returned; unregister_gateway_notify takes out the
   callback and the entries of the session, ... *)
Unregister(r) ==
    /\ run[r] = "active" /\ call[r] = None
    /\ run' = Set(run, r, "closing")
    /\ notify' = Set(notify, SessionOf[r], None)
    /\ doomed' = Set(doomed, r, OfSession(SessionOf[r]))
    /\ entries' = entries \ OfSession(SessionOf[r])
    /\ UNCHANGED <<stopped, call, owner, pc, state, result, event, clock,
                   shown, reply, files, told, hist>>

(* ... wakes their threads ... *)
Wake(r, q) ==
    /\ run[r] = "closing" /\ q \in doomed[r] /\ q \notin event
    /\ event' = event \cup {q}
    /\ UNCHANGED <<runs, owner, pc, entries, state, result, clock, shown,
                   reply, files, told, hist>>

(* Mutant: the files of a settled entry are taken to be gone. *)
MarkLive(r, q) ==
    /\ run[r] = "closing" /\ q \in doomed[r] /\ q \in event
    /\ doomed' = Set(doomed, r, doomed[r] \ {q})
    /\ IF state[q] \notin Revocable
       THEN UNCHANGED <<state, result, files>>
       ELSE /\ state' = Set(state, q, "cancelled")
            /\ result' = IF result[q] = None THEN Set(result, q, "ended")
                                             ELSE result
            /\ files' = files \ {q}
    /\ UNCHANGED <<run, stopped, notify, call, owner, pc, entries, event,
                   clock, shown, reply, told, hist>>

(* ... and deletes their files and marks them, whatever they are doing. *)
Mark(r, q) ==
    /\ run[r] = "closing" /\ q \in doomed[r] /\ q \in event
    /\ doomed' = Set(doomed, r, doomed[r] \ {q})
    /\ files' = files \ {q}
    /\ IF state[q] \in {"sent", "failed"}
       THEN UNCHANGED <<state, result>>
       ELSE /\ state' = Set(state, q, "cancelled")
            /\ result' = IF result[q] = None THEN Set(result, q, "ended")
                                             ELSE result
    /\ UNCHANGED <<run, stopped, notify, call, owner, pc, entries, event,
                   clock, shown, reply, told, hist>>

(* clear_session *)
ClearSession(r) ==
    /\ run[r] = "closing" /\ doomed[r] = {}
    /\ run' = Set(run, r, "ended")
    /\ LET s == SessionOf[r]
           live == {q \in OfSession(s) : state[q] \in Revocable}
       IN  /\ entries' = entries \ OfSession(s)
           /\ state' = [q \in Requests |->
                          IF q \in live THEN "cancelled" ELSE state[q]]
           /\ result' = [q \in Requests |-> IF q \in live /\ result[q] = None
                                            THEN "ended" ELSE result[q]]
           /\ event' = event \cup live
           /\ files' = files \ live
    /\ UNCHANGED <<stopped, notify, call, doomed, owner, pc, clock, shown,
                   reply, told, hist>>

-----------------------------------------------------------------------------
Init ==
    /\ run = [r \in Runs |-> "new"] /\ stopped = {}
    /\ notify = [s \in Sessions |-> None]
    /\ call = [r \in Runs |-> None] /\ doomed = [r \in Runs |-> {}]
    /\ owner = [q \in Requests |-> None]
    /\ pc = [q \in Requests |-> "none"]
    /\ entries = {} /\ state = [q \in Requests |-> "pending"]
    /\ result = [q \in Requests |-> None] /\ event = {}
    /\ clock = [q \in Requests |-> "open"]
    /\ shown = {} /\ reply = NoReply /\ files = {}
    /\ told = [q \in Requests |-> None]
    /\ sends = [q \in Requests |-> 0] /\ refused = {}

(* The steps of the thread that executes a send_message call. *)
CallStep(q) ==
    \/ Staged(q) \/ Register(q) \/ Prompt(q) \/ Prompted(q) \/ Enter(q)
    \/ WaitTimeout(q) \/ WaitWake(q) \/ Claim(q) \/ Transmit(q) \/ Finish(q)

ReplyStep(q) ==
    \/ Cancel(q) \/ Approve(q)
    \/ \E choice \in {"once", "cancel"}, s \in Sessions, a \in Actors :
          Answer(q, choice, s, a)

RunStep(r) ==
    \/ StartRun(r) \/ Stop(r) \/ Unregister(r) \/ ClearSession(r)
    \/ \E q \in Requests : Stage(r, q) \/ Wake(r, q) \/ Mark(r, q)

Next == \/ \E q \in Requests : CallStep(q) \/ ReplyStep(q) \/ Pass(q)
        \/ \E r \in Runs : RunStep(r)

Spec == Init /\ [][Next]_vars

(* The thread of a call runs, the callback and the adapter return, and time
   passes.  Nothing is assumed of the user. *)
Fairness == \A q \in Requests : WF_vars(CallStep(q)) /\ WF_vars(Pass(q))
FairSpec == Spec /\ Fairness

-----------------------------------------------------------------------------
(* Properties *)

States == {"pending", "approved", "cancelled", "expired", "sending", "sent",
           "failed"}
Places == {"none", "copying", "staged", "registered", "prompted", "entering",
           "waiting", "claiming", "sending", "sent", "failed", "done"}
Results == {"cancelled", "timed_out", "ended", "sent", "failed"}

(* The type invariant. *)
TypeOK ==
    /\ run \in [Runs -> {"new", "active", "closing", "ended"}]
    /\ stopped \subseteq Runs
    /\ notify \in [Sessions -> Runs \cup {None}]
    /\ call \in [Runs -> Requests \cup {None}]
    /\ doomed \in [Runs -> SUBSET Requests]
    /\ owner \in [Requests -> Runs \cup {None}]
    /\ pc \in [Requests -> Places]
    /\ entries \subseteq Requests
    /\ state \in [Requests -> States]
    /\ result \in [Requests -> Results \cup {None}]
    /\ event \subseteq Requests
    /\ clock \in [Requests -> {"open", "late", "over"}]
    /\ shown \subseteq Requests
    /\ reply \in {NoReply}
         \cup [request : Requests, choice : {"once", "cancel"}]
    /\ files \subseteq Requests
    /\ told \in [Requests -> Results \cup {None, "denied", "error"}]
    /\ sends \in [Requests -> Nat] /\ refused \subseteq Requests

(* What a request is worth: its thread and the entry together. *)
Worth(q) ==
    CASE pc[q] \in {"none", "copying", "staged"} -> "new"
      [] pc[q] \in {"sending", "sent", "failed"} -> "used"
      [] pc[q] = "done" -> IF told[q] \in {"sent", "failed"} THEN "over"
                                                            ELSE "void"
      [] OTHER -> IF q \in entries /\ state[q] = "pending" THEN "asked"
                  ELSE IF q \in entries /\ state[q] = "approved" THEN "granted"
                  ELSE "void"

Grant == [q \in Requests |-> Worth(q)]

(* The confirmation keeps what DeliveryGrant promises, whatever answers,
   expiries, stops and ends of runs cross each other. *)
G == INSTANCE DeliveryGrant WITH grant <- Grant
GrantKept == G!Spec

(* A delivery the user cancelled is never handed to the platform, and none is
   handed over twice. *)
CancelHonoured == \A q \in Requests : sends[q] <= IF q \in refused THEN 0 ELSE 1

(* "Nothing was sent" (line 218) and the other refusals the tool returns to
   the agent are true: a delivery reported as not sent is not sent later. *)
ReportTrue ==
    \A q \in Requests : told[q] \notin {None, "sent", "failed"} => sends[q] = 0

(* The thread of a send_message call is always released: by an answer, by the
   end of the run that waits for it, or at last by its own deadline, even if
   the entry expired without a signal or was taken out under it. *)
CallReturns == \A q \in Requests : pc[q] = "copying" ~> pc[q] = "done"

(* The end of a run leaves nothing of it behind: no entry, hence no grant,
   outlives the run that asked for it. *)
NoOrphan == \A q \in entries : run[owner[q]] # "ended"

(* "/stop, /new, /reset, cached-agent eviction, gateway shutdown, and
   run-generation replacement cancel pending delivery waits" (section 20.4 of
   marlow-message-route-isolation-engineering-design.md): no request of a run
   that was stopped is approved. *)
StopWithdraws ==
    [][\A q \in Requests : state[q] = "pending" /\ state'[q] = "approved"
                           => owner[q] \notin stopped]_vars

(* Whatever way its requests end, a run leaves no staged file on the disk,
   unless a run of its session was stopped and overlapped with another. *)
FilesGone ==
    \A q \in files : run[owner[q]] = "ended" =>
        \E r \in stopped : SessionOf[r] = SessionOf[owner[q]]

(* "A stale callback from a previous run generation", and "no content,
   callback, grant, status, or mirror crosses turn/session/route boundaries"
   (section 23.6 of the design): the end of a run withdraws no request of
   another run that is active. *)
OwnEndOnly ==
    [][\A q \in Requests : result[q] # "ended" /\ result'[q] = "ended"
                           => run[owner[q]] # "active"]_vars
=============================================================================
