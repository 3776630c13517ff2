-------------------------- MODULE SessionRequests --------------------------
(***************************************************************************)
(* The questions on which threads of an agent run block in a chat session: *)
(* tools/approval.py asks whether a command may run, and                   *)
(* tools/clarify_gateway.py asks the agent's own question; gateway/run.py  *)
(* registers and ends both with the run and routes the answers.            *)
(*                                                                         *)
(* One session is modelled.  Answers and commands come on the event loop;  *)
(* the threads of a run and its end interleave with it at the locks.  What *)
(* a function does after it released the lock (it writes the result and    *)
(* sets the event of the entries it took out or found) is a step of its    *)
(* own, kept in `writes` until then.                                       *)
(***************************************************************************)
EXTENDS Integers, FiniteSets

CONSTANTS
    Approvals,   \* calls of _await_gateway_decision, in this order
    Clarifies,   \* calls of the clarify callback, in this order
    Runs,        \* runs of the agent, in this order
    MaxAsked,    \* bound: approvals and clarifications together
    MaxInputs,   \* bound: what the users do, and threads that are abandoned
    Once, Deny,  \* choices; Once stands for every one that approves
    Blank,       \* the response of a clarification that is withdrawn
    None

Requests == Approvals \cup Clarifies

Inputs == 1..MaxInputs

ASSUME RequestAssumption ==
    /\ Approvals \subseteq Nat /\ Clarifies \subseteq Nat /\ Runs \subseteq Nat
    /\ Approvals \cap Clarifies = {}
    /\ MaxAsked \in Nat /\ MaxInputs \in Nat
    /\ {Once, Deny, Blank, None} \cap Nat = {}
    /\ Once # Deny /\ Blank \notin {Once, Deny} /\ None \notin {Once, Deny, Blank}
    /\ "withdrawn" \notin {Once, Deny, None}

VARIABLES
    run,       \* per run: how far it is
    stopped,   \* runs that gave up the session and have not noticed yet
    abandoned, \* approvals whose thread its run does not wait for
    notify,    \* _gateway_notify_cbs: the run whose callback is registered
    queue,     \* _gateway_queues: approvals that wait for a decision
    index,     \* _entries, _session_index: clarifications that wait
    ahead,     \* per request: what was in its queue when it came
    scoped,    \* approvals that only their own card may decide
    text,      \* awaiting_text: clarifications whose answer will be typed
    pressed,   \* clarifications whose button was used
    pc,        \* per request: where its thread is
    of,        \* the run whose thread it is
    result,    \* entry.result, entry.response
    event,     \* requests whose entry.event is set
    writes,    \* results not yet written to entries that were taken or found
    inputs,    \* how much the users did, and threads abandoned, so far
    late,      \* history: requests that waited until their deadline
    outcome,   \* history: what the threads returned; Once if the command runs
    decided,   \* history: what was decided under the lock
    taken,     \* history: per input, the clarification it was taken for
    overlap    \* history: runs that were in the session with another

runs == <<run, stopped, abandoned, notify, overlap>>
asked == <<ahead, scoped, text, pressed>>
threads == <<pc, of, late, outcome>>
entries == <<result, event, writes>>
history == <<decided, taken>>
vars == <<runs, queue, index, asked, threads, entries, inputs, history>>

-----------------------------------------------------------------------------
(* Operators *)

(* The queue S is in the order in which its members came. *)
First(S) == {q \in S : ahead[q] \cap S = {}}

(* What thread `by`, None being the event loop, has yet to write to the     *)
(* entries S that it took out or found under the lock.                      *)
Writes(S, value, by) ==
    writes' = writes \cup {[to |-> q, value |-> value, by |-> by] : q \in S}

Writing(by) == \E w \in writes : w.by = by

Decide(S, what) ==
    decided' = [q \in Requests |-> IF q \in S THEN what ELSE decided[q]]

Goto(q, there) == pc' = [pc EXCEPT ![q] = there]

(* The thread is back, or nobody was asked, or the prompt was not sent. *)
Returned(q) == pc[q] \in {"done", "unasked", "unsent"}

(* The thread goes on with what it was told; its entry is garbage. *)
Return(q, how, what) ==
    /\ Goto(q, how) /\ outcome' = [outcome EXCEPT ![q] = what]
    /\ result' = [result EXCEPT ![q] = None] /\ event' = event \ {q}
    /\ ahead' = [ahead EXCEPT ![q] = {}]
    /\ scoped' = scoped \ {q} /\ text' = text \ {q} /\ pressed' = pressed \ {q}

(* The next call of its kind, by a thread of run r. *)
Ask(q, S, r) ==
    /\ q \in S /\ pc[q] = "new" /\ \A p \in S : p < q => pc[p] # "new"
    /\ Cardinality({p \in Requests : pc[p] # "new"}) < MaxAsked
    /\ of' = [of EXCEPT ![q] = r]

Within == inputs < MaxInputs /\ inputs' = inputs + 1

(* The event loop does one thing after the other. *)
Input == Within /\ ~Writing(None)

(* Runs that are in the session. *)
Present == {r \in Runs : run[r] \in {"on", "ending"}}

-----------------------------------------------------------------------------
(* Runs *)

(* A run registers its callback, in place of another's only once a run was  *)
(* stopped; then the claim of a later run may be gone too (SessionGuard).   *)
StartRun(r) ==
    /\ run[r] = "new" /\ \A s \in Runs : s < r => run[s] # "new"
    /\ Present = {} \/ stopped # {}
    /\ run' = [run EXCEPT ![r] = "on"]
    /\ notify' = r
    /\ overlap' = IF Present = {} THEN overlap ELSE overlap \cup Present \cup {r}
    /\ UNCHANGED <<stopped, abandoned, queue, index, asked, threads, entries, inputs,
                   history>>

(* The session is freed and a run whose thread still works is given up: by  *)
(* /stop and /new, which interrupt the agent and wake no thread, by the     *)
(* eviction of a stale claim, or by the inactivity timeout.                 *)
Stop ==
    /\ Input
    /\ Present \ stopped # {} /\ stopped' = stopped \cup Present
    /\ UNCHANGED <<run, abandoned, notify, overlap, queue, index, asked, threads,
                   entries, history>>

(* execute_code ends (its script is killed, or is over) while the thread    *)
(* that serves its calls waits for an approval: the join gives up after     *)
(* three seconds, and nobody waits for the thread any more.                 *)
Abandon(q) ==
    /\ pc[q] # "new" /\ ~Returned(q) /\ run[of[q]] = "on" /\ q \notin abandoned
    /\ Within
    /\ abandoned' = abandoned \cup {q}
    /\ UNCHANGED <<run, stopped, notify, overlap, queue, index, asked, threads,
                   entries, history>>

(* Mutant: the run ends without the threads it waits for. *)
UnregisterEarly(r) ==
    /\ run[r] = "on"
    /\ run' = [run EXCEPT ![r] = "ending"]
    /\ notify' = None
    /\ queue' = {} /\ Writes(queue, None, r) /\ Decide(queue, "withdrawn")
    /\ UNCHANGED <<stopped, abandoned, overlap, index, asked, threads, result, event,
                   inputs, taken>>

(* The end of the run, once the threads it waits for are back:              *)
(* unregister_gateway_notify for the whole session, ...                     *)
Unregister(r) ==
    /\ run[r] = "on"
    /\ \A q \in Requests \ abandoned : of[q] = r => Returned(q) /\ ~Writing(q)
    /\ run' = [run EXCEPT ![r] = "ending"]
    /\ notify' = None
    /\ queue' = {} /\ Writes(queue, None, r) /\ Decide(queue, "withdrawn")
    /\ UNCHANGED <<stopped, abandoned, overlap, index, asked, threads, result, event,
                   inputs, taken>>

(* ... and clear_session of the clarifications. *)
EndRun(r) ==
    /\ run[r] = "ending" /\ ~Writing(r)
    /\ run' = [run EXCEPT ![r] = "over"]
    /\ index' = {} /\ Writes(index, Blank, r) /\ Decide(index, "withdrawn")
    /\ UNCHANGED <<stopped, abandoned, notify, overlap, queue, asked, threads, result,
                   event, inputs, taken>>

(* Mutant: the entries are taken out and nobody is told. *)
BoundarySilent ==
    /\ Input
    /\ queue' = {} /\ Decide(queue, Deny)
    /\ UNCHANGED <<runs, index, asked, threads, entries, taken>>

(* /new, /resume, /branch: clear_session of the approvals denies what waits. *)
Boundary ==
    /\ Input
    /\ queue' = {} /\ Writes(queue, Deny, None) /\ Decide(queue, Deny)
    /\ UNCHANGED <<runs, index, asked, threads, result, event, taken>>

(* Mutant: the event is set before the result is there. *)
WriteLate(w) ==
    /\ w \in writes
    /\ \/ /\ w.to \notin event /\ event' = event \cup {w.to}
          /\ UNCHANGED <<result, writes>>
       \/ /\ w.to \in event /\ result' = [result EXCEPT ![w.to] = w.value]
          /\ writes' = writes \ {w}
          /\ UNCHANGED event
    /\ UNCHANGED <<runs, queue, index, asked, threads, inputs, history>>

(* An entry gets its result; unregister_gateway_notify only sets the event. *)
Write(w) ==
    /\ w \in writes
    /\ writes' = writes \ {w}
    /\ IF Returned(w.to) THEN UNCHANGED <<result, event>>
       ELSE /\ result' = [result EXCEPT ![w.to] = IF w.value = None THEN @ ELSE w.value]
            /\ event' = event \cup {w.to}
    /\ UNCHANGED <<runs, queue, index, asked, threads, inputs, history>>

-----------------------------------------------------------------------------
(* The thread that asks for an approval *)

(* check_all_command_guards: without a callback nobody is asked.  The run   *)
(* goes on, or has ended while an abandoned thread looked at its command.   *)
Call(q) ==
    /\ \E r \in Runs :
          /\ Ask(q, Approvals, r)
          /\ \/ run[r] = "on" /\ UNCHANGED <<abandoned, inputs>>
             \/ /\ run[r] \in {"ending", "over"} /\ Within
                /\ abandoned' = abandoned \cup {q}
    /\ \/ notify # None /\ Goto(q, "called")
          /\ UNCHANGED <<outcome, result, event, asked>>
       \/ notify = None /\ Return(q, "unasked", Deny)
    /\ UNCHANGED <<run, stopped, notify, overlap, queue, index, late, writes, history>>

(* _await_gateway_decision; with admin approvals the request is scoped. *)
Enqueue(q) ==
    /\ pc[q] = "called"
    /\ queue' = queue \cup {q} /\ ahead' = [ahead EXCEPT ![q] = queue]
    /\ scoped' \in {scoped, scoped \cup {q}}
    /\ Goto(q, "queued")
    /\ UNCHANGED <<runs, index, text, pressed, of, late, outcome, entries, inputs,
                   history>>

(* The callback returns, or raises for a request of an admin. *)
Notify(q) ==
    /\ pc[q] = "queued"
    /\ \/ Goto(q, "waiting")
       \/ q \in scoped /\ Goto(q, "failing")
    /\ UNCHANGED <<runs, queue, index, asked, of, late, outcome, entries, inputs,
                   history>>

NotifyFailed(q) ==
    /\ pc[q] = "failing"
    /\ queue' = queue \ {q}
    /\ Return(q, "unsent", Deny)
    /\ UNCHANGED <<runs, index, of, late, writes, inputs, history>>

-----------------------------------------------------------------------------
(* The thread that asks for a clarification *)

(* Mutant: the clarification gets in line with the approvals. *)
RegisterQueued(q) ==
    /\ \E r \in Runs : run[r] = "on" /\ Ask(q, Clarifies, r)
    /\ queue' = queue \cup {q} /\ ahead' = [ahead EXCEPT ![q] = queue]
    /\ text' \in {text, text \cup {q}}
    /\ Goto(q, "registered")
    /\ UNCHANGED <<runs, index, scoped, pressed, late, outcome, entries, inputs,
                   history>>

(* register, with choices or without; a run asks one at a time. *)
Register(q) ==
    /\ \E r \in Runs : run[r] = "on" /\ Ask(q, Clarifies, r)
    /\ \A c \in Clarifies : of[c] = of'[q] => Returned(c)
    /\ index' = index \cup {q} /\ ahead' = [ahead EXCEPT ![q] = index]
    /\ text' \in {text, text \cup {q}}
    /\ Goto(q, "registered")
    /\ UNCHANGED <<runs, queue, scoped, pressed, late, outcome, entries, inputs,
                   history>>

(* send_clarify, on the event loop: adapters without buttons take the next  *)
(* text for the answer.                                                     *)
Render(q) ==
    /\ pc[q] = "registered" /\ ~Writing(None)
    /\ text' \in {text, text \cup ({q} \cap index)}
    /\ Goto(q, "rendered")
    /\ UNCHANGED <<runs, queue, index, ahead, scoped, pressed, of, late, outcome,
                   entries, inputs, history>>

(* The prompt was not sent, or not within 15 seconds: clear_session, which  *)
(* takes the clarifications of the whole session.                           *)
SendFailed(q) ==
    /\ pc[q] \in {"registered", "rendered"}
    /\ index' = {} /\ Writes(index \ {q}, Blank, q)
    /\ Decide(index \ {q}, "withdrawn")
    /\ Return(q, "unsent", None)
    /\ UNCHANGED <<runs, queue, of, late, inputs, taken>>

(* wait_for_response *)
Begin(q) ==
    /\ pc[q] = "rendered"
    /\ \/ q \in index /\ Goto(q, "waiting")
          /\ UNCHANGED <<outcome, result, event, asked>>
       \/ q \notin index /\ Return(q, "done", None)
    /\ UNCHANGED <<runs, queue, index, of, late, writes, inputs, history>>

-----------------------------------------------------------------------------
(* Both threads *)

Wake(q) ==
    /\ pc[q] = "waiting" /\ q \in event
    /\ Goto(q, "woken")
    /\ UNCHANGED <<runs, queue, index, asked, of, late, outcome, entries, inputs,
                   history>>

(* The deadline is looked at before the event. *)
Expire(q) ==
    /\ pc[q] = "waiting"
    /\ Goto(q, "woken")
    /\ late' = late \cup {q}
    /\ UNCHANGED <<runs, queue, index, asked, of, outcome, entries, inputs, history>>

Drop(q) ==
    /\ pc[q] = "woken"
    /\ queue' = queue \ {q} /\ index' = index \ {q}
    /\ Goto(q, "dropped")
    /\ UNCHANGED <<runs, asked, of, late, outcome, entries, inputs, history>>

(* An approval counts only if the event came in time; a clarification       *)
(* returns whatever the response is by now.                                 *)
Answer(q) ==
    IF q \in Approvals
    THEN IF q \notin late /\ result[q] = Once THEN Once ELSE Deny
    ELSE IF result[q] = Blank THEN None ELSE result[q]

Read(q) ==
    /\ pc[q] = "dropped"
    /\ Return(q, "done", Answer(q))
    /\ UNCHANGED <<runs, queue, index, of, late, writes, inputs, history>>

-----------------------------------------------------------------------------
(* The users *)

(* Mutant: the entries are found and not taken out. *)
ResolvePeeks ==
    /\ Input
    /\ \E choice \in {Once, Deny}, q \in queue :
          Writes({q}, choice, None) /\ Decide({q}, choice)
    /\ UNCHANGED <<runs, queue, index, asked, threads, result, event, taken>>

(* resolve_gateway_approval under its lock: for the request of a card, the  *)
(* oldest, or all.                                                          *)
Resolve ==
    /\ Input
    /\ \E choice \in {Once, Deny},
          S \in {{q} : q \in queue} \cup {First(queue) \ scoped, queue \ scoped} :
          /\ S # {}
          /\ queue' = queue \ S
          /\ Writes(S, choice, None) /\ Decide(S, choice)
    /\ UNCHANGED <<runs, index, asked, threads, result, event, taken>>

(* resolve_gateway_clarify finds the entry and leaves it where it is. *)
Take(q) ==
    /\ Input
    /\ taken' = [taken EXCEPT ![inputs'] = q]
    /\ Writes({q}, inputs', None)
    /\ UNCHANGED <<runs, queue, index, ahead, scoped, text, threads, result, event,
                   decided>>

(* A button of the prompt, which is forgotten then. *)
Button(q) ==
    /\ q \in index \ pressed /\ pc[q] # "registered"
    /\ Take(q)
    /\ pressed' = pressed \cup {q}

(* The button "Other": the answer will be typed. *)
Other(q) ==
    /\ Input
    /\ q \in index \ pressed /\ pc[q] # "registered"
    /\ text' = text \cup {q}
    /\ UNCHANGED <<runs, queue, index, ahead, scoped, pressed, threads, entries,
                   history>>

(* The intercept of _handle_message: a text goes to the oldest question     *)
(* that waits for one.                                                      *)
Text(q) ==
    /\ q \in First(index \cap text)
    /\ Take(q)
    /\ UNCHANGED pressed

-----------------------------------------------------------------------------
Init ==
    /\ run = [r \in Runs |-> "new"] /\ stopped = {} /\ abandoned = {}
    /\ notify = None
    /\ queue = {} /\ index = {}
    /\ ahead = [q \in Requests |-> {}]
    /\ scoped = {} /\ text = {} /\ pressed = {}
    /\ pc = [q \in Requests |-> "new"] /\ of = [q \in Requests |-> None]
    /\ result = [q \in Requests |-> None] /\ event = {} /\ writes = {}
    /\ inputs = 0
    /\ late = {} /\ outcome = [q \in Requests |-> None]
    /\ decided = [q \in Requests |-> None]
    /\ taken = [i \in Inputs |-> None]
    /\ overlap = {}

ApprovalStep(q) == Call(q) \/ Enqueue(q) \/ Notify(q) \/ NotifyFailed(q)

ClarifyStep(q) == Register(q) \/ Render(q) \/ SendFailed(q) \/ Begin(q)

WaitStep(q) == Wake(q) \/ Drop(q) \/ Read(q)

Next == \/ Stop \/ Boundary \/ Resolve
        \/ \E r \in Runs : StartRun(r) \/ Unregister(r) \/ EndRun(r)
        \/ \E w \in writes : Write(w)
        \/ \E q \in Approvals : ApprovalStep(q) \/ Abandon(q)
        \/ \E q \in Clarifies : ClarifyStep(q) \/ Button(q) \/ Other(q) \/ Text(q)
        \/ \E q \in Requests : WaitStep(q) \/ Expire(q)

Spec == Init /\ [][Next]_vars

(* Threads run, whoever has to write a result does, and the event loop does *)
(* what it was handed; no deadline is needed.                               *)
Fairness ==
    /\ WF_vars(\E w \in writes : Write(w))
    /\ \A q \in Approvals :
          WF_vars(Enqueue(q) \/ Notify(q) \/ NotifyFailed(q) \/ WaitStep(q))
    /\ \A q \in Clarifies :
          WF_vars(Render(q) \/ SendFailed(q) \/ Begin(q) \/ WaitStep(q))

FairSpec == Spec /\ Fairness

-----------------------------------------------------------------------------
(* Properties *)

Values == {None, Blank, Once, Deny} \cup Inputs

(* Types of the variables. *)
TypeOK ==
    /\ run \in [Runs -> {"new", "on", "ending", "over"}]
    /\ stopped \subseteq Runs /\ overlap \subseteq Runs
    /\ abandoned \subseteq Approvals
    /\ notify \in Runs \cup {None}
    /\ queue \subseteq Approvals /\ index \subseteq Clarifies
    /\ ahead \in [Requests -> SUBSET Requests]
    /\ scoped \subseteq Approvals /\ text \subseteq Clarifies
    /\ pressed \subseteq Clarifies
    /\ pc \in [Requests -> {"new", "called", "queued", "failing", "registered",
                            "rendered", "waiting", "woken", "dropped", "done",
                            "unasked", "unsent"}]
    /\ of \in [Requests -> Runs \cup {None}]
    /\ result \in [Requests -> Values] /\ event \subseteq Requests
    /\ writes \subseteq [to : Requests, value : Values,
                         by : Runs \cup Requests \cup {None}]
    /\ inputs \in 0..MaxInputs
    /\ late \subseteq Requests
    /\ outcome \in [Requests -> {None, Once, Deny} \cup Inputs]
    /\ decided \in [Requests -> {None, Once, Deny, "withdrawn"}]
    /\ taken \in [Inputs -> Clarifies \cup {None}]

(* A command runs exactly if its own approval was approved while its thread *)
(* still waited, although the result is written and read without the lock   *)
(* and several threads, answers and ends of runs race for the queue         *)
(* (approval.py: silence is not consent).                                   *)
DecisionHonoured ==
    \A q \in Approvals : Returned(q) =>
        (outcome[q] = Once <=>
            decided[q] = Once /\ q \notin late /\ pc[q] # "unsent")

(* A text or a button that was taken for the answer to a question is what   *)
(* the agent gets, unless the question got two, its wait was over, or it    *)
(* was withdrawn or not delivered.                                          *)
AnswerReturned ==
    \A i \in Inputs : LET q == taken[i] IN
        q # None /\ Returned(q) /\ outcome[q] # i =>
            \/ q \in late \/ pc[q] = "unsent" \/ decided[q] = "withdrawn"
            \/ \E j \in Inputs \ {i} : taken[j] = q

(* A question is withdrawn, or nobody is asked, because of the end of a     *)
(* run, only where runs were in the session together, one being given up,   *)
(* or for a thread that its own run had abandoned (approval.py: all blocked *)
(* threads of the session are signalled).  So no other end of a run, and no *)
(* clarification that is not sent, denies a command that somebody waits for.*)
OverlapOnly ==
    \A q \in Requests :
        decided[q] = "withdrawn" \/ pc[q] = "unasked"
        => of[q] \in overlap \/ q \in abandoned

Settled(q) == decided[q] # None \/ \E i \in Inputs : taken[i] = q

(* A thread whose question was decided, answered or withdrawn comes back    *)
(* without waiting for its deadline (approval.py: so they don't hang        *)
(* forever).                                                                *)
Released == \A q \in Requests : Settled(q) ~> Returned(q)
=============================================================================
