------------------------ MODULE SessionOrder_proofs ------------------------
(***************************************************************************)
(* The texts of one sender stay in their order in SessionGuard, for any    *)
(* number of messages, senders, tasks and commands.                        *)
(*                                                                         *)
(* A text waits in the buffer, then in the slot, then with a task, until   *)
(* an agent gets it.  The invariant says that of two texts of one sender   *)
(* the later is never further on this way than the earlier (Line).  It is  *)
(* kept because a step moves a place as a whole, and because the text that *)
(* goes to the slot directly meets a buffer of another sender (Texts).     *)
(*                                                                         *)
(* Only a session that nothing disturbs has to be looked at: a command     *)
(* takes whatever was said from the property (Told).                       *)
(***************************************************************************)
EXTENDS SessionCommands_proofs

Borne(m) == \E t \in Task : m \in Load(task[t])

Line ==
    \A m, n \in Messages : m < n /\ said[m] # None /\ said[m] = said[n] =>
        /\ n \in Held(pending) => m \notin Held(buffer)
        /\ Borne(n) => m \notin Queued
        /\ runs[n] > 0 => m \notin Queued /\ ~Borne(m)

Texts == \A m \in Held(buffer) : said[m] \in {None, From(buffer)}

Prefix == \A m \in Messages, n \in arrived : m < n => m \in arrived

Told == /\ \A m \in Messages : said[m] # None => m \in arrived
        /\ Disturbed => \A m \in Messages : said[m] = None

Ordered == Line /\ Texts /\ Prefix /\ Told

(* What all the lemmas know of a step. *)
Known == Inv /\ Inv' /\ Sorted /\ Sorted' /\ Tidy /\ Tidy'

-----------------------------------------------------------------------------
(* Steps by what they do to the places *)

(* A flush, a pass to a task, or both: each place moves on as a whole. *)
LEMMA Advance ==
    ASSUME Known, Line, UNCHANGED <<said, arrived, runs, lost>>,
           \/ UNCHANGED <<pending, buffer>>
           \/ pending' = None /\ buffer' = buffer
           \/ pending' \in {None, Slot} /\ buffer' = Rest
    PROVE  Line'
  <1>1. \A m \in Messages : Waits(m)' <=> Waits(m)
    BY DEF Known, Sorted, Sums
  <1>2. ASSUME NEW m \in Messages
        PROVE  /\ Waits(m) <=> m \in Queued \/ Borne(m)
               /\ Waits(m)' <=> m \in Queued' \/ Borne(m)'
               /\ ~(m \in Queued /\ Borne(m)) /\ ~(m \in Queued' /\ Borne(m)')
    BY DEF Known, Sorted, Disjoint, Waits, Borne
  <1>3. /\ Held(None) = {}
        /\ Held(Slot) \cup Held(Rest) = Queued
        /\ \/ Held(Rest) = {} /\ Held(Slot) = Queued
           \/ Held(Rest) = Held(buffer) /\ Held(Slot) = Held(pending)
    BY Flushed DEF Held, Rest, Slot, Known, Inv, Sorted, Queued
  <1>4. \/ Held(pending') = Held(pending) /\ Held(buffer') = Held(buffer)
        \/ Held(pending') = {} /\ Held(buffer') = Held(buffer)
        \/ Held(pending') \in {{}, Queued} /\ Held(buffer') = {}
    BY <1>3
  <1>5. ASSUME NEW m \in Messages, NEW n \in Messages,
               m < n, said[m] # None, said[m] = said[n]
        PROVE  /\ n \in Held(pending') => m \notin Held(buffer')
               /\ Borne(n)' => m \notin Queued'
               /\ runs'[n] > 0 => m \notin Queued' /\ ~Borne(m)'
    <2>1. /\ n \in Held(pending) => m \notin Held(buffer)
          /\ Borne(n) => m \notin Queued
          /\ runs[n] > 0 => m \notin Queued /\ ~Borne(m)
      BY <1>5 DEF Line
    <2>2. \A k \in {m, n} : /\ k \in Queued' \/ Borne(k)' <=> k \in Queued \/ Borne(k)
                            /\ ~(k \in Queued' /\ Borne(k)')
      BY <1>1, <1>2
    <2>3. Queued = Held(pending) \cup Held(buffer)
          /\ Queued' = Held(pending') \cup Held(buffer')
      BY DEF Queued
    <2>4. CASE Held(pending') = Held(pending) /\ Held(buffer') = Held(buffer)
      BY <2>1, <2>2, <2>3, <2>4
    <2>5. CASE Held(pending') = {} /\ Held(buffer') = Held(buffer)
      BY <2>1, <2>2, <2>3, <2>5
    <2>6. CASE Held(pending') \in {{}, Queued} /\ Held(buffer') = {}
      BY <2>1, <2>2, <2>3, <2>6
    <2> QED BY <1>4, <2>4, <2>5, <2>6
  <1> QED BY <1>5 DEF Line

(* A turn begins with all that any task has. *)
LEMMA Given ==
    ASSUME Known, Line, UNCHANGED <<said, pending, buffer>>,
           NEW t \in Task, Give(Load(task[t])), Load(task'[t]) = {},
           \A u \in Task \ {t} : Load(task[u]) = {} /\ Load(task'[u]) = {}
    PROVE  Line'
  <1>1. \A m : Borne(m) <=> m \in Load(task[t])
    BY DEF Borne
  <1>2. \A m : ~Borne(m)'
    BY DEF Borne
  <1>3. \A m \in Messages : runs'[m] > 0 => runs[m] > 0 \/ Borne(m)
    BY <1>1 DEF Give
  <1>4. Queued' = Queued
    BY DEF Queued
  <1> QED BY <1>2, <1>3, <1>4 DEF Line

(* The buffer is left alone, or moves on. *)
LEMMA TextsStay ==
    ASSUME Texts, said' = said, buffer' \in {None, buffer, Rest}
    PROVE  Texts'
  BY DEF Texts, Rest, Held, From

-----------------------------------------------------------------------------
(* Tasks *)

(* In a calm session only the owner has something. *)
LEMMA OnlyOwner ==
    ASSUME Calm, NEW t \in Task, Load(task[t]) # {} PROVE owner = t /\ active # None
  BY DEF Calm, Load

LEMMA TaskOrder ==
    ASSUME Known, Calm, Line, Texts, NEW t \in Task, TaskStep(t)
    PROVE  Line' /\ Texts' /\ UNCHANGED <<said, arrived>> /\ ~Disturbed'
  <1>0. Typed /\ TypeOK /\ task \in [Task -> TaskRecord] /\ task[t] \in TaskRecord
    BY DEF Known, Inv, Typed, TypeOK
  <1>1. ~Disturbed' /\ UNCHANGED <<arrived, exposed>> /\ (Refuse(t) \/ lost' = lost)
    BY <1>0, RunCalm, LeaveCalm DEF TaskStep
  <1>7. BeginRun(t) => running = None
    <2>1. BeginRun(t) => owner = t /\ ~Busy(t)
      BY DEF BeginRun, At, Calm, Busy
    <2> QED BY <2>1 DEF Calm, Busy
  <1>2. said' = said
    BY <1>7
      DEF TaskStep, Start, BeginRun, Evictable, Promote, BusyRun, RunEnd, RunSuperseded,
          RunFollows, NextTurn, Refuse, Reply, ReplyFails, Handoff, Finish, TakeCancel,
          Callback, RootStep, history
  <1>3. CASE NextTurn(t)
    <2>1. /\ Give(Load(task[t])) /\ Load(task'[t]) = {}
          /\ \A u \in Task \ {t} : task'[u] = task[u]
          /\ UNCHANGED <<pending, buffer>>
      BY <1>0, <1>3 DEF NextTurn, At, Load, TaskRecord, slots
    <2>2. owner = t
      BY <1>3 DEF NextTurn, At, Calm
    <2>3. \A u \in Task \ {t} : Load(task[u]) = {}
      BY <2>2, OnlyOwner
    <2> QED BY <1>1, <1>2, <2>1, <2>3, Given, TextsStay
  <1>4. CASE BusyRun(t) \/ RunSuperseded(t) \/ TakeCancel(t)
    <2>1. CASE BusyRun(t)
      <3>1. owner = t /\ running \in Task /\ Busy(running) /\ ~Busy(t)
        BY <2>1 DEF BusyRun, At, Calm, Busy
      <3>2. owner = running
        BY <3>1 DEF Calm, Busy
      <3> QED BY <3>1, <3>2
    <2> QED BY <1>0, <1>4, <2>1 DEF RunSuperseded, TakeCancel, At, Calm, Busy
  <1>6. CASE Refuse(t)
    <2>1. /\ Load(task'[t]) = {} /\ \A u \in Task \ {t} : task'[u] = task[u]
          /\ UNCHANGED <<pending, buffer, runs>>
      BY <1>0, <1>6 DEF Refuse, Load, TaskRecord, slots
    <2>2. \A m : Borne(m)' => Borne(m)
      BY <2>1 DEF Borne
    <2>3. Line'
      BY <1>2, <2>1, <2>2 DEF Line, Queued
    <2> QED BY <1>1, <1>2, <2>1, <2>3, TextsStay
  <1>5. CASE \/ Start(t) \/ BeginRun(t) \/ Promote(t) \/ RunEnd(t) \/ RunFollows(t) \/ Reply(t)
             \/ ReplyFails(t) \/ Handoff(t) \/ Finish(t) \/ Callback(t) \/ RootStep(t)
    <2>1. runs' = runs
      BY <1>5 DEF Start, BeginRun, Promote, RunEnd, RunFollows, Reply, ReplyFails, Handoff,
                  Finish, Callback, RootStep, history
    <2>2. ASSUME Handoff(t) PROVE UNCHANGED <<pending, buffer>>
      <3>1. owner = t /\ active # None /\ active \notin Commands
        BY <2>2 DEF Handoff, Calm
      <3>2. active = task[t].made /\ task[t].guard = task[t].made
        BY <2>2, <3>1 DEF Handoff, Calm, Lock, Installed, Makers, Running
      <3> QED BY <2>2, <3>2 DEF Handoff, slots
    <2>3. \/ UNCHANGED <<pending, buffer>>
          \/ pending' = None /\ buffer' = buffer
          \/ pending' \in {None, Slot} /\ buffer' = Rest
      BY <1>5, <2>2
        DEF Start, BeginRun, Promote, RunEnd, RunFollows, Reply, ReplyFails, Finish,
            Callback, RootStep, slots
    <2>4. ~Refuse(t) \/ lost' = lost
      BY <1>5, <1>0
        DEF Refuse, At, Start, BeginRun, Promote, RunEnd, RunFollows, Reply, ReplyFails,
            Handoff, Finish, Callback, RootStep, history
    <2> QED BY <1>1, <1>2, <2>1, <2>3, <2>4, Advance, TextsStay
  <1> QED BY <1>3, <1>4, <1>5, <1>6 DEF TaskStep

-----------------------------------------------------------------------------
(* Messages *)

(* What a text that is new to a calm session does to the places is enough.  *)
LEMMA NewLast ==
    ASSUME Known, Line, Prefix, Told, NEW k \in Messages, Next1(k),
           NEW s \in Senders \cup {None}, said' = [said EXCEPT ![k] = s],
           runs' = runs, arrived' = arrived \cup {k},
           \A m, n \in Messages \ {k} :
              m < n /\ said[m] # None /\ said[m] = said[n] =>
                 /\ n \in Held(pending') => m \notin Held(buffer')
                 /\ Borne(n)' => m \notin Queued'
                 /\ runs[n] > 0 => m \notin Queued' /\ ~Borne(m)',
           \A m \in Messages \ {k} :
              s # None /\ said[m] = s =>
                 /\ k \in Held(pending') => m \notin Held(buffer')
                 /\ Borne(k)' => m \notin Queued'
    PROVE  Line'
  <1>1. said \in [Messages -> Senders \cup {None}] /\ runs \in [Messages -> Nat]
    BY DEF Known, Inv, Typed, TypeOK
  <1>2. /\ k \notin arrived /\ runs[k] = 0
        /\ \A n \in Messages : said[n] # None => n \in arrived
    BY DEF Next1, Known, Sorted, Sums, Told
  <1>3. ASSUME NEW m \in Messages, NEW n \in Messages,
               m < n, said'[m] # None, said'[m] = said'[n]
        PROVE  /\ n \in Held(pending') => m \notin Held(buffer')
               /\ Borne(n)' => m \notin Queued'
               /\ runs'[n] > 0 => m \notin Queued' /\ ~Borne(m)'
    <2>1. m # k
      <3>1. m = k => n \in Messages \ {k} /\ said'[n] = said[n] /\ said[n] # None
        BY <1>1, <1>3, GuardAssumption
      <3>2. m = k => n \in arrived /\ k < n
        BY <1>2, <1>3, <3>1
      <3> QED BY <1>2, <3>2 DEF Prefix
    <2>2. CASE n = k
      BY <1>1, <1>2, <1>3, <2>1, <2>2
    <2>3. CASE n # k
      BY <1>1, <1>3, <2>1, <2>3
    <2> QED BY <2>2, <2>3
  <1> QED BY <1>3 DEF Line

(* The tasks are left alone. *)
LEMMA BorneStays == ASSUME task' = task, NEW m PROVE Borne(m)' <=> Borne(m)
  BY DEF Borne

LEMMA ArriveOrder ==
    ASSUME Known, Calm, Ordered, ~Disturbed, NEW k \in Messages, Arrive(k)
    PROVE  Ordered'
  <1>0. /\ Typed /\ Typed' /\ TypeOK /\ Held(None) = {} /\ From(None) = None
        /\ pending \in Waiting /\ buffer \in Waiting
        /\ None \notin Senders /\ None \notin [from : Senders, msgs : SUBSET Messages]
        /\ said \in [Messages -> Senders \cup {None}]
        /\ Line /\ Texts /\ Prefix /\ Told
    BY GuardAssumption DEF Known, Inv, Typed, TypeOK, Held, From, Ordered
  <1>1. PICK s \in Senders : ArriveFree(k, s) \/ ArriveMedia(k, s) \/ ArriveText(k, s)
    BY GuardAssumption DEF Arrive
  <1>2. PICK a \in {s, None} : Arrival(k, a) /\ (a = None \/ ~ArriveMedia(k, s))
    BY <1>1 DEF ArriveFree, ArriveMedia, ArriveText
  <1>3. /\ Next1(k) /\ arrived' = arrived \cup {k} /\ k \notin arrived
        /\ said' = [said EXCEPT ![k] = a] /\ runs' = runs
    BY <1>2 DEF Arrival, Next1
  <1>4. Prefix' /\ Told'
    <2>1. ~Disturbed'
      BY <1>0, ArriveCalm
    <2>2. \A m \in Messages : said'[m] # None => m \in arrived'
      BY <1>0, <1>3 DEF Told
    <2> QED BY <1>0, <1>3, <2>1, <2>2 DEF Prefix, Told, Next1
  <1>5. ~Waits(k) /\ k \notin Queued /\ ~Borne(k)
    BY <1>3 DEF Known, Sorted, Sums, Waits, Borne
  <1> DEFINE event == [from |-> s, msgs |-> {k}]
  <1>6. event \in Waiting /\ event # None /\ Held(event) = {k} /\ From(event) = s
    BY <1>0 DEF Waiting, Held, From
  <1> HIDE DEF event
  <1>7. CASE ArriveFree(k, s)
    <2>1. active = None /\ UNCHANGED slots
      <3>1. ~Stale
        BY DEF Stale, Done, Calm, Lock, Owned, Alive, Running
      <3> QED BY <1>7, <3>1 DEF ArriveFree
    <2>2. pending = None /\ buffer = None /\ Queued = {}
      BY <1>0, <2>1 DEF Calm, Lock, Installed, Queued
    <2>3. pending' = None /\ buffer' = None /\ Queued' = {}
      BY <1>0, <2>1, <2>2 DEF slots, Queued
    <2>4. PICK u \in Task : StartRoot(u, event)
      BY <1>7 DEF ArriveFree, event
    <2>5. \A v \in Task : Load(task[v]) = {}
      BY <2>1, OnlyOwner
    <2>6. \A v \in Task : Load(task'[v]) \subseteq {k}
      BY <1>0, <1>6, <2>4, <2>5, RootLoads DEF Known
    <2>7. \A m : Borne(m)' => m = k
      BY <2>6 DEF Borne
    <2>8. Line'
      BY <1>0, <1>3, <2>3, <2>7, NewLast
    <2> QED BY <1>0, <1>4, <2>3, <2>8 DEF Ordered, Texts
  <1>8. CASE ArriveMedia(k, s)
    <2>1. pending' = Merged(pending, event) /\ buffer' = buffer /\ task' = task /\ a = None
      BY <1>2, <1>8 DEF ArriveMedia, event
    <2>2. Held(pending') = Held(pending) \cup {k}
      BY <1>0, <1>6, <2>1, HeldMerged
    <2>3. \A m : Borne(m)' <=> Borne(m)
      BY <2>1, BorneStays
    <2>4. Queued' = Queued \cup {k} /\ Held(buffer') = Held(buffer)
      BY <2>1, <2>2 DEF Queued
    <2>5. Line'
      BY <1>0, <1>3, <2>1, <2>2, <2>3, <2>4, NewLast DEF Line
    <2>6. Texts'
      BY <1>0, <1>3, <1>5, <2>1 DEF Texts, Queued
    <2> QED BY <1>4, <2>5, <2>6 DEF Ordered
  <1>9. CASE ArriveText(k, s)
    <2>0. task' = task /\ \A m : Borne(m)' <=> Borne(m)
      BY <1>9, BorneStays DEF ArriveText
    <2>1. CASE From(buffer) \in {None, s} /\ buffer' = Merged(buffer, event)
               /\ pending' = pending
      <3>1. Held(buffer') = Held(buffer) \cup {k} /\ From(buffer') = s
        <4>1. From(Merged(buffer, event)) = s
          BY <1>0, <1>6, <2>1 DEF Merged, From, Waiting
        <4> QED BY <1>0, <1>6, <2>1, <4>1, HeldMerged
      <3>2. Queued' = Queued \cup {k} /\ k \notin Held(pending')
        BY <1>5, <2>1, <3>1 DEF Queued
      <3>3. Line'
        BY <1>0, <1>3, <1>5, <2>0, <2>1, <3>1, <3>2, NewLast DEF Line
      <3>4. Texts'
        <4>1. Held(buffer) = {} \/ From(buffer) = s
          BY <1>0, <2>1 DEF From, Held, Waiting
        <4> QED BY <1>0, <1>3, <3>1, <4>1 DEF Texts
      <3> QED BY <1>4, <3>3, <3>4 DEF Ordered
    <2>2. CASE From(buffer) \notin {None, s} /\ ~Blocked /\ pending' = Slot
               /\ buffer' = event
      <3>1. Held(pending') = Queued /\ Held(buffer') = {k}
        BY <1>0, <1>6, <2>2, Flushed DEF Rest, Known, Sorted
      <3>2. Queued' = Queued \cup {k} /\ k \notin Held(pending')
        BY <1>5, <3>1 DEF Queued
      <3>3. Line'
        BY <1>0, <1>3, <1>5, <2>0, <3>1, <3>2, NewLast DEF Line
      <3>4. Texts'
        BY <1>0, <1>2, <1>3, <1>6, <2>2, <3>1 DEF Texts
      <3> QED BY <1>4, <3>3, <3>4 DEF Ordered
    <2>3. CASE /\ From(buffer) \notin {None, s} /\ buffer' = buffer
               /\ pending' \in {pending, Merged(pending, event)}
      <3>1. Held(pending') \in {Held(pending), Held(pending) \cup {k}}
        BY <1>0, <1>6, <2>3, HeldMerged
      <3>2. Queued' \in {Queued, Queued \cup {k}} /\ Held(buffer') = Held(buffer)
        BY <2>3, <3>1 DEF Queued
      <3>3. \A m \in Held(buffer) : said[m] = a => a = None
        BY <1>0, <1>2, <2>3 DEF Texts
      <3>4. Line'
        <4>1. ASSUME NEW m \in Messages \ {k}, NEW n \in Messages \ {k},
                     m < n /\ said[m] # None /\ said[m] = said[n]
              PROVE  /\ n \in Held(pending') => m \notin Held(buffer')
                     /\ Borne(n)' => m \notin Queued'
                     /\ runs[n] > 0 => m \notin Queued' /\ ~Borne(m)'
          BY <1>0, <2>0, <3>1, <3>2, <4>1 DEF Line
        <4>2. ASSUME NEW m \in Messages \ {k}, a # None, said[m] = a
              PROVE  /\ k \in Held(pending') => m \notin Held(buffer')
                     /\ Borne(k)' => m \notin Queued'
          BY <1>5, <2>0, <3>2, <3>3, <4>2
        <4>3. a \in Senders \cup {None}
          OBVIOUS
        <4> QED BY <1>0, <1>3, <4>1, <4>2, <4>3, NewLast
      <3>5. Texts'
        BY <1>0, <1>3, <1>5, <2>3 DEF Texts, Queued
      <3> QED BY <1>4, <3>4, <3>5 DEF Ordered
    <2> QED BY <1>9, <2>1, <2>2, <2>3 DEF ArriveText, event
  <1> QED BY <1>1, <1>7, <1>8, <1>9

-----------------------------------------------------------------------------
(* The theorem *)

(* Messages come in turn, and nobody else touches them. *)
LEMMA PrefixHolds ==
    ASSUME Prefix, [Next]_vars PROVE Prefix'
  <1>1. arrived' = arrived \/ \E k \in Messages : Next1(k) /\ arrived' = arrived \cup {k}
    <2>1. ASSUME NEW t \in Task, TaskStep(t) PROVE arrived' = arrived
      BY <2>1
        DEF TaskStep, Start, BeginRun, Promote, BusyRun, RunEnd, RunSuperseded,
            RunFollows, NextTurn, Refuse, Reply, ReplyFails, Handoff, Finish,
            TakeCancel, Callback, RootStep, history
    <2>2. ASSUME NEW c \in Commands, CommandArrive(c) \/ CommandStep(c)
          PROVE  arrived' = arrived
      BY <2>2
        DEF CommandArrive, CommandStep, CommandHandle, CommandClear, CommandReset,
            CommandCancel, CommandDrain, CommandYield, CommandFail, history
    <2>3. ASSUME NEW m \in Messages, Arrive(m)
          PROVE  Next1(m) /\ arrived' = arrived \cup {m}
      BY <2>3 DEF Arrive, ArriveFree, ArriveMedia, ArriveText, Arrival
    <2>4. ASSUME Flush \/ Evict \/ AskReset \/ ConfirmReset \/ UNCHANGED vars
          PROVE  arrived' = arrived
      BY <2>4 DEF Flush, Evict, AskReset, ConfirmReset, history, vars
    <2> QED BY <2>1, <2>2, <2>3, <2>4 DEF Next
  <1> QED BY <1>1 DEF Prefix, Next1

(* Nothing is said in a disturbed session, nor by a step that disturbs it.  *)
LEMMA SilentOrder ==
    ASSUME Inv, Inv', Ordered, [Next]_vars,
           Disturbed \/ Evict \/ ConfirmReset \/ \E c \in Commands : CommandArrive(c)
    PROVE  Ordered'
  <1>1. said' = said \/ said' = [m \in Messages |-> None] \/ ~Disturbed
    <2>1. ASSUME NEW t \in Task, TaskStep(t)
          PROVE  said' = said \/ said' = [m \in Messages |-> None] \/ ~Disturbed
      <3>1. CASE Start(t) \/ BeginRun(t) \/ Promote(t) \/ BusyRun(t)
        BY <3>1 DEF Start, BeginRun, Promote, BusyRun, Expose, history
      <3>2. CASE RunEnd(t) \/ RunSuperseded(t) \/ RunFollows(t)
        BY <3>2 DEF RunEnd, RunSuperseded, RunFollows, history
      <3>3. CASE NextTurn(t) \/ Refuse(t) \/ Reply(t) \/ ReplyFails(t)
        BY <3>3 DEF NextTurn, Refuse, Reply, ReplyFails, history
      <3>4. CASE Handoff(t) \/ Finish(t) \/ TakeCancel(t) \/ Callback(t) \/ RootStep(t)
        BY <3>4 DEF Handoff, Finish, TakeCancel, Callback, RootStep, history
      <3> QED BY <2>1, <3>1, <3>2, <3>3, <3>4 DEF TaskStep
    <2>2. ASSUME NEW c \in Commands, CommandArrive(c) \/ CommandStep(c)
          PROVE  said' = said \/ said' = [m \in Messages |-> None]
      BY <2>2
        DEF CommandArrive, Expose, CommandStep, CommandHandle, CommandClear,
            CommandReset, CommandCancel, CommandDrain, CommandYield, CommandFail,
            history
    <2>3. ASSUME NEW m \in Messages, Arrive(m)
          PROVE  said' = said \/ said' = [k \in Messages |-> None] \/ ~Disturbed
      BY <2>3 DEF Arrive, ArriveFree, ArriveMedia, ArriveText, Arrival, history
    <2>4. ASSUME Flush \/ Evict \/ AskReset \/ ConfirmReset \/ UNCHANGED vars
          PROVE  said' = said \/ said' = [m \in Messages |-> None]
      BY <2>4 DEF Flush, Evict, AskReset, ConfirmReset, Expose, history, vars
    <2> QED BY <2>1, <2>2, <2>3, <2>4 DEF Next
  <1>2. (Evict \/ ConfirmReset \/ \E c \in Commands : CommandArrive(c))
          => said' = [m \in Messages |-> None]
    BY DEF Evict, ConfirmReset, CommandArrive, Expose
  <1>3. \A m \in Messages : said'[m] = None
    BY <1>1, <1>2 DEF Ordered, Told
  <1>4. Held(buffer') \subseteq Messages
    BY HeldType DEF Inv, Typed, TypeOK
  <1>5. Prefix'
    BY PrefixHolds DEF Ordered
  <1> QED BY <1>3, <1>4, <1>5 DEF Ordered, Line, Texts, Told

LEMMA CalmOrder ==
    ASSUME Known, Ordered, ~Disturbed, [Next]_vars,
           ~(Evict \/ ConfirmReset \/ \E c \in Commands : CommandArrive(c))
    PROVE  Ordered'
  <1>0. Typed /\ Calm /\ Line /\ Texts /\ Prefix /\ Told
    BY Undisturbed DEF Known, Inv, Ordered
  <1>1. ASSUME Line', Texts', UNCHANGED <<said, arrived>>, ~Disturbed' PROVE Ordered'
    BY <1>0, <1>1 DEF Ordered, Prefix, Told
  <1>2. ASSUME NEW t \in Task, TaskStep(t) PROVE Ordered'
    BY <1>0, <1>1, <1>2, TaskOrder
  <1>3. ASSUME NEW k \in Messages, Arrive(k) PROVE Ordered'
    BY <1>0, <1>3, ArriveOrder
  <1>4. CASE Flush \/ AskReset \/ UNCHANGED vars
    <2>1. /\ task' = task /\ UNCHANGED <<command, foreign, running, current>>
          /\ UNCHANGED <<said, arrived, runs, lost>>
      BY <1>4 DEF Flush, AskReset, runner, history, vars
    <2>2. SameRuns /\ \A t \in Task : task'[t].cancel # "asked"
      BY <1>0, <2>1 DEF SameRuns, Busy, Calm
    <2>3. ~Disturbed'
      BY <1>0, <2>1, <2>2, SameCalm
    <2>4. \/ UNCHANGED <<pending, buffer>>
          \/ pending' = Slot /\ buffer' = Rest
      BY <1>4 DEF Flush, AskReset, slots, vars
    <2>5. Line' /\ Texts'
      BY <1>0, <2>1, <2>4, Advance, TextsStay
    <2> QED BY <1>1, <2>1, <2>3, <2>5
  <1>5. ASSUME NEW c \in Commands, CommandStep(c) PROVE FALSE
    <2>1. command[c] \in {"unsent", "done"}
      BY <1>0 DEF Calm, InFlight
    <2> QED BY <1>5, <2>1
          DEF CommandStep, CommandHandle, CommandClear, CommandReset, CommandCancel,
              CommandDrain, CommandYield, CommandFail
  <1> QED BY <1>2, <1>3, <1>4, <1>5 DEF Next

LEMMA InitOrdered == Init => Ordered
  BY DEF Init, Ordered, Line, Texts, Prefix, Told, Held

(* Texts of one sender reach an agent in the order in which they were sent, *)
(* however they are buffered, merged with what others send, flushed, taken  *)
(* by a run or handed to the next turn, as long as no command and no        *)
(* eviction touches the session.                                            *)
THEOREM TextsInOrder == Spec => []InOrder
  <1>1. Init => Ordered
    BY InitOrdered
  <1>2. /\ Inv /\ Inv' /\ Typed /\ Sorted /\ Tidy /\ (Typed /\ Sorted /\ Tidy)'
        /\ Ordered /\ [Next]_vars
        => Ordered'
    BY SilentOrder, CalmOrder DEF Known
  <1>3. Ordered /\ Inv /\ Sorted => InOrder
    <2> SUFFICES ASSUME Ordered, Inv, Sorted, NEW m \in Messages, NEW n \in Messages,
                        m < n, said[m] # None, said[m] = said[n], runs[n] > 0
                 PROVE  runs[m] > 0 \/ lost[m] # "no"
      BY DEF InOrder
    <2>1. ~Waits(m)
      BY DEF Ordered, Line, Waits, Borne
    <2>2. m \in arrived /\ runs[m] \in Nat
      BY DEF Ordered, Told, Inv, Typed, TypeOK
    <2> QED BY <2>1, <2>2 DEF Sorted, Sums
  <1> QED BY <1>1, <1>2, <1>3, InvHolds, SortedHolds, PTL DEF Spec

=============================================================================
