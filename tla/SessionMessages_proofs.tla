----------------------- MODULE SessionMessages_proofs -----------------------
(***************************************************************************)
(* Where the messages of SessionGuard are, for any number of messages,     *)
(* senders, tasks and commands.                                            *)
(*                                                                         *)
(* A message waits in the pending slot, in the buffer, or with a task that *)
(* is to handle it or hands it over.  The invariant says that these places *)
(* have no message in common (Disjoint) and that the messages which wait   *)
(* are those that came and were neither given to the agent nor dropped     *)
(* (Sums); every step moves whole events between the places.               *)
(***************************************************************************)
EXTENDS SessionGuard_proofs, FiniteSetTheorems

(* What waits with a task. *)
Load(r) ==
    IF r.pc \in {"created", "hook"} THEN Held(r.event)
    ELSE IF r.pc \in {"again", "handoff"} THEN Held(r.next) ELSE {}

Queued == Held(pending) \cup Held(buffer)

Waits(m) == m \in Queued \/ \E t \in Task : m \in Load(task[t])

Disjoint ==
    /\ \A t, u \in Task : t # u => Load(task[t]) \cap Load(task[u]) = {}
    /\ \A t \in Task : Load(task[t]) \cap Queued = {}
    /\ Held(pending) \cap Held(buffer) = {}

Sums ==
    \A m \in Messages :
        /\ Waits(m) <=> m \in arrived /\ runs[m] = 0 /\ lost[m] = "no"
        /\ m \notin arrived => runs[m] = 0 /\ lost[m] = "no"
        /\ runs[m] <= IF lost[m] = "no" THEN 1 ELSE 0

Sorted == Disjoint /\ Sums

(* A task has no follow-up unless it is handing one over. *)
Tidy == \A t \in Task : task[t].pc \notin {"again", "handoff"} => task[t].next = None

-----------------------------------------------------------------------------
(* Events *)

LEMMA HeldType == \A slot \in Waiting : Held(slot) \subseteq Messages
  BY DEF Waiting, Held

LEMMA LoadType == \A r \in TaskRecord : Load(r) \subseteq Messages
  BY HeldType DEF Load, TaskRecord

LEMMA AskedLoad ==
    \A r \in TaskRecord : Load(Asked(r)) = Load(r) /\ Asked(r).next = r.next
                          /\ Asked(r).pc = r.pc
  BY DEF Asked, Load, TaskRecord

LEMMA HeldMerged ==
    ASSUME NEW slot \in Waiting, NEW event \in Waiting, event # None
    PROVE  Held(Merged(slot, event)) = Held(slot) \cup Held(event)
  <1>1. CASE slot = None
    BY <1>1 DEF Merged, Held
  <1>2. CASE slot # None
    <2>1. slot \in [from : Senders, msgs : SUBSET Messages]
      BY <1>2 DEF Waiting
    <2>2. Merged(slot, event).msgs = slot.msgs \cup event.msgs
      BY <1>2, <2>1 DEF Merged
    <2>3. Merged(slot, event) # None
      BY MergedType
    <2> QED BY <1>2, <2>2, <2>3 DEF Held
  <1> QED BY <1>1, <1>2

(* A flush moves the buffer to the slot, or leaves it. *)
LEMMA Flushed ==
    ASSUME Typed, Disjoint
    PROVE  /\ Held(Slot) \cup Held(Rest) = Queued
           /\ Held(Slot) \cap Held(Rest) = {}
  <1>1. pending \in Waiting /\ buffer \in Waiting /\ Held(None) = {}
    BY DEF Typed, TypeOK, Held
  <1>2. CASE buffer = None \/ Blocked
    BY <1>1, <1>2 DEF Slot, Rest, Queued, Disjoint
  <1>3. CASE buffer # None /\ ~Blocked
    <2>1. Slot = Merged(pending, buffer) /\ Rest = None
      BY <1>3 DEF Slot, Rest
    <2> QED BY <1>1, <1>3, <2>1, HeldMerged DEF Queued
  <1> QED BY <1>2, <1>3

-----------------------------------------------------------------------------
(* The messages G are given, D are dropped and N are new. *)

Booked(G, D, N) ==
    /\ G \cap D = {} /\ N \subseteq Messages /\ N \cap arrived = {}
    /\ arrived' = arrived \cup N
    /\ \A m \in Messages :
          /\ runs'[m] = IF m \in G THEN runs[m] + 1 ELSE runs[m]
          /\ lost'[m] = "no" <=> lost[m] = "no" /\ m \notin D

LEMMA Summed ==
    ASSUME Typed, Sums, NEW G, NEW D, NEW N, Booked(G, D, N),
           \A m \in G : Waits(m), \A m \in D : Waits(m) \/ m \in N,
           \A m \in Messages :
              Waits(m)' <=> (Waits(m) \/ m \in N) /\ m \notin G /\ m \notin D
    PROVE  Sums'
  <1> SUFFICES ASSUME NEW m \in Messages
               PROVE  /\ Waits(m)' <=> m \in arrived' /\ runs'[m] = 0 /\ lost'[m] = "no"
                      /\ m \notin arrived' => runs'[m] = 0 /\ lost'[m] = "no"
                      /\ runs'[m] <= IF lost'[m] = "no" THEN 1 ELSE 0
    BY DEF Sums
  <1>1. /\ Waits(m) <=> m \in arrived /\ runs[m] = 0 /\ lost[m] = "no"
        /\ m \notin arrived => runs[m] = 0 /\ lost[m] = "no"
        /\ runs[m] <= IF lost[m] = "no" THEN 1 ELSE 0
        /\ runs[m] \in Nat
    BY DEF Sums, Typed, TypeOK
  <1>2. /\ runs'[m] = IF m \in G THEN runs[m] + 1 ELSE runs[m]
        /\ lost'[m] = "no" <=> lost[m] = "no" /\ m \notin D
        /\ m \in arrived' <=> m \in arrived \/ m \in N
        /\ ~(m \in G /\ m \in D) /\ ~(m \in N /\ m \in arrived)
    BY DEF Booked
  <1>3. /\ m \in G => Waits(m)
        /\ m \in D => Waits(m) \/ m \in N
        /\ Waits(m)' <=> (Waits(m) \/ m \in N) /\ m \notin G /\ m \notin D
    OBVIOUS
  <1> QED BY <1>1, <1>2, <1>3

(* A step that moves messages between the queue and the tasks t and u. *)
Inside(t, u) == Load(task[t]) \cup Load(task[u]) \cup Queued

LEMMA Moves ==
    ASSUME Typed, Typed', Sorted, NEW t \in Task, NEW u \in Task,
           NEW G, NEW D, NEW N, Booked(G, D, N),
           \A v \in Task \ {t, u} : Load(task'[v]) = Load(task[v]),
           t # u => Load(task'[t]) \cap Load(task'[u]) = {},
           Load(task'[t]) \cap Queued' = {}, Load(task'[u]) \cap Queued' = {},
           Held(pending') \cap Held(buffer') = {},
           G \subseteq Inside(t, u), D \subseteq Inside(t, u) \cup N,
           Inside(t, u)' = (Inside(t, u) \cup N) \ (G \cup D)
    PROVE  Sorted'
  <1>1. \A m \in Messages : m \in Inside(t, u) => Waits(m)
    BY DEF Inside, Waits
  <1>2. /\ Queued \subseteq Messages /\ Queued' \subseteq Messages
        /\ \A v \in Task : /\ Load(task[v]) \subseteq Messages
                           /\ Load(task'[v]) \subseteq Messages
    BY HeldType, LoadType DEF Typed, TypeOK, Queued
  <1>3. \A m \in N : ~Waits(m)
    BY DEF Sorted, Sums, Booked
  <1>4. \A v \in Task \ {t, u} : Load(task[v]) \cap (Inside(t, u) \cup N) = {}
    BY <1>3 DEF Sorted, Disjoint, Inside, Waits
  <1>5. \A v \in Task \ {t, u} : Load(task'[v]) \cap Inside(t, u)' = {}
    BY <1>4
  <1>6. Disjoint'
    <2>1. ASSUME NEW v \in Task, NEW w \in Task, v # w
          PROVE  Load(task'[v]) \cap Load(task'[w]) = {}
      <3>1. CASE v \notin {t, u} /\ w \notin {t, u}
        BY <2>1, <3>1 DEF Sorted, Disjoint
      <3>2. CASE v \notin {t, u} /\ w \in {t, u}
        BY <1>5, <3>2 DEF Inside
      <3>3. CASE v \in {t, u} /\ w \notin {t, u}
        BY <1>5, <3>3 DEF Inside
      <3>4. CASE v \in {t, u} /\ w \in {t, u}
        BY <2>1, <3>4
      <3> QED BY <3>1, <3>2, <3>3, <3>4
    <2>2. ASSUME NEW v \in Task PROVE Load(task'[v]) \cap Queued' = {}
      <3>1. CASE v \notin {t, u}
        BY <1>5, <3>1 DEF Inside
      <3> QED BY <3>1
    <2> QED BY <2>1, <2>2 DEF Disjoint
  <1>7. ASSUME NEW m \in Messages
        PROVE  Waits(m)' <=> (Waits(m) \/ m \in N) /\ m \notin G /\ m \notin D
    <2>1. Waits(m) <=> \/ m \in Inside(t, u)
                       \/ \E v \in Task \ {t, u} : m \in Load(task[v])
      BY DEF Waits, Inside
    <2>2. Waits(m)' <=> \/ m \in Inside(t, u)'
                        \/ \E v \in Task \ {t, u} : m \in Load(task[v])
      BY DEF Waits, Inside
    <2>3. (\E v \in Task \ {t, u} : m \in Load(task[v])) => m \notin G /\ m \notin D
      BY <1>4
    <2> QED BY <2>1, <2>2, <2>3
  <1>8. (\A m \in G : Waits(m)) /\ (\A m \in D : Waits(m) \/ m \in N)
    BY DEF Inside, Waits
  <1> QED BY <1>6, <1>7, <1>8, Summed DEF Sorted

(* A step that leaves the tasks alone. *)
LEMMA QueueMoves ==
    ASSUME Typed, Sorted, NEW D, NEW N, Booked({}, D, N),
           \A v \in Task : Load(task'[v]) = Load(task[v]),
           Held(pending') \cap Held(buffer') = {},
           D \subseteq Queued \cup N,
           Queued' = (Queued \cup N) \ D
    PROVE  Sorted'
  <1>1. \A m \in N : ~Waits(m)
    BY DEF Sorted, Sums, Booked
  <1>2. Disjoint'
    BY <1>1 DEF Sorted, Disjoint, Waits
  <1>3. ASSUME NEW m \in Messages
        PROVE  Waits(m)' <=> (Waits(m) \/ m \in N) /\ m \notin {} /\ m \notin D
    <2>1. (\E v \in Task : m \in Load(task[v])) => m \notin D
      BY <1>1 DEF Sorted, Disjoint, Waits
    <2> QED BY <2>1 DEF Waits
  <1>4. (\A m \in {} : Waits(m)) /\ (\A m \in D : Waits(m) \/ m \in N)
    BY DEF Waits
  <1> QED BY <1>2, <1>3, <1>4, Summed DEF Sorted

LEMMA Unbooked ==
    ASSUME UNCHANGED <<arrived, runs, lost>> PROVE Booked({}, {}, {})
  BY DEF Booked

LEMMA BookedDrop ==
    ASSUME Typed, NEW S, NEW why, why # "no", Drop(S, why),
           UNCHANGED <<arrived, runs>>
    PROVE  Booked({}, S, {})
  BY DEF Booked, Drop

LEMMA BookedGive ==
    ASSUME Typed, NEW S, Give(S), UNCHANGED <<arrived, lost>>
    PROVE  Booked(S, {}, {})
  BY DEF Booked, Give

LEMMA Rests ==
    ASSUME Typed, Sorted, \A v \in Task : Load(task'[v]) = Load(task[v]),
           UNCHANGED <<pending, buffer, arrived, runs, lost>>
    PROVE  Sorted'
  <1>1. Held(pending') \cap Held(buffer') = {} /\ Queued' = Queued
    BY DEF Sorted, Disjoint, Queued
  <1> QED BY <1>1, Unbooked, QueueMoves

LEMMA Flushes ==
    ASSUME Typed, Sorted, \A v \in Task : Load(task'[v]) = Load(task[v]),
           pending' = Slot, buffer' = Rest, UNCHANGED <<arrived, runs, lost>>
    PROVE  Sorted'
  <1>1. Held(pending') \cap Held(buffer') = {} /\ Queued' = Queued
    BY Flushed DEF Sorted, Queued
  <1> QED BY <1>1, Unbooked, QueueMoves

(* The slot, after a flush, goes to a task that has nothing. *)
LEMMA Passes ==
    ASSUME Typed, Typed', Sorted, NEW u \in Task, Load(task[u]) = {},
           Load(task'[u]) = Held(Slot),
           \A v \in Task \ {u} : Load(task'[v]) = Load(task[v]),
           pending' = None, buffer' = Rest, UNCHANGED <<arrived, runs, lost>>
    PROVE  Sorted'
  <1>1. Queued' = Held(Rest) /\ Held(pending') = {}
    BY DEF Queued, Held
  <1>2. Inside(u, u)' = Inside(u, u) /\ Load(task'[u]) \cap Queued' = {}
    BY <1>1, Flushed DEF Sorted, Inside
  <1> QED BY <1>1, <1>2, Unbooked, Moves

-----------------------------------------------------------------------------
(* Tasks *)

LEMMA RunSorted ==
    ASSUME Typed, Typed', Sorted, Tidy, NEW t \in Task,
           \/ Start(t) \/ BeginRun(t) \/ Promote(t) \/ BusyRun(t) \/ RunEnd(t)
           \/ RunSuperseded(t) \/ RunFollows(t) \/ NextTurn(t) \/ Refuse(t)
    PROVE  Sorted' /\ Tidy'
  <1>0. /\ TypeOK /\ task \in [Task -> TaskRecord] /\ task[t] \in TaskRecord
        /\ Held(None) = {} /\ pending \in Waiting /\ Disjoint
    BY DEF Typed, TypeOK, Held, Sorted
  <1>1. \A v \in Task \ {t} : task'[v] = task[v]
    BY <1>0 DEF Start, BeginRun, Promote, BusyRun, RunEnd, RunSuperseded, RunFollows,
                NextTurn, Refuse
  <1>2. Tidy'
    <2>1. task'[t].pc \notin {"again", "handoff"} => task'[t].next = None
      BY <1>0 DEF Tidy, Start, BeginRun, Promote, BusyRun, RunEnd, RunSuperseded,
                  RunFollows, NextTurn, Refuse, At, TaskRecord
    <2> QED BY <1>1, <2>1 DEF Tidy
  <1>3. Held(pending) \cap Held(buffer) = {} /\ Load(task[t]) \cap Queued = {}
    BY DEF Sorted, Disjoint
  <1>4. CASE Start(t) \/ BeginRun(t) \/ Promote(t) \/ RunEnd(t)
    <2>1. Load(task'[t]) = Load(task[t])
      BY <1>0, <1>4 DEF Start, BeginRun, Promote, RunEnd, At, Load, TaskRecord
    <2>2. UNCHANGED <<pending, buffer, arrived, runs, lost>>
      BY <1>4 DEF Start, BeginRun, Promote, RunEnd, slots, history
    <2> QED BY <1>1, <1>2, <2>1, <2>2, Rests
  <1>5. CASE NextTurn(t)
    <2>1. Load(task'[t]) = {} /\ UNCHANGED <<pending, buffer>>
      BY <1>0, <1>5 DEF NextTurn, Load, TaskRecord, slots
    <2>2. Booked(Load(task[t]), {}, {})
      BY <1>5, BookedGive DEF NextTurn, At, Load
    <2>3. Queued' = Queued /\ Inside(t, t)' = Inside(t, t) \ Load(task[t])
      BY <1>3, <2>1 DEF Queued, Inside
    <2> QED BY <1>1, <1>2, <1>3, <2>1, <2>2, <2>3, Moves DEF Inside
  <1>9. CASE Refuse(t)
    <2>1. Load(task'[t]) = {} /\ UNCHANGED <<pending, buffer, arrived, runs>>
      BY <1>0, <1>9 DEF Refuse, Load, TaskRecord, slots
    <2>2. Drop(Load(task[t]), "refused")
      BY <1>9 DEF Refuse, At, Load
    <2>3. Booked({}, Load(task[t]), {})
      BY <2>1, <2>2, BookedDrop
    <2>4. Queued' = Queued /\ Inside(t, t)' = Inside(t, t) \ Load(task[t])
      BY <1>3, <2>1 DEF Queued, Inside
    <2> QED BY <1>1, <1>2, <1>3, <2>1, <2>3, <2>4, Moves DEF Inside
  <1>6. CASE BusyRun(t)
    <2>1. /\ Load(task'[t]) = {} /\ Load(task[t]) = Held(task[t].event)
          /\ buffer' = buffer /\ UNCHANGED <<arrived, runs>>
      BY <1>0, <1>6 DEF BusyRun, At, Load, TaskRecord
    <2>2. task[t].event \in Waiting /\ task[t].event # None
      BY <1>0, <1>6 DEF BusyRun, At, Typed, Carry, TaskRecord
    <2>3. CASE pending' = Merged(pending, task[t].event) /\ UNCHANGED lost
      <3>1. Held(pending') = Held(pending) \cup Load(task[t])
        BY <1>0, <2>1, <2>2, <2>3, HeldMerged
      <3>2. Inside(t, t)' = Inside(t, t) /\ Held(pending') \cap Held(buffer') = {}
        BY <1>3, <2>1, <3>1 DEF Inside, Queued
      <3> QED BY <1>1, <1>2, <2>1, <2>3, <3>2, Unbooked, Moves
    <2>4. CASE pending' = task[t].event /\ Drop(Held(pending), "replaced")
      <3>1. Booked({}, Held(pending), {})
        BY <2>1, <2>4, BookedDrop
      <3>2. Inside(t, t)' = Inside(t, t) \ Held(pending)
            /\ Held(pending') \cap Held(buffer') = {}
        BY <1>3, <2>1, <2>4 DEF Inside, Queued
      <3> QED BY <1>1, <1>2, <2>1, <3>1, <3>2, Moves DEF Inside, Queued
    <2> QED BY <1>6, <2>3, <2>4 DEF BusyRun
  <1>7. CASE RunSuperseded(t)
    <2>1. /\ Load(task'[t]) = Load(task[t]) /\ pending' = None /\ buffer' = buffer
          /\ Drop(Held(pending), "superseded") /\ UNCHANGED <<arrived, runs>>
      BY <1>0, <1>7 DEF RunSuperseded, At, Load, TaskRecord
    <2>2. Queued' = Queued \ Held(pending) /\ Held(pending') \cap Held(buffer') = {}
      BY <1>0, <1>3, <2>1 DEF Queued
    <2>3. Booked({}, Held(pending), {})
      BY <2>1, BookedDrop
    <2> QED BY <1>1, <1>2, <2>1, <2>2, <2>3, QueueMoves DEF Queued
  <1>8. CASE RunFollows(t)
    <2>1. /\ Load(task'[t]) = Held(pending) /\ Load(task[t]) = {}
          /\ pending' = None /\ buffer' = buffer /\ UNCHANGED <<arrived, runs, lost>>
      BY <1>0, <1>8 DEF RunFollows, At, Load, TaskRecord, history
    <2>2. /\ Inside(t, t)' = Inside(t, t) /\ Load(task'[t]) \cap Queued' = {}
          /\ Held(pending') \cap Held(buffer') = {}
      BY <1>0, <1>3, <2>1 DEF Inside, Queued
    <2> QED BY <1>1, <1>2, <2>1, <2>2, Unbooked, Moves
  <1> QED BY <1>4, <1>5, <1>6, <1>7, <1>8, <1>9

(* The end of a coroutine leaves nothing with the task. *)
LEMMA FollowNext ==
    ASSUME NEW ts \in [Task -> TaskRecord], NEW t \in Task, NEW r \in TaskRecord,
           NEW s \in Task \cup {None}, NEW dying \in BOOLEAN, NEW o, r.next = None
    PROVE  LET new == Follow(t, r, s, dying, o, ts) IN new[t].next = None
  <1> DEFINE w == [r EXCEPT !.pc = IF dying THEN "reap" ELSE "await", !.cur = s]
  <1>1. Exit(t, r, o).next = None
    BY DEF Exit, NoTask
  <1>2. w.next = None
    BY DEF TaskRecord
  <1> HIDE DEF w
  <1>3. Follow(t, r, s, dying, o, ts)[t] = IF s = None THEN Exit(t, r, o) ELSE w
    BY DEF Follow, w
  <1> QED BY <1>1, <1>2, <1>3

LEMMA EndedNext ==
    ASSUME NEW ts \in [Task -> TaskRecord], NEW t \in Task, NEW r \in TaskRecord,
           NEW o, r.next = None
    PROVE  Ended(t, r, o, ts)[t].next = None
  <1>1. Exit(t, r, o).next = None
    BY DEF Exit, NoTask
  <1>2. r.succ \in Task \cup {None} /\ (r.raised \/ r.cancel # "no") \in BOOLEAN
    BY DEF TaskRecord
  <1> QED BY <1>1, <1>2, FollowNext DEF Ended

(* What such a step does to the others. *)
LEMMA EndedLoads ==
    ASSUME Typed, Tidy, NEW t \in Task, NEW ts \in [Task -> TaskRecord],
           task'[t].pc \in Over, task'[t].next = None,
           \A u \in Task \ {t} : task'[u] \in {ts[u], Asked(ts[u])},
           \A u \in Task : ts[u].pc \notin {"again", "handoff"} => ts[u].next = None
    PROVE  /\ Tidy' /\ Load(task'[t]) = {}
           /\ \A u \in Task \ {t} : Load(task'[u]) = Load(ts[u])
  <1>1. \A u \in Task : /\ Load(Asked(ts[u])) = Load(ts[u])
                        /\ Asked(ts[u]).next = ts[u].next
                        /\ Asked(ts[u]).pc = ts[u].pc
    BY AskedLoad
  <1>2. Load(task'[t]) = {}
    BY DEF Load, Over
  <1>3. Tidy'
    BY <1>1 DEF Tidy
  <1> QED BY <1>1, <1>2, <1>3

LEMMA FreshLoad ==
    ASSUME NEW u \in Task, Fresh(u), NEW event, NEW guard, NEW root
    PROVE  /\ Load(task[u]) = {} /\ Load(NewTask(event, guard, root)) = Held(event)
           /\ NewTask(event, guard, root).next = None
  BY DEF Fresh, Load, NewTask, NoTask


LEMMA EndSorted ==
    ASSUME Typed, Typed', Sorted, Tidy, NEW t \in Task,
           \/ Reply(t) \/ ReplyFails(t) \/ Handoff(t) \/ Finish(t)
           \/ TakeCancel(t) \/ Callback(t) \/ RootStep(t)
    PROVE  Sorted' /\ Tidy'
  <1>0. /\ TypeOK /\ task \in [Task -> TaskRecord] /\ task[t] \in TaskRecord
        /\ Held(None) = {} /\ pending \in Waiting /\ Disjoint
        /\ owner \in Task \cup {None}
        /\ \A v \in Task : task[v].pc \notin {"again", "handoff"} => task[v].next = None
    BY DEF Typed, TypeOK, Held, Sorted, Tidy
  <1>1. Held(pending) \cap Held(buffer) = {} /\ Load(task[t]) \cap Queued = {}
    BY <1>0 DEF Disjoint
  <1>2. CASE ReplyFails(t) \/ Callback(t)
    <2>1. Load(task'[t]) = Load(task[t]) /\ task'[t].next = None
      BY <1>0, <1>2 DEF ReplyFails, Callback, At, Goto, Load, TaskRecord
    <2>2. /\ \A v \in Task \ {t} : task'[v] = task[v]
          /\ UNCHANGED <<pending, buffer, arrived, runs, lost>>
      BY <1>0, <1>2 DEF ReplyFails, Callback, Goto, slots, history
    <2> QED BY <1>0, <2>1, <2>2, Rests DEF Tidy
  <1>3. CASE Reply(t)
    <2>1. \A v \in Task \ {t} : task'[v] = task[v]
      BY <1>0, <1>3 DEF Reply, Goto
    <2>2. Load(task[t]) = {} /\ UNCHANGED <<arrived, runs, lost>> /\ buffer' = Rest
      BY <1>3 DEF Reply, At, Load, history
    <2>3. CASE pending' = None /\ task' = [task EXCEPT ![t].pc = "handoff", ![t].next = Slot]
      <3>1. Load(task'[t]) = Held(Slot) /\ task'[t].pc = "handoff"
        BY <1>0, <2>3 DEF Load, TaskRecord
      <3> QED BY <1>0, <2>1, <2>2, <2>3, <3>1, Passes DEF Tidy
    <2>4. CASE pending' = Slot /\ task' = Goto(t, "unwind")
      <3>1. Load(task'[t]) = Load(task[t]) /\ task'[t].next = None
        BY <1>0, <1>3, <2>2, <2>4 DEF Reply, At, Goto, Load, TaskRecord
      <3> QED BY <1>0, <2>1, <2>2, <2>4, <3>1, Flushes DEF Tidy
    <2> QED BY <1>3, <2>3, <2>4 DEF Reply
  <1>4. CASE Handoff(t)
    <2> DEFINE c == IF task[t].cancel = "asked" THEN "taken" ELSE task[t].cancel
               r == [task[t] EXCEPT !.pc = "unwind", !.next = None, !.cancel = c]
    <2>1. /\ r.pc = "unwind" /\ r.next = None
          /\ \A u : [r EXCEPT !.succ = u].pc = "unwind" /\ [r EXCEPT !.succ = u].next = None
      BY <1>0 DEF TaskRecord
    <2>2. /\ task[t].pc = "handoff" /\ Load(task[t]) = Held(task[t].next)
          /\ UNCHANGED <<buffer, arrived, runs, lost>>
      BY <1>4 DEF Handoff, Load, history
    <2>3. task[t].next \in Waiting \ {None}
      BY <1>0, <2>2 DEF Typed, Carry, TaskRecord
    <2>4. CASE /\ pending' = [task[t].next EXCEPT !.msgs = @ \cup Held(pending)]
               /\ task' = [task EXCEPT ![t] = r]
      <3> HIDE DEF r
      <3>1. /\ Load(task'[t]) = {} /\ \A v \in Task \ {t} : task'[v] = task[v]
            /\ task'[t].next = None
        BY <1>0, <2>1, <2>4 DEF Load
      <3>2. Held(pending') = Load(task[t]) \cup Held(pending)
        <4>1. task[t].next \in [from : Senders, msgs : SUBSET Messages]
          BY <2>3 DEF Waiting
        <4>2. Held(pending) \subseteq Messages
          BY <1>0, HeldType
        <4>3. pending' \in [from : Senders, msgs : SUBSET Messages]
              /\ pending'.msgs = task[t].next.msgs \cup Held(pending)
          BY <2>4, <4>1, <4>2
        <4>4. pending' # None
          BY <4>3, GuardAssumption
        <4> QED BY <2>2, <2>3, <4>3, <4>4 DEF Held
      <3>3. Inside(t, t)' = Inside(t, t) /\ Held(pending') \cap Held(buffer') = {}
        BY <1>1, <2>2, <3>1, <3>2 DEF Inside, Queued
      <3> QED BY <1>0, <2>2, <3>1, <3>3, Unbooked, Moves DEF Tidy
    <2>5. ASSUME NEW u \in Task, Fresh(u), pending' = pending,
                 task' = [task EXCEPT ![t] = [r EXCEPT !.succ = u],
                             ![u] = NewTask(task[t].next, task[t].guard, FALSE)]
          PROVE  Sorted' /\ Tidy'
      <3>1. u # t
        BY <2>2, <2>5 DEF Fresh
      <3>2. /\ Load(task[u]) = {}
            /\ Load(NewTask(task[t].next, task[t].guard, FALSE)) = Load(task[t])
            /\ NewTask(task[t].next, task[t].guard, FALSE).next = None
        BY <2>2, <2>5, FreshLoad
      <3> HIDE DEF r
      <3>3. /\ Load(task'[t]) = {} /\ Load(task'[u]) = Load(task[t])
            /\ task'[t].next = None /\ task'[u].next = None
            /\ \A v \in Task \ {t, u} : task'[v] = task[v]
        BY <1>0, <2>1, <2>5, <3>1, <3>2 DEF Load
      <3>4. Inside(t, u)' = Inside(t, u) /\ Queued' = Queued
        BY <2>2, <2>5, <3>2, <3>3 DEF Inside, Queued
      <3>5. Held(pending') \cap Held(buffer') = {}
        BY <1>1, <2>2, <2>5
      <3>6. Booked({}, {}, {})
        BY <2>2, Unbooked
      <3>7. Sorted'
        BY <1>1, <3>3, <3>4, <3>5, <3>6, Moves
      <3> QED BY <1>0, <3>3, <3>7 DEF Tidy
    <2> QED BY <1>4, <2>4, <2>5 DEF Handoff
  <1>5. CASE Finish(t)
    <2>1. /\ Load(task[t]) = {} /\ task[t].next = None /\ task[t].pc = "unwind"
          /\ UNCHANGED <<arrived, runs, lost>> /\ buffer' = Rest
      BY <1>0, <1>5 DEF Finish, At, Load, history
    <2>2. ASSUME task' = Ended(t, task[t], owner', task), pending' = Slot
          PROVE  Sorted' /\ Tidy'
      <3>1. /\ task'[t].pc \in Over /\ task'[t].next = None
            /\ \A u \in Task \ {t} : task'[u] \in {task[u], Asked(task[u])}
        BY <1>0, <2>1, <2>2, EndedFrame, EndedNext
      <3>2. Tidy' /\ \A u \in Task : Load(task'[u]) = Load(task[u])
        BY <1>0, <2>1, <3>1, EndedLoads
      <3> QED BY <2>1, <2>2, <3>2, Flushes
    <2>3. ASSUME NEW u \in Task, Fresh(u), pending' = None,
                 task' = Ended(t, [task[t] EXCEPT !.succ = u], u,
                       [task EXCEPT ![u] = NewTask(Slot, task[t].guard, FALSE)])
          PROVE  Sorted' /\ Tidy'
      <3> DEFINE r == [task[t] EXCEPT !.succ = u]
                 ts == [task EXCEPT ![u] = NewTask(Slot, task[t].guard, FALSE)]
      <3>1. r \in TaskRecord /\ r.next = None /\ Slot \in Waiting
            /\ task[t].guard \in Guards \cup {None}
        BY <1>0, <2>1, SlotType DEF TaskRecord
      <3>2. NewTask(Slot, task[t].guard, FALSE) \in TaskRecord
        BY <3>1, NoTaskType DEF NewTask, TaskRecord, Pcs
      <3>3. /\ Load(task[u]) = {}
            /\ Load(NewTask(Slot, task[t].guard, FALSE)) = Held(Slot)
            /\ NewTask(Slot, task[t].guard, FALSE).next = None
        BY <2>3, FreshLoad
      <3>4. u # t
        BY <2>1, <2>3 DEF Fresh
      <3>5. /\ ts \in [Task -> TaskRecord] /\ Load(ts[u]) = Held(Slot)
            /\ \A v \in Task \ {u} : ts[v] = task[v]
            /\ \A v \in Task : ts[v].pc \notin {"again", "handoff"} => ts[v].next = None
        BY <1>0, <3>2, <3>3
      <3>6. task' = Ended(t, r, u, ts)
        BY <2>3
      <3> HIDE DEF r, ts
      <3>7. /\ task'[t].pc \in Over /\ task'[t].next = None
            /\ \A v \in Task \ {t} : task'[v] \in {ts[v], Asked(ts[v])}
        BY <3>1, <3>5, <3>6, EndedFrame, EndedNext
      <3>8. /\ Tidy' /\ Load(task'[t]) = {}
            /\ \A v \in Task \ {t} : Load(task'[v]) = Load(ts[v])
        BY <3>5, <3>7, EndedLoads
      <3>9. /\ Load(task'[u]) = Held(Slot)
            /\ \A v \in Task \ {u} : Load(task'[v]) = Load(task[v])
        BY <2>1, <3>4, <3>5, <3>8
      <3> QED BY <2>1, <2>3, <3>3, <3>8, <3>9, Passes
    <2> QED BY <1>5, <2>2, <2>3 DEF Finish
  <1>6. CASE TakeCancel(t)
    <2> DEFINE r == [task[t] EXCEPT !.cancel = "taken", !.raised = TRUE]
               w == [r EXCEPT !.pc = "unwind", !.event = None, !.next = None,
                              !.depth = 0]
               x == [task[t] EXCEPT !.cancel = "taken"]
    <2>1. /\ r \in TaskRecord /\ r.next = task[t].next
          /\ w.pc = "unwind" /\ w.next = None
          /\ x.pc = task[t].pc /\ x.next = task[t].next
      BY <1>0 DEF TaskRecord
    <2>2. Exit(t, r, owner).pc \in {"exited", "done"} /\ Exit(t, r, owner).next = None
      BY DEF Exit, NoTask
    <2>3. UNCHANGED <<pending, buffer, arrived, runs>>
      BY <1>6 DEF TakeCancel, slots
    <2>4. CASE task[t].pc \in {"created", "hook", "run", "again"}
      <3>1. /\ \/ task' = [task EXCEPT ![t] = Exit(t, r, owner)]
               \/ task' = [task EXCEPT ![t] = w]
            /\ \/ task[t].pc \in {"created", "hook"} /\ Drop(Held(task[t].event), "cancelled")
               \/ task[t].pc \in {"run", "again"} /\ Drop(Held(task[t].next), "cancelled")
        BY <1>6, <2>4 DEF TakeCancel
      <3> HIDE DEF r, w, x
      <3>2. Drop(Load(task[t]), "cancelled")
        BY <1>0, <3>1 DEF Load
      <3>3. /\ Load(task'[t]) = {} /\ task'[t].next = None
            /\ \A v \in Task \ {t} : task'[v] = task[v]
        BY <1>0, <2>1, <2>2, <3>1 DEF Load
      <3>4. Booked({}, Load(task[t]), {})
        BY <2>3, <3>2, BookedDrop
      <3>5. Queued' = Queued /\ Inside(t, t)' = Inside(t, t) \ Load(task[t])
        BY <1>1, <2>3, <3>3 DEF Queued, Inside
      <3> QED BY <1>0, <1>1, <2>3, <3>3, <3>4, <3>5, Moves DEF Tidy, Inside
    <2>5. CASE task[t].pc \in {"reply", "unwind"}
      <3>1. Load(task[t]) = {} /\ task[t].next = None /\ lost' = lost
        BY <1>0, <1>6, <2>5 DEF TakeCancel, Load
      <3>2. \/ task' = [task EXCEPT ![t] = w]
            \/ task' = [task EXCEPT ![t] = x]
            \/ task' = Ended(t, r, owner, task)
        BY <1>6, <2>5 DEF TakeCancel
      <3> HIDE DEF r, w, x
      <3>3. ASSUME NEW s, s \in {w, x}, task' = [task EXCEPT ![t] = s]
            PROVE  Tidy' /\ \A v \in Task : Load(task'[v]) = Load(task[v])
        <4>1. s.pc \in {"reply", "unwind"} /\ s.next = None
          BY <2>1, <2>5, <3>1, <3>3
        <4> QED BY <1>0, <3>1, <3>3, <4>1 DEF Tidy, Load
      <3>4. ASSUME task' = Ended(t, r, owner, task)
            PROVE  Tidy' /\ \A v \in Task : Load(task'[v]) = Load(task[v])
        <4>1. /\ task'[t].pc \in Over /\ task'[t].next = None
              /\ \A u \in Task \ {t} : task'[u] \in {task[u], Asked(task[u])}
          BY <1>0, <2>1, <3>1, <3>4, EndedFrame, EndedNext
        <4> QED BY <1>0, <3>1, <4>1, EndedLoads
      <3>5. Tidy' /\ \A v \in Task : Load(task'[v]) = Load(task[v])
        BY <3>2, <3>3, <3>4
      <3> QED BY <2>3, <3>1, <3>5, Rests
    <2> QED BY <1>6, <2>4, <2>5 DEF TakeCancel
  <1>7. CASE RootStep(t)
    <2> DEFINE cur == task[task[t].cur]
    <2>1. /\ cur \in TaskRecord
          /\ task' = Follow(t, task[t], cur.succ,
                            task[t].pc = "reap" \/ cur.raised, owner, task)
      BY <1>0, <1>7 DEF RootStep, Typed, Carry
    <2>2. cur.succ \in Task \cup {None} /\ (task[t].pc = "reap" \/ cur.raised) \in BOOLEAN
      BY <2>1 DEF TaskRecord
    <2>3. /\ Load(task[t]) = {} /\ task[t].next = None
          /\ UNCHANGED <<pending, buffer, arrived, runs, lost>>
      BY <1>0, <1>7 DEF RootStep, Load, slots, history
    <2> HIDE DEF cur
    <2> DEFINE dying == task[t].pc = "reap" \/ cur.raised
    <2>4. dying \in BOOLEAN /\ task' = Follow(t, task[t], cur.succ, dying, owner, task)
      BY <2>1, <2>2
    <2> HIDE DEF dying
    <2>5. /\ task'[t].pc \in Over
          /\ \A u \in Task \ {t} : task'[u] \in {task[u], Asked(task[u])}
      BY <1>0, <2>2, <2>4, FollowFrame
    <2>6. task'[t].next = None
      <3>1. /\ cur.succ \in Task \cup {None} /\ task[t].next = None
            /\ task \in [Task -> TaskRecord] /\ task[t] \in TaskRecord
            /\ dying \in BOOLEAN
        BY <1>0, <2>2, <2>3, <2>4
      <3>2. Follow(t, task[t], cur.succ, dying, owner, task)[t].next = None
        BY <3>1, FollowNext
      <3> QED BY <2>4, <3>2
    <2>7. Tidy' /\ \A u \in Task : Load(task'[u]) = Load(task[u])
      BY <1>0, <2>3, <2>5, <2>6, EndedLoads
    <2> QED BY <2>3, <2>7, Rests
  <1> QED BY <1>2, <1>3, <1>4, <1>5, <1>6, <1>7

-----------------------------------------------------------------------------
(* Messages and commands *)

(* No task changes its place. *)
LEMMA SameTasks ==
    ASSUME Tidy, task' = task
    PROVE  Tidy' /\ \A v \in Task : Load(task'[v]) = Load(task[v])
  BY DEF Tidy

LEMMA RootLoads ==
    ASSUME Typed, Tidy, NEW u \in Task, NEW event, StartRoot(u, event)
    PROVE  /\ Tidy' /\ Load(task[u]) = {} /\ Load(task'[u]) = Held(event)
           /\ \A v \in Task \ {u} : Load(task'[v]) = Load(task[v])
  <1>1. /\ Fresh(u) /\ task' = [task EXCEPT ![u] = NewTask(event, u, TRUE)]
        /\ task \in [Task -> TaskRecord]
    BY DEF StartRoot, Typed, TypeOK
  <1>2. /\ Load(task[u]) = {} /\ Load(NewTask(event, u, TRUE)) = Held(event)
        /\ NewTask(event, u, TRUE).next = None
    BY <1>1, FreshLoad
  <1> QED BY <1>1, <1>2 DEF Tidy

LEMMA DrainSorted ==
    ASSUME Typed, Typed', Sorted, Tidy, NEW o, Drain(o),
           UNCHANGED <<arrived, runs, lost>>
    PROVE  Sorted' /\ Tidy'
  <1>1. CASE UNCHANGED <<slots, task>>
    BY <1>1, SameTasks, Rests DEF slots
  <1>2. ASSUME NEW u \in Task, StartRoot(u, Slot), pending' = None, buffer' = Rest
        PROVE  Sorted' /\ Tidy'
    BY <1>2, RootLoads, Passes
  <1> QED BY <1>1, <1>2 DEF Drain

LEMMA ArriveSorted ==
    ASSUME Typed, Typed', Sorted, Tidy, NEW m \in Messages, Arrive(m)
    PROVE  Sorted' /\ Tidy'
  <1>0. /\ TypeOK /\ Held(None) = {} /\ pending \in Waiting /\ buffer \in Waiting
        /\ Held(pending) \cap Held(buffer) = {} /\ Disjoint
        /\ None \notin [from : Senders, msgs : SUBSET Messages]
    BY GuardAssumption DEF Typed, TypeOK, Held, Sorted, Disjoint
  <1>1. PICK s \in Senders : ArriveFree(m, s) \/ ArriveMedia(m, s) \/ ArriveText(m, s)
    BY GuardAssumption DEF Arrive
  <1> DEFINE event == [from |-> s, msgs |-> {m}]
  <1>2. event \in Waiting /\ event # None /\ Held(event) = {m}
    BY <1>0 DEF Waiting, Held
  <1> HIDE DEF event
  <1>3. m \notin arrived /\ arrived' = arrived \cup {m} /\ runs' = runs
    BY <1>1 DEF ArriveFree, ArriveMedia, ArriveText, Arrival, Next1
  <1>4. m \notin Queued /\ \A v \in Task : m \notin Load(task[v])
    BY <1>3 DEF Sorted, Sums, Waits
  <1>5. ASSUME UNCHANGED lost PROVE Booked({}, {}, {m})
    BY <1>3, <1>5 DEF Booked
  <1>6. CASE ArriveFree(m, s)
    <2>1. PICK u \in Task : StartRoot(u, event)
      BY <1>6 DEF ArriveFree, event
    <2>2. /\ Tidy' /\ Load(task[u]) = {} /\ Load(task'[u]) = {m}
          /\ \A v \in Task \ {u} : Load(task'[v]) = Load(task[v])
      BY <1>2, <2>1, RootLoads
    <2>3. CASE UNCHANGED <<slots, lost>>
      <3>1. Queued' = Queued /\ Inside(u, u)' = Inside(u, u) \cup {m}
            /\ Held(pending') \cap Held(buffer') = {}
        BY <1>0, <2>2, <2>3 DEF Queued, Inside, slots
      <3> QED BY <1>4, <1>5, <2>2, <2>3, <3>1, Moves
    <2>4. CASE /\ pending' = None /\ buffer' = None
               /\ Drop(Held(pending) \cup Held(buffer), "healed")
      <3>1. Booked({}, Queued, {m})
        BY <1>3, <2>4 DEF Booked, Drop, Queued
      <3>2. Queued' = {} /\ Inside(u, u)' = (Inside(u, u) \cup {m}) \ Queued
        BY <1>0, <1>4, <2>2, <2>4 DEF Queued, Inside
      <3>3. Held(pending') \cap Held(buffer') = {} /\ Queued \subseteq Inside(u, u)
        BY <1>0, <2>4 DEF Inside
      <3> QED BY <2>2, <3>1, <3>2, <3>3, Moves
    <2> QED BY <1>6, <2>3, <2>4 DEF ArriveFree
  <1>7. CASE ArriveMedia(m, s)
    <2>1. /\ pending' = Merged(pending, event) /\ buffer' = buffer
          /\ task' = task /\ lost' = lost
      BY <1>7 DEF ArriveMedia, event
    <2>2. Held(pending') = Held(pending) \cup {m}
      BY <1>0, <1>2, <2>1, HeldMerged
    <2>3. Queued' = Queued \cup {m} /\ Held(pending') \cap Held(buffer') = {}
      BY <1>0, <1>4, <2>1, <2>2 DEF Queued
    <2> QED BY <1>5, <2>1, <2>3, SameTasks, QueueMoves
  <1>8. CASE ArriveText(m, s)
    <2>1. task' = task
      BY <1>8 DEF ArriveText
    <2>2. CASE buffer' = Merged(buffer, event) /\ UNCHANGED <<pending, lost>>
      <3>1. Held(buffer') = Held(buffer) \cup {m}
        BY <1>0, <1>2, <2>2, HeldMerged
      <3>2. Queued' = Queued \cup {m} /\ Held(pending') \cap Held(buffer') = {}
        BY <1>0, <1>4, <2>2, <3>1 DEF Queued
      <3> QED BY <1>5, <2>1, <2>2, <3>2, SameTasks, QueueMoves
    <2>3. CASE ~Blocked /\ pending' = Slot /\ buffer' = event /\ UNCHANGED lost
      <3>1. Held(Slot) = Queued
        BY <1>0, <2>3, Flushed DEF Rest
      <3>2. Queued' = Queued \cup {m} /\ Held(pending') \cap Held(buffer') = {}
        BY <1>2, <1>4, <2>3, <3>1 DEF Queued
      <3> QED BY <1>5, <2>1, <2>3, <3>2, SameTasks, QueueMoves
    <2>4. CASE pending' = Merged(pending, event) /\ UNCHANGED <<buffer, lost>>
      <3>1. Held(pending') = Held(pending) \cup {m}
        BY <1>0, <1>2, <2>4, HeldMerged
      <3>2. Queued' = Queued \cup {m} /\ Held(pending') \cap Held(buffer') = {}
        BY <1>0, <1>4, <2>4, <3>1 DEF Queued
      <3> QED BY <1>5, <2>1, <2>4, <3>2, SameTasks, QueueMoves
    <2>5. CASE Drop({m}, "crowded") /\ UNCHANGED <<pending, buffer>>
      <3>1. Booked({}, {m}, {m})
        BY <1>3, <2>5 DEF Booked, Drop
      <3>2. Queued' = (Queued \cup {m}) \ {m} /\ Held(pending') \cap Held(buffer') = {}
        BY <1>0, <1>4, <2>5 DEF Queued
      <3> QED BY <2>1, <3>1, <3>2, SameTasks, QueueMoves
    <2> QED BY <1>8, <2>2, <2>3, <2>4, <2>5 DEF ArriveText, event
  <1> QED BY <1>1, <1>6, <1>7, <1>8

LEMMA CommandSorted ==
    ASSUME Typed, Typed', Sorted, Tidy, NEW c \in Commands,
           CommandArrive(c) \/ CommandStep(c)
    PROVE  Sorted' /\ Tidy'
  <1>0. /\ TypeOK /\ Held(None) = {} /\ Held(pending) \cap Held(buffer) = {}
    BY DEF Typed, TypeOK, Held, Sorted, Disjoint
  <1>1. CASE CommandArrive(c)
    <2>1. Booked({}, Held(buffer), {}) /\ task' = task
      BY <1>1, BookedDrop DEF CommandArrive
    <2>2. Queued' = Queued \ Held(buffer) /\ Held(pending') \cap Held(buffer') = {}
      BY <1>0, <1>1 DEF CommandArrive, Queued
    <2> QED BY <2>1, <2>2, SameTasks, QueueMoves DEF Queued
  <1>2. CASE CommandClear(c)
    <2>1. Booked({}, Held(pending), {}) /\ task' = task
      BY <1>2, BookedDrop DEF CommandClear
    <2>2. Queued' = Queued \ Held(pending) /\ Held(pending') \cap Held(buffer') = {}
      BY <1>0, <1>2 DEF CommandClear, Queued
    <2> QED BY <2>1, <2>2, SameTasks, QueueMoves DEF Queued
  <1>3. CASE CommandHandle(c) \/ CommandReset(c) \/ CommandYield(c)
    BY <1>3, SameTasks, Rests
      DEF CommandHandle, CommandReset, CommandYield, slots, history
  <1>4. CASE CommandCancel(c)
    <2>1. UNCHANGED <<arrived, runs, lost>>
      BY <1>4 DEF CommandCancel, history
    <2>2. ASSUME LiveOwner, task' = [task EXCEPT ![owner] = Asked(@)],
                 UNCHANGED <<active, slots>>
          PROVE  Sorted' /\ Tidy'
      <3>1. owner \in Task /\ task[owner] \in TaskRecord
        BY <1>0, <2>2 DEF LiveOwner, TypeOK
      <3>2. /\ Load(task'[owner]) = Load(task[owner])
            /\ task'[owner].next = task[owner].next
            /\ task'[owner].pc = task[owner].pc
            /\ \A v \in Task \ {owner} : task'[v] = task[v]
        BY <1>0, <2>2, <3>1, AskedLoad DEF TypeOK
      <3>3. Tidy' /\ \A v \in Task : Load(task'[v]) = Load(task[v])
        BY <3>1, <3>2 DEF Tidy
      <3> QED BY <2>1, <2>2, <3>3, Rests DEF slots
    <2>3. ASSUME Drain(None) PROVE Sorted' /\ Tidy'
      BY <2>1, <2>3, DrainSorted
    <2> QED BY <1>4, <2>2, <2>3 DEF CommandCancel
  <1>5. CASE CommandDrain(c) \/ CommandFail(c)
    <2>1. UNCHANGED <<arrived, runs, lost>>
      BY <1>5 DEF CommandDrain, CommandFail, history
    <2>2. CASE Drain(owner)
      BY <2>1, <2>2, DrainSorted
    <2>3. CASE UNCHANGED <<slots, task>>
      BY <2>1, <2>3, SameTasks, Rests DEF slots
    <2> QED BY <1>5, <2>2, <2>3 DEF CommandDrain, CommandFail
  <1> QED BY <1>1, <1>2, <1>3, <1>4, <1>5 DEF CommandStep

LEMMA OtherSorted ==
    ASSUME Typed, Sorted, Tidy,
           Flush \/ Evict \/ AskReset \/ ConfirmReset \/ UNCHANGED vars
    PROVE  Sorted' /\ Tidy'
  <1>1. CASE Flush
    BY <1>1, SameTasks, Flushes DEF Flush, history
  <1>2. CASE Evict \/ AskReset \/ ConfirmReset \/ UNCHANGED vars
    BY <1>2, SameTasks, Rests DEF Evict, AskReset, ConfirmReset, vars, slots, history
  <1> QED BY <1>1, <1>2

LEMMA InitSorted == Init => Sorted /\ Tidy
  BY DEF Init, NoTask, Sorted, Disjoint, Sums, Waits, Queued, Held, Load, Tidy

-----------------------------------------------------------------------------
(* Theorems *)

LEMMA SortedHolds == Spec => [](Typed /\ Sorted /\ Tidy)
  <1>1. Init => Typed /\ Sorted /\ Tidy
    BY InitTyped, InitSorted
  <1>2. Typed /\ Sorted /\ Tidy /\ [Next]_vars => (Typed /\ Sorted /\ Tidy)'
    BY NextTyped, RunSorted, EndSorted, ArriveSorted, CommandSorted, OtherSorted
      DEF Next, TaskStep
  <1> QED BY <1>1, <1>2, PTL DEF Spec

(* Holders looks at the fields, Load at the place. *)
LEMMA HoldersLoad ==
    ASSUME Typed, Tidy, NEW m
    PROVE  Holders(m) = {t \in Task : m \in Load(task[t])}
  <1>1. \A t \in Task : task[t].next = None => Held(task[t].next) = {}
    BY DEF Held
  <1> QED BY <1>1 DEF Holders, Load, Tidy

LEMMA OnePlace ==
    ASSUME Typed, Sorted, Tidy, NEW m \in Messages
    PROVE  Places(m) = IF Waits(m) THEN 1 ELSE 0
  <1>1. Holders(m) = {t \in Task : m \in Load(task[t])}
    BY HoldersLoad
  <1>2. CASE \E t \in Task : m \in Load(task[t])
    <2>1. PICK t \in Task : m \in Load(task[t])
      BY <1>2
    <2>2. Holders(m) = {t}
      BY <1>1, <2>1 DEF Sorted, Disjoint
    <2>3. Cardinality(Holders(m)) = 1
      BY <2>2, FS_Singleton
    <2>4. m \notin Held(pending) /\ m \notin Held(buffer) /\ Waits(m)
      BY <2>1 DEF Sorted, Disjoint, Queued, Waits
    <2> QED BY <2>3, <2>4 DEF Places
  <1>3. CASE ~\E t \in Task : m \in Load(task[t])
    <2>1. Cardinality(Holders(m)) = 0
      BY <1>1, <1>3, FS_EmptySet
    <2>2. ~(m \in Held(pending) /\ m \in Held(buffer))
      BY DEF Sorted, Disjoint
    <2>3. Waits(m) <=> m \in Held(pending) \/ m \in Held(buffer)
      BY <1>3 DEF Waits, Queued
    <2> QED BY <2>1, <2>2, <2>3 DEF Places
  <1> QED BY <1>2, <1>3

(* Merges, handoffs, flushes, restored slots and drains neither lose nor    *)
(* repeat a message: one that came waits in exactly one place, or was given *)
(* to an agent once and not dropped, or was dropped by a step known to drop.*)
THEOREM Accounting == Spec => []Accounted
  <1>1. ASSUME Typed, Sorted, Tidy PROVE Accounted
    <2> SUFFICES ASSUME NEW m \in arrived
                 PROVE  Places(m) + runs[m] + (IF lost[m] = "no" THEN 0 ELSE 1) = 1
      BY DEF Accounted
    <2>1. m \in Messages /\ runs[m] \in Nat
      BY <1>1 DEF Typed, TypeOK
    <2>2. Places(m) = IF Waits(m) THEN 1 ELSE 0
      BY <1>1, <2>1, OnePlace
    <2>3. Waits(m) <=> runs[m] = 0 /\ lost[m] = "no"
      BY <1>1, <2>1 DEF Sorted, Sums
    <2>4. runs[m] <= IF lost[m] = "no" THEN 1 ELSE 0
      BY <1>1, <2>1 DEF Sorted, Sums
    <2> QED BY <2>1, <2>2, <2>3, <2>4
  <1> QED BY <1>1, SortedHolds, PTL

=============================================================================
