------------------------ MODULE SessionRequests_proofs ------------------------
(***************************************************************************)
(* SessionRequests for any number of questions, runs and inputs.           *)
(*                                                                         *)
(* What a thread returned says nothing about the lock, under which its     *)
(* entry was decided: between the two lie the write of the result and the  *)
(* event.  The invariant follows the decision on that way (Decisions), and *)
(* an answer likewise (Answers).  That a run's end disturbs only runs that  *)
(* overlap it, and threads that were abandoned, needs whose questions wait  *)
(* (Places, Sessions).                                                      *)
(***************************************************************************)
EXTENDS SessionRequests, TLAPS

(* Threads whose entries wait in a queue have not looked at them yet. *)
Places ==
    /\ \A q \in queue : pc[q] \in {"queued", "failing", "waiting", "woken"}
    /\ \A q \in index : pc[q] \in {"registered", "rendered", "waiting", "woken"}

(* The result that goes with a decision. *)
Mark(d) == IF d = "withdrawn" THEN None ELSE d

Awake == \A q \in Requests : pc[q] \in {"woken", "dropped"} => q \in late \cup event

Decisions ==
    /\ \A q \in queue : decided[q] = None
    /\ \A q \in Approvals : pc[q] \in {"new", "called"} => decided[q] = None
    /\ \A w \in writes : w.to \in Approvals =>
          /\ decided[w.to] # None /\ w.value = Mark(decided[w.to])
          /\ w.to \notin event
    /\ \A v, w \in writes : v.to = w.to /\ v.to \in Approvals => v = w
    /\ \A q \in Approvals :
          IF q \in event THEN decided[q] # None /\ result[q] = Mark(decided[q])
          ELSE result[q] = None
    /\ \A q \in Approvals : Returned(q) =>
          (outcome[q] = Once <=>
              decided[q] = Once /\ q \notin late /\ pc[q] # "unsent")

(* v tells the thread of q its answer, or that it was withdrawn. *)
Tells(q, v) == \/ v = Blank /\ decided[q] = "withdrawn"
               \/ v \in Inputs /\ taken[v] = q

Answers ==
    /\ \A q \in Clarifies : pc[q] # "unasked" /\ (pc[q] = "new" => decided[q] = None)
    /\ \A i \in Inputs : i > inputs => taken[i] = None
    /\ \A w \in writes : w.to \in Clarifies => Tells(w.to, w.value)
    /\ \A q \in Clarifies : q \in event => Tells(q, result[q])
    /\ \A q \in Clarifies :
          pc[q] \in {"registered", "rendered"} /\ q \notin index
            => decided[q] = "withdrawn"
    /\ \A q \in Clarifies : pc[q] = "done" =>
          \/ q \in late \/ decided[q] = "withdrawn"
          \/ outcome[q] \in Inputs /\ taken[outcome[q]] = q

Asking(q) == pc[q] # "new" /\ ~Returned(q)

Sessions ==
    /\ \A r, s \in Present : r # s => r \in overlap
    /\ \A r \in Runs : run[r] = "on" /\ notify # r => r \in overlap
    /\ \A q \in Requests : Asking(q) =>
          of[q] \in Runs /\ (run[of[q]] = "on" \/ q \in abandoned)
    /\ \A c, d \in Clarifies : Asking(c) /\ Asking(d) /\ c # d => of[c] # of[d]
    /\ OverlapOnly

Inv == TypeOK /\ Places /\ Awake /\ Decisions /\ Answers /\ Sessions

-----------------------------------------------------------------------------
(* Operators *)

LEMMA InputType ==
    ASSUME TypeOK, Within
    PROVE  inputs' \in Inputs /\ inputs' \in 0..MaxInputs /\ inputs' = inputs + 1
  BY RequestAssumption DEF TypeOK, Within, Inputs

LEMMA WritesType ==
    ASSUME TypeOK, NEW S \in SUBSET Requests, NEW value \in Values,
           NEW by \in Runs \cup Requests \cup {None}, Writes(S, value, by)
    PROVE  writes' \subseteq [to : Requests, value : Values,
                              by : Runs \cup Requests \cup {None}]
  BY DEF TypeOK, Writes

LEMMA DecideType ==
    ASSUME TypeOK, NEW S, NEW what \in {None, Once, Deny, "withdrawn"},
           Decide(S, what)
    PROVE  decided' \in [Requests -> {None, Once, Deny, "withdrawn"}]
  BY DEF TypeOK, Decide

Stages == {"new", "called", "queued", "failing", "registered", "rendered",
           "waiting", "woken", "dropped", "done", "unasked", "unsent"}

LEMMA GotoType ==
    ASSUME TypeOK, NEW q \in Requests, NEW there \in Stages, Goto(q, there)
    PROVE  pc' \in [Requests -> Stages]
  BY DEF TypeOK, Goto, Stages

LEMMA ReturnType ==
    ASSUME TypeOK, NEW q \in Requests, NEW how \in Stages,
           NEW what \in {None, Once, Deny} \cup Inputs, Return(q, how, what)
    PROVE  /\ pc' \in [Requests -> Stages]
           /\ outcome' \in [Requests -> {None, Once, Deny} \cup Inputs]
           /\ result' \in [Requests -> Values] /\ event' \subseteq Requests
           /\ ahead' \in [Requests -> SUBSET Requests]
           /\ scoped' \subseteq Approvals /\ text' \subseteq Clarifies
           /\ pressed' \subseteq Clarifies
  BY GotoType DEF TypeOK, Return, Values

LEMMA AskType ==
    ASSUME TypeOK, NEW q \in Requests, NEW S, NEW r \in Runs, Ask(q, S, r)
    PROVE  of' \in [Requests -> Runs \cup {None}]
  BY DEF TypeOK, Ask

LEMMA TakeType ==
    ASSUME TypeOK, NEW q \in Clarifies, Take(q)
    PROVE  /\ taken' \in [Inputs -> Clarifies \cup {None}]
           /\ writes' \subseteq [to : Requests, value : Values,
                                 by : Runs \cup Requests \cup {None}]
           /\ inputs' \in 0..MaxInputs
  <1>1. inputs' \in Inputs /\ inputs' \in 0..MaxInputs
    BY InputType DEF Take, Input
  <1>2. taken' \in [Inputs -> Clarifies \cup {None}]
    BY <1>1 DEF TypeOK, Take
  <1>3. {q} \in SUBSET Requests /\ inputs' \in Values
    BY <1>1 DEF Requests, Values
  <1> QED BY <1>1, <1>2, <1>3, WritesType DEF Take

(* Entries that are taken out of the queue of approvals under the lock. *)
LEMMA DecidedKeeps ==
    ASSUME TypeOK, Places, Decisions,
           NEW S \in SUBSET queue, NEW what \in {Once, Deny, "withdrawn"}, NEW by,
           queue' = queue \ S, Writes(S, Mark(what), by), Decide(S, what),
           UNCHANGED <<pc, late, outcome, result, event>>
    PROVE  Decisions'
  <1>1. /\ S \subseteq Approvals /\ S \subseteq Requests
        /\ \A q \in S : decided[q] = None /\ ~Returned(q)
                        /\ pc[q] \notin {"new", "called"}
    BY DEF TypeOK, Places, Decisions, Requests, Returned
  <1>2. \A q \in Approvals : decided'[q] = IF q \in S THEN what ELSE decided[q]
    BY DEF Decide, Requests
  <1>3. what # None
    BY RequestAssumption
  <1>4. \A q \in queue' : decided'[q] = None
    BY <1>2 DEF TypeOK, Decisions
  <1>5. \A q \in Approvals : pc'[q] \in {"new", "called"} => decided'[q] = None
    BY <1>1, <1>2 DEF Decisions
  <1>6. ASSUME NEW w \in writes', w.to \in Approvals
        PROVE  decided'[w.to] # None /\ w.value = Mark(decided'[w.to])
               /\ w.to \notin event'
    <2>1. CASE w \in writes
      <3>1. w.to \notin S
        BY <1>1, <1>6, <2>1 DEF Decisions
      <3> QED BY <1>2, <1>6, <2>1, <3>1 DEF Decisions
    <2>2. CASE w \notin writes
      <3>1. w.to \in S /\ w.value = Mark(what)
        BY <2>2 DEF Writes
      <3>2. w.to \notin event
        BY <1>1, <1>6, <3>1 DEF Decisions
      <3> QED BY <1>2, <1>3, <1>6, <3>1, <3>2
    <2> QED BY <2>1, <2>2
  <1>7. ASSUME NEW v \in writes', NEW w \in writes', v.to = w.to, v.to \in Approvals
        PROVE  v = w
    <2>1. \A u \in writes : u.to \notin S
      BY <1>1 DEF Decisions
    <2> QED BY <1>7, <2>1 DEF Decisions, Writes
  <1>8. \A q \in Approvals :
           IF q \in event' THEN decided'[q] # None /\ result'[q] = Mark(decided'[q])
           ELSE result'[q] = None
    BY <1>1, <1>2 DEF Decisions
  <1>9. \A q \in Approvals : Returned(q)' =>
           (outcome'[q] = Once <=>
               decided'[q] = Once /\ q \notin late' /\ pc'[q] # "unsent")
    BY <1>1, <1>2 DEF Decisions, Returned
  <1> QED BY <1>4, <1>5, <1>6, <1>7, <1>8, <1>9 DEF Decisions

(* Clarifications that are withdrawn say nothing of the approvals. *)
LEMMA WithdrawnKeeps ==
    ASSUME NEW S \in SUBSET Clarifies, NEW value, NEW by, NEW what,
           Writes(S, value, by), Decide(S, what)
    PROVE  /\ \A q \in Approvals : decided'[q] = decided[q]
           /\ \A w \in writes' : w.to \in Approvals => w \in writes
  <1>1. \A q \in Approvals : decided'[q] = decided[q]
    BY RequestAssumption DEF Decide, Requests
  <1>2. \A w \in writes' : w \in writes \/ w.to \in S
    BY DEF Writes
  <1> QED BY <1>1, <1>2, RequestAssumption

(* What happens to approvals says nothing of the clarifications. *)
LEMMA AnswersKeep ==
    ASSUME TypeOK, Answers, inputs' = inputs + 1,
           \A w \in writes' : w.to \in Clarifies => w \in writes,
           \A q \in Clarifies : decided'[q] = decided[q],
           UNCHANGED <<index, pc, late, outcome, result, event, taken>>
    PROVE  Answers'
  <1>1. \A c \in Clarifies : \A v : Tells(c, v) => Tells(c, v)'
    BY DEF Tells
  <1>2. \A i \in Inputs : i > inputs' => taken'[i] = None
    BY DEF TypeOK, Answers, Inputs
  <1>3. \A w \in writes' : w.to \in Clarifies => Tells(w.to, w.value)'
    BY <1>1 DEF Answers
  <1>4. \A q \in Clarifies : q \in event' => Tells(q, result[q])'
    BY <1>1 DEF Answers
  <1> QED BY <1>2, <1>3, <1>4 DEF Answers

(* A question that is withdrawn while it waits is one of another run, or its*)
(* thread was abandoned.                                                    *)
LEMMA OtherRun ==
    ASSUME TypeOK, Places, Sessions, NEW r \in Runs, run[r] \in {"on", "ending"},
           NEW q \in queue \cup index,
           of[q] # r \/ run[r] # "on"
    PROVE  of[q] \in overlap \/ q \in abandoned
  <1>1. q \in Requests /\ Asking(q)
    BY DEF TypeOK, Places, Asking, Returned, Requests
  <1>2. q \in abandoned \/ (of[q] \in Present /\ r \in Present /\ of[q] # r)
    BY <1>1 DEF Sessions, Present
  <1> QED BY <1>2 DEF Sessions

-----------------------------------------------------------------------------
(* Steps *)

LEMMA StopStep ==
    ASSUME Inv, Stop
    PROVE  Inv'
  <1>1. TypeOK'
    BY InputType
       DEF Inv, TypeOK, Stop, Input, Present, asked, threads, entries, history
  <1>2. Places'
    BY DEF Inv, Places, Stop, threads
  <1>3. Awake'
    BY DEF Inv, Awake, Stop, threads, entries
  <1>4. Decisions'
    BY DEF Inv, Decisions, Stop, Returned, threads, entries, history
  <1>5. Answers'
    BY DEF Inv, TypeOK, Inputs, Answers, Tells, Stop, Input, Within, threads, entries,
           history
  <1>6. Sessions'
    BY DEF Inv, Sessions, OverlapOnly, Asking, Present, Stop, Returned,
           threads, history
  <1> QED BY <1>1, <1>2, <1>3, <1>4, <1>5, <1>6 DEF Inv

LEMMA BoundaryStep ==
    ASSUME Inv, Boundary
    PROVE  Inv'
  <1>1. TypeOK'
    BY RequestAssumption
       DEF Inv, TypeOK, Values, Requests, Boundary, Input, Within, Writes, Decide,
           runs, asked, threads
  <1>2. Places'
    BY DEF Inv, Places, Boundary, threads
  <1>3. Awake'
    BY DEF Inv, Awake, Boundary, threads
  <1>4. Decisions'
    <2>1. Mark(Deny) = Deny
      BY RequestAssumption DEF Mark
    <2> QED BY <2>1, DecidedKeeps DEF Inv, Boundary, threads
  <1>5. Answers'
    <2>1. \A w \in writes' : w.to \in Clarifies => w \in writes
      <3>1. \A w \in writes' : w \in writes \/ w.to \in queue
        BY DEF Boundary, Writes
      <3> QED BY <3>1, RequestAssumption DEF Inv, TypeOK
    <2>2. \A q \in Clarifies : decided'[q] = decided[q]
      BY RequestAssumption DEF Inv, TypeOK, Boundary, Decide, Requests
    <2>3. inputs' = inputs + 1
      BY InputType DEF Inv, Boundary, Input
    <2> QED BY <2>1, <2>2, <2>3, AnswersKeep DEF Inv, Boundary, threads
  <1>6. Sessions'
    BY RequestAssumption
       DEF Inv, Sessions, OverlapOnly, Asking, Present, Boundary, Decide,
           Returned, runs, threads
  <1> QED BY <1>1, <1>2, <1>3, <1>4, <1>5, <1>6 DEF Inv

LEMMA ResolveStep ==
    ASSUME Inv, Resolve
    PROVE  Inv'
  <1>1. TypeOK'
    <2>1. PICK choice \in {Once, Deny}, S \in SUBSET queue :
             /\ queue' = queue \ S
             /\ Writes(S, choice, None) /\ Decide(S, choice)
      BY DEF Resolve, First
    <2>2. S \in SUBSET Requests /\ choice \in Values
      BY DEF Inv, TypeOK, Requests, Values
    <2>3. writes' \subseteq [to : Requests, value : Values,
                             by : Runs \cup Requests \cup {None}]
      BY <2>1, <2>2, WritesType DEF Inv
    <2> QED BY <2>1, <2>3, DecideType, InputType
               DEF Inv, TypeOK, Resolve, Input, runs, asked, threads
  <1>2. Places'
    BY DEF Inv, Places, Resolve, threads
  <1>3. Awake'
    BY DEF Inv, Awake, Resolve, threads
  <1>4. Decisions'
    <2>1. PICK choice \in {Once, Deny}, S \in SUBSET queue :
             /\ queue' = queue \ S
             /\ Writes(S, choice, None) /\ Decide(S, choice)
      BY DEF Resolve, First
    <2>2. Mark(choice) = choice
      BY RequestAssumption DEF Mark
    <2> QED BY <2>1, <2>2, DecidedKeeps DEF Inv, Resolve, threads
  <1>5. Answers'
    <2>1. PICK choice \in {Once, Deny}, S \in SUBSET queue :
             Writes(S, choice, None) /\ Decide(S, choice)
      BY DEF Resolve, First
    <2>2. \A w \in writes' : w.to \in Clarifies => w \in writes
      <3>1. \A w \in writes' : w \in writes \/ w.to \in queue
        BY <2>1 DEF Writes
      <3> QED BY <3>1, RequestAssumption DEF Inv, TypeOK
    <2>3. \A q \in Clarifies : decided'[q] = decided[q]
      BY <2>1, RequestAssumption DEF Inv, TypeOK, Decide, Requests
    <2>4. inputs' = inputs + 1
      BY InputType DEF Inv, Resolve, Input
    <2> QED BY <2>2, <2>3, <2>4, AnswersKeep DEF Inv, Resolve, threads
  <1>6. Sessions'
    BY RequestAssumption
       DEF Inv, Sessions, OverlapOnly, Asking, Present, Resolve, Decide,
           Returned, runs, threads
  <1> QED BY <1>1, <1>2, <1>3, <1>4, <1>5, <1>6 DEF Inv

LEMMA StartRunStep ==
    ASSUME Inv, NEW r \in Runs, StartRun(r)
    PROVE  Inv'
  <1>1. TypeOK'
    BY DEF Inv, TypeOK, StartRun, Present, asked, threads, entries, history
  <1>2. Places'
    BY DEF Inv, Places, StartRun, threads
  <1>3. Awake'
    BY DEF Inv, Awake, StartRun, threads, entries
  <1>4. Decisions'
    BY DEF Inv, Decisions, StartRun, Returned, threads, entries, history
  <1>5. Answers'
    BY DEF Inv, Answers, Tells, StartRun, threads, entries, history
  <1>6. Sessions'
    BY DEF Inv, Sessions, OverlapOnly, Asking, Present, StartRun, Returned,
           threads, history
  <1> QED BY <1>1, <1>2, <1>3, <1>4, <1>5, <1>6 DEF Inv

LEMMA AbandonStep ==
    ASSUME Inv, NEW q \in Approvals, Abandon(q)
    PROVE  Inv'
  <1>1. TypeOK'
    BY InputType DEF Inv, TypeOK, Abandon, asked, threads, entries, history
  <1>2. Places'
    BY DEF Inv, Places, Abandon, threads
  <1>3. Awake'
    BY DEF Inv, Awake, Abandon, threads, entries
  <1>4. Decisions'
    BY DEF Inv, Decisions, Abandon, Returned, threads, entries, history
  <1>5. Answers'
    <2>1. \A i \in Inputs : i > inputs' => i > inputs
      BY InputType DEF Inv, TypeOK, Abandon, Inputs
    <2> QED BY <2>1 DEF Inv, Answers, Tells, Abandon, threads, entries, history
  <1>6. Sessions'
    BY DEF Inv, Sessions, OverlapOnly, Asking, Present, Abandon, Returned,
           threads, history
  <1> QED BY <1>1, <1>2, <1>3, <1>4, <1>5, <1>6 DEF Inv

LEMMA UnregisterStep ==
    ASSUME Inv, NEW r \in Runs, Unregister(r)
    PROVE  Inv'
  <1>1. TypeOK'
    BY DEF Inv, TypeOK, Values, Requests, Unregister, Writes, Decide, asked,
           threads
  <1>2. Places'
    BY DEF Inv, Places, Unregister, threads
  <1>3. Awake'
    BY DEF Inv, Awake, Unregister, threads
  <1>4. Decisions'
    <2>1. Mark("withdrawn") = None
      BY DEF Mark
    <2> QED BY <2>1, DecidedKeeps DEF Inv, Unregister, threads
  <1>5. Answers'
    BY RequestAssumption
       DEF Inv, TypeOK, Requests, Answers, Tells, Unregister, Writes, Decide,
           threads
  <1>6. Sessions'
    <2>1. \A q \in queue : of[q] \in overlap \/ q \in abandoned
      <3>1. \A q \in queue : of[q] # r \/ q \in abandoned
        BY DEF Inv, TypeOK, Places, Unregister, Requests, Returned
      <3> QED BY <3>1, OtherRun DEF Inv, Unregister
    <2>2. OverlapOnly'
      BY <2>1 DEF Inv, Sessions, OverlapOnly, Unregister, Decide, threads
    <2>3. \A s \in Runs : run'[s] = "on" => s # r /\ s \in overlap
      BY DEF Inv, TypeOK, Sessions, Unregister, Present
    <2>4. Present' = Present
      BY DEF Unregister, Present
    <2>5. \A q \in Requests : Asking(q) => of[q] # r \/ q \in abandoned
      BY DEF Unregister, Asking
    <2> QED BY <2>2, <2>3, <2>4, <2>5
               DEF Inv, Sessions, Unregister, Asking, Returned, threads
  <1> QED BY <1>1, <1>2, <1>3, <1>4, <1>5, <1>6 DEF Inv

LEMMA EndRunStep ==
    ASSUME Inv, NEW r \in Runs, EndRun(r)
    PROVE  Inv'
  <1>1. TypeOK'
    BY DEF Inv, TypeOK, Values, Requests, EndRun, Writes, Decide, asked, threads
  <1>2. Places'
    BY DEF Inv, Places, EndRun, threads
  <1>3. Awake'
    BY DEF Inv, Awake, EndRun, threads
  <1>4. Decisions'
    <2>1. /\ \A q \in Approvals : decided'[q] = decided[q]
          /\ \A w \in writes' : w.to \in Approvals => w \in writes
      BY WithdrawnKeeps DEF Inv, TypeOK, EndRun
    <2> QED BY <2>1 DEF Inv, TypeOK, Decisions, EndRun, Returned, threads
  <1>5. Answers'
    <2>1. \A w \in writes' : w \in writes \/ (w.to \in index /\ w.value = Blank)
      BY DEF EndRun, Writes
    <2>2. \A c \in Clarifies :
             decided'[c] = IF c \in index THEN "withdrawn" ELSE decided[c]
      BY DEF EndRun, Decide, Requests
    <2>3. \A c \in index : pc[c] # "new"
      BY DEF Inv, Places
    <2>4. UNCHANGED <<pc, late, outcome, result, event, inputs, taken>> /\ index' = {}
      BY DEF EndRun, threads
    <2>5. \A c \in Clarifies : \A v : Tells(c, v) => Tells(c, v)'
      BY <2>2, <2>4 DEF Tells
    <2>6. \A w \in writes' : w.to \in Clarifies => Tells(w.to, w.value)'
      BY <2>1, <2>2, <2>5 DEF Inv, Answers, Tells
    <2>7. \A c \in Clarifies : c \in event' => Tells(c, result[c])'
      BY <2>4, <2>5 DEF Inv, Answers
    <2> QED BY <2>2, <2>3, <2>4, <2>6, <2>7 DEF Inv, Answers
  <1>6. Sessions'
    <2>1. \A q \in index : of[q] \in overlap \/ q \in abandoned
      BY OtherRun DEF Inv, EndRun
    <2>2. OverlapOnly'
      BY <2>1 DEF Inv, Sessions, OverlapOnly, EndRun, Decide, threads
    <2>3. Present' \subseteq Present
      BY DEF EndRun, Present
    <2> QED BY <2>2, <2>3 DEF Inv, Sessions, EndRun, Asking, Returned, threads
  <1> QED BY <1>1, <1>2, <1>3, <1>4, <1>5, <1>6 DEF Inv

LEMMA WriteStep ==
    ASSUME Inv, NEW w, Write(w)
    PROVE  Inv'
  <1>1. TypeOK'
    <2>1. w.to \in Requests /\ w.value \in Values
      BY DEF Inv, TypeOK, Write
    <2>2. result' \in [Requests -> Values] /\ event' \subseteq Requests
      BY <2>1 DEF Inv, TypeOK, Write
    <2> QED BY <2>2 DEF Inv, TypeOK, Write, runs, asked, threads, history
  <1>2. Places'
    BY DEF Inv, Places, Write, threads
  <1>3. Awake'
    BY DEF Inv, Awake, Write, threads
  <1>4. Decisions'
    BY DEF Inv, TypeOK, Requests, Decisions, Write, Returned, threads, history
  <1>5. Answers'
    BY RequestAssumption
       DEF Inv, TypeOK, Inputs, Answers, Tells, Write, threads, history
  <1>6. Sessions'
    BY DEF Inv, Sessions, OverlapOnly, Asking, Present, Write, Returned, runs,
           threads, history
  <1> QED BY <1>1, <1>2, <1>3, <1>4, <1>5, <1>6 DEF Inv

LEMMA CallStep ==
    ASSUME Inv, NEW q \in Approvals, Call(q)
    PROVE  Inv'
  <1>0. PICK r \in Runs :
          /\ Ask(q, Approvals, r)
          /\ \/ run[r] = "on" /\ UNCHANGED <<abandoned, inputs>>
             \/ /\ run[r] \in {"ending", "over"} /\ Within
                /\ abandoned' = abandoned \cup {q}
    BY DEF Call
  <1>7. inputs' \in 0..MaxInputs /\ \A i \in Inputs : i > inputs' => i > inputs
    BY <1>0, InputType DEF Inv, TypeOK, Inputs
  <1>1. TypeOK'
    <2>1. q \in Requests /\ of' \in [Requests -> Runs \cup {None}]
      BY <1>0, AskType DEF Inv, Requests
    <2>2. CASE notify # None
      <3>1. pc' \in [Requests -> Stages]
        BY <2>1, <2>2, GotoType DEF Inv, Call, Stages
      <3> QED BY <1>0, <1>7, <2>1, <2>2, <3>1
                 DEF Inv, TypeOK, Stages, Call, asked, history
    <2>3. CASE notify = None
      <3>1. Return(q, "unasked", Deny)
        BY <2>3 DEF Call
      <3> QED BY <1>0, <1>7, <2>1, <3>1, ReturnType
                 DEF Inv, TypeOK, Stages, Call, history
    <2> QED BY <2>2, <2>3
  <1>2. Places'
    BY DEF Inv, TypeOK, Requests, Places, Call, Ask, Goto, Return
  <1>3. Awake'
    BY DEF Inv, TypeOK, Awake, Call, Goto, Return
  <1>4. Decisions'
    BY RequestAssumption
       DEF Inv, TypeOK, Requests, Decisions, Call, Ask, Goto, Return, Returned,
           history
  <1>5. Answers'
    BY <1>7, RequestAssumption
       DEF Inv, TypeOK, Requests, Answers, Tells, Call, Goto, Return, history
  <1>6. Sessions'
    <2>1. of' = [of EXCEPT ![q] = r] /\ abandoned \subseteq abandoned'
      BY <1>0 DEF Ask
    <2>2. q \in Requests /\ q \notin Clarifies /\ pc[q] = "new" /\ decided[q] = None
      BY <1>0, RequestAssumption DEF Inv, Decisions, Ask, Requests
    <2>3. \A p \in Requests \ {q} : pc'[p] = pc[p] /\ of'[p] = of[p]
      BY <2>1 DEF Inv, TypeOK, Call, Goto, Return
    <2>4. /\ of'[q] = r
          /\ pc'[q] = "unasked" => r \in overlap \/ q \in abandoned'
          /\ run[r] = "on" \/ q \in abandoned'
      BY <1>0, <2>1, <2>2, RequestAssumption DEF Inv, TypeOK, Sessions, Call, Goto
    <2>5. decided' = decided /\ overlap' = overlap /\ run' = run /\ notify' = notify
      BY DEF Call, history
    <2>6. OverlapOnly'
      <3>1. ASSUME NEW p \in Requests \ {q}, decided'[p] = "withdrawn" \/ pc'[p] = "unasked"
            PROVE  of'[p] \in overlap' \/ p \in abandoned'
        BY <2>1, <2>3, <2>5, <3>1 DEF Inv, Sessions, OverlapOnly
      <3>2. decided'[q] # "withdrawn"
        BY <2>2, <2>5, RequestAssumption
      <3> QED BY <2>4, <2>5, <3>1, <3>2 DEF OverlapOnly
    <2>7. \A p \in Requests : Asking(p)' =>
             of'[p] \in Runs /\ (run[of'[p]] = "on" \/ p \in abandoned')
      BY <2>1, <2>3, <2>4 DEF Inv, Sessions, Asking, Returned
    <2> QED BY <2>2, <2>3, <2>5, <2>6, <2>7
               DEF Inv, Sessions, Asking, Returned, Present, Requests
  <1> QED BY <1>1, <1>2, <1>3, <1>4, <1>5, <1>6 DEF Inv

LEMMA EnqueueStep ==
    ASSUME Inv, NEW q \in Approvals, Enqueue(q)
    PROVE  Inv'
  <1>1. TypeOK'
    BY DEF Inv, TypeOK, Requests, Enqueue, Goto, runs, entries, history
  <1>2. Places'
    BY DEF Inv, TypeOK, Requests, Places, Enqueue, Goto
  <1>3. Awake'
    BY DEF Inv, Awake, Enqueue, Goto, entries
  <1>4. Decisions'
    BY DEF Inv, Decisions, Enqueue, Goto, Returned, entries, history
  <1>5. Answers'
    BY DEF Inv, Answers, Tells, Enqueue, Goto, entries, history
  <1>6. Sessions'
    BY DEF Inv, TypeOK, Sessions, OverlapOnly, Asking, Present, Enqueue, Goto,
           Returned, runs, history
  <1> QED BY <1>1, <1>2, <1>3, <1>4, <1>5, <1>6 DEF Inv

LEMMA NotifyStep ==
    ASSUME Inv, NEW q \in Approvals, Notify(q)
    PROVE  Inv'
  <1>1. TypeOK'
    <2>1. pc' \in [Requests -> Stages]
      BY GotoType DEF Inv, Notify, Stages, Requests
    <2> QED BY <2>1
               DEF Inv, TypeOK, Stages, Notify, runs, asked, entries, history
  <1>2. Places'
    BY DEF Inv, TypeOK, Requests, Places, Notify, Goto
  <1>3. Awake'
    BY DEF Inv, TypeOK, Awake, Notify, Goto, entries
  <1>4. Decisions'
    BY DEF Inv, TypeOK, Requests, Decisions, Notify, Goto, Returned, entries,
           history
  <1>5. Answers'
    BY DEF Inv, TypeOK, Requests, Answers, Tells, Notify, Goto, entries, history
  <1>6. Sessions'
    BY DEF Inv, TypeOK, Requests, Sessions, OverlapOnly, Asking, Present,
           Notify, Goto, Returned, runs, history
  <1> QED BY <1>1, <1>2, <1>3, <1>4, <1>5, <1>6 DEF Inv

LEMMA NotifyFailedStep ==
    ASSUME Inv, NEW q \in Approvals, NotifyFailed(q)
    PROVE  Inv'
  <1>1. TypeOK'
    BY DEF Inv, TypeOK, Values, NotifyFailed, Goto, Return, runs, history
  <1>2. Places'
    BY DEF Inv, Places, NotifyFailed, Goto, Return
  <1>3. Awake'
    BY DEF Inv, Awake, NotifyFailed, Goto, Return
  <1>4. Decisions'
    BY RequestAssumption
       DEF Inv, TypeOK, Decisions, NotifyFailed, Goto, Return, Returned,
           history
  <1>5. Answers'
    BY DEF Inv, Answers, Tells, NotifyFailed, Goto, Return, history
  <1>6. Sessions'
    BY DEF Inv, TypeOK, Sessions, OverlapOnly, Asking, Present, NotifyFailed,
           Goto, Return, Returned, runs, history
  <1> QED BY <1>1, <1>2, <1>3, <1>4, <1>5, <1>6 DEF Inv

LEMMA RegisterStep ==
    ASSUME Inv, NEW q \in Clarifies, Register(q)
    PROVE  Inv'
  <1>0. PICK r \in Runs : run[r] = "on" /\ Ask(q, Clarifies, r)
    BY DEF Register
  <1>1. TypeOK'
    <2>1. q \in Requests /\ of' \in [Requests -> Runs \cup {None}]
      BY <1>0, AskType DEF Inv, Requests
    <2>2. pc' \in [Requests -> Stages]
      BY <2>1, GotoType DEF Inv, Register, Stages
    <2>3. /\ index' \subseteq Clarifies /\ text' \subseteq Clarifies
          /\ ahead' \in [Requests -> SUBSET Requests]
      BY <2>1 DEF Inv, TypeOK, Register, Requests
    <2> QED BY <2>1, <2>2, <2>3
               DEF Inv, TypeOK, Stages, Register, runs, entries, history
  <1>2. Places'
    BY DEF Inv, TypeOK, Places, Register, Ask, Goto, Returned
  <1>3. Awake'
    BY DEF Inv, Awake, Register, Goto, entries
  <1>4. Decisions'
    BY DEF Inv, Decisions, Register, Goto, Returned, entries, history
  <1>5. Answers'
    BY DEF Inv, Answers, Tells, Register, Goto, entries, history
  <1>6. Sessions'
    <2>1. run[r] = "on" /\ of' = [of EXCEPT ![q] = r]
      BY <1>0 DEF Ask
    <2>2. q \in Requests
      BY DEF Requests
    <2>3. \A p \in Requests \ {q} : pc'[p] = pc[p] /\ of'[p] = of[p]
      BY <2>1 DEF Register, Goto
    <2>4. of'[q] = r /\ pc'[q] = "registered" /\ pc[q] = "new"
      BY <1>0, <2>1, <2>2 DEF Inv, TypeOK, Register, Goto, Ask
    <2>5. decided' = decided /\ overlap' = overlap /\ run' = run /\ notify' = notify
          /\ abandoned' = abandoned
      BY DEF Register, runs, history
    <2>6. \A c \in Clarifies : c # q /\ Asking(c) => of[c] # r
      <3>1. \A c \in Clarifies : of[c] = r => Returned(c)
        BY <2>2, <2>4 DEF Register
      <3> QED BY <3>1 DEF Asking
    <2>7. OverlapOnly'
      <3>1. decided[q] # "withdrawn"
        BY <2>2, <2>4, RequestAssumption DEF Inv, Answers
      <3> QED BY <2>2, <2>3, <2>4, <2>5, <3>1 DEF Inv, Sessions, OverlapOnly
    <2>8. \A p \in Requests : Asking(p)' =>
             of'[p] \in Runs /\ (run[of'[p]] = "on" \/ p \in abandoned)
      BY <2>1, <2>3, <2>4 DEF Inv, Sessions, Asking, Returned
    <2>9. \A c, d \in Clarifies : Asking(c)' /\ Asking(d)' /\ c # d => of'[c] # of'[d]
      BY <2>3, <2>4, <2>6 DEF Inv, Sessions, Asking, Returned, Requests
    <2> QED BY <2>5, <2>7, <2>8, <2>9 DEF Inv, Sessions, Present
  <1> QED BY <1>1, <1>2, <1>3, <1>4, <1>5, <1>6 DEF Inv

LEMMA RenderStep ==
    ASSUME Inv, NEW q \in Clarifies, Render(q)
    PROVE  Inv'
  <1>1. TypeOK'
    BY DEF Inv, TypeOK, Render, Goto, runs, entries, history
  <1>2. Places'
    BY DEF Inv, Places, Render, Goto
  <1>3. Awake'
    BY DEF Inv, Awake, Render, Goto, entries
  <1>4. Decisions'
    BY DEF Inv, Decisions, Render, Goto, Returned, entries, history
  <1>5. Answers'
    BY DEF Inv, Answers, Tells, Render, Goto, entries, history
  <1>6. Sessions'
    BY DEF Inv, TypeOK, Sessions, OverlapOnly, Asking, Present, Render, Goto,
           Returned, runs, history
  <1> QED BY <1>1, <1>2, <1>3, <1>4, <1>5, <1>6 DEF Inv

LEMMA SendFailedStep ==
    ASSUME Inv, NEW q \in Clarifies, SendFailed(q)
    PROVE  Inv'
  <1>1. TypeOK'
    BY DEF Inv, TypeOK, Values, Requests, SendFailed, Writes, Decide, Goto,
           Return, runs
  <1>2. Places'
    BY DEF Inv, Places, SendFailed, Goto, Return
  <1>3. Awake'
    BY DEF Inv, Awake, SendFailed, Goto, Return
  <1>4. Decisions'
    <2>1. /\ \A p \in Approvals : decided'[p] = decided[p]
          /\ \A w \in writes' : w.to \in Approvals => w \in writes
      BY WithdrawnKeeps DEF Inv, TypeOK, SendFailed
    <2>2. \A p \in Approvals : /\ pc'[p] = pc[p] /\ outcome'[p] = outcome[p]
                               /\ result'[p] = result[p]
                               /\ p \in event' <=> p \in event
      BY RequestAssumption DEF SendFailed, Return, Goto
    <2> QED BY <2>1, <2>2 DEF Inv, TypeOK, Decisions, SendFailed, Returned
  <1>5. Answers'
    <2>1. \A w \in writes' : w \in writes \/ (w.to \in index /\ w.value = Blank /\ w.to # q)
      BY DEF SendFailed, Writes
    <2>2. \A c \in Clarifies : decided'[c] =
             IF c \in index \ {q} THEN "withdrawn" ELSE decided[c]
      BY DEF SendFailed, Decide, Requests
    <2>3. \A c \in Clarifies :
             /\ pc'[c] = IF c = q THEN "unsent" ELSE pc[c]
             /\ c # q => outcome'[c] = outcome[c] /\ result'[c] = result[c]
             /\ c \in event' <=> c \in event \ {q}
      BY DEF Inv, TypeOK, SendFailed, Return, Goto, Requests
    <2>4. \A c \in index : pc[c] # "new"
      BY DEF Inv, Places
    <2>5. UNCHANGED <<late, inputs, taken>> /\ index' = {}
      BY DEF SendFailed
    <2>6. \A c \in Clarifies : \A v : Tells(c, v) => Tells(c, v)'
      BY <2>2, <2>5 DEF Tells
    <2>7. \A w \in writes' : w.to \in Clarifies => Tells(w.to, w.value)'
      BY <2>1, <2>2, <2>6 DEF Inv, Answers, Tells
    <2>8. \A c \in Clarifies : c \in event' => Tells(c, result[c])'
      BY <2>3, <2>6 DEF Inv, Answers
    <2> QED BY <2>2, <2>3, <2>4, <2>5, <2>7, <2>8 DEF Inv, Answers
  <1>6. Sessions'
    <2>1. q \in Requests /\ Asking(q)
      BY DEF SendFailed, Asking, Returned, Requests
    <2>2. ASSUME NEW c \in index, c # q PROVE of[c] \in overlap
      <3>1. c \in Clarifies /\ Asking(c) /\ c \notin abandoned /\ q \notin abandoned
        BY RequestAssumption DEF Inv, TypeOK, Places, Asking, Returned
      <3>2. of[c] # of[q]
        BY <2>1, <2>2, <3>1 DEF Inv, Sessions
      <3>3. of[c] \in Present /\ of[q] \in Present
        BY <2>1, <3>1 DEF Inv, Sessions, Present, Requests
      <3> QED BY <3>2, <3>3 DEF Inv, Sessions
    <2>3. \A p \in Requests : pc'[p] = IF p = q THEN "unsent" ELSE pc[p]
      BY <2>1 DEF Inv, TypeOK, SendFailed, Return, Goto
    <2>4. OverlapOnly'
      BY <2>2, <2>3 DEF Inv, Sessions, OverlapOnly, SendFailed, Decide, runs
    <2> QED BY <2>1, <2>3, <2>4
               DEF Inv, Sessions, SendFailed, Asking, Returned, Present,
                   Requests, runs
  <1> QED BY <1>1, <1>2, <1>3, <1>4, <1>5, <1>6 DEF Inv

LEMMA BeginStep ==
    ASSUME Inv, NEW q \in Clarifies, Begin(q)
    PROVE  Inv'
  <1>1. TypeOK'
    <2>1. q \in Requests
      BY DEF Requests
    <2>2. CASE q \in index
      <3>1. pc' \in [Requests -> Stages]
        BY <2>1, <2>2, GotoType DEF Inv, Begin, Stages
      <3> QED BY <2>2, <3>1 DEF Inv, TypeOK, Stages, Begin, asked, runs, history
    <2>3. CASE q \notin index
      <3>1. Return(q, "done", None)
        BY <2>3 DEF Begin
      <3> QED BY <2>1, <3>1, ReturnType
                 DEF Inv, TypeOK, Stages, Begin, runs, history
    <2> QED BY <2>2, <2>3
  <1>2. Places'
    BY DEF Inv, TypeOK, Requests, Places, Begin, Goto, Return
  <1>3. Awake'
    BY DEF Inv, TypeOK, Awake, Begin, Goto, Return
  <1>4. Decisions'
    BY RequestAssumption
       DEF Inv, TypeOK, Requests, Decisions, Begin, Goto, Return, Returned,
           history
  <1>5. Answers'
    BY DEF Inv, TypeOK, Requests, Answers, Tells, Begin, Goto, Return, history
  <1>6. Sessions'
    BY DEF Inv, TypeOK, Requests, Sessions, OverlapOnly, Asking, Present,
           Begin, Goto, Return, Returned, runs, history
  <1> QED BY <1>1, <1>2, <1>3, <1>4, <1>5, <1>6 DEF Inv

LEMMA ButtonStep ==
    ASSUME Inv, NEW q \in Clarifies, Button(q)
    PROVE  Inv'
  <1>1. TypeOK'
    BY TakeType DEF Inv, TypeOK, Button, Take, runs, threads
  <1>2. Places'
    BY DEF Inv, Places, Button, Take, threads
  <1>3. Awake'
    BY DEF Inv, Awake, Button, Take, threads
  <1>4. Decisions'
    BY RequestAssumption
       DEF Inv, Decisions, Button, Take, Writes, Returned, threads
  <1>5. Answers'
    <2>1. inputs' = inputs + 1 /\ inputs' \in Inputs /\ taken[inputs'] = None
      <3>1. inputs' = inputs + 1 /\ inputs' \in Inputs /\ inputs \in Int
        BY InputType DEF Inv, TypeOK, Button, Take, Input
      <3> QED BY <3>1 DEF Inv, Answers
    <2>2. taken' = [taken EXCEPT ![inputs'] = q]
      BY DEF Button, Take
    <2>3. \A i \in Inputs : taken[i] # None => taken'[i] = taken[i]
      BY <2>1, <2>2
    <2>4. \A c \in Clarifies : \A v : Tells(c, v) => Tells(c, v)'
      BY <2>3, RequestAssumption DEF Tells, Button, Take
    <2>5. \A w \in writes' : w \in writes \/ (w.to = q /\ w.value = inputs')
      BY DEF Button, Take, Writes
    <2>6. Tells(q, inputs)'
      BY <2>1, <2>2 DEF Inv, TypeOK, Tells
    <2>7. \A i \in Inputs : i > inputs' => taken'[i] = None
      BY <2>1, <2>2 DEF Inv, TypeOK, Answers
    <2>8. \A w \in writes' : w.to \in Clarifies => Tells(w.to, w.value)'
      BY <2>4, <2>5, <2>6 DEF Inv, Answers
    <2>9. UNCHANGED <<pc, of, late, outcome, result, event, index, decided>>
      BY DEF Button, Take, threads
    <2>10. \A c \in Clarifies : c \in event' => Tells(c, result[c])'
      BY <2>4, <2>9 DEF Inv, Answers
    <2>11. \A c \in Clarifies : pc'[c] = "done" =>
              \/ c \in late' \/ decided'[c] = "withdrawn"
              \/ outcome'[c] \in Inputs' /\ taken'[outcome'[c]] = c
      BY <2>3, <2>9, RequestAssumption DEF Inv, Answers
    <2> QED BY <2>7, <2>8, <2>9, <2>10, <2>11 DEF Inv, Answers
  <1>6. Sessions'
    BY DEF Inv, Sessions, OverlapOnly, Asking, Present, Button, Take, Returned,
           runs, threads
  <1> QED BY <1>1, <1>2, <1>3, <1>4, <1>5, <1>6 DEF Inv

LEMMA OtherStep ==
    ASSUME Inv, NEW q \in Clarifies, Other(q)
    PROVE  Inv'
  <1>1. TypeOK'
    BY InputType DEF Inv, TypeOK, Other, Input, runs, threads, entries, history
  <1>2. Places'
    BY DEF Inv, Places, Other, threads
  <1>3. Awake'
    BY DEF Inv, Awake, Other, threads, entries
  <1>4. Decisions'
    BY DEF Inv, Decisions, Other, Returned, threads, entries, history
  <1>5. Answers'
    <2>1. \A i \in Inputs : i > inputs' => i > inputs
      BY InputType DEF Inv, TypeOK, Other, Input, Inputs
    <2> QED BY <2>1 DEF Inv, Answers, Tells, Other, threads, entries, history
  <1>6. Sessions'
    BY DEF Inv, Sessions, OverlapOnly, Asking, Present, Other, Returned, runs,
           threads, history
  <1> QED BY <1>1, <1>2, <1>3, <1>4, <1>5, <1>6 DEF Inv

LEMMA TextStep ==
    ASSUME Inv, NEW q \in Clarifies, Text(q)
    PROVE  Inv'
  <1>1. TypeOK'
    BY TakeType DEF Inv, TypeOK, Text, Take, runs, threads
  <1>2. Places'
    BY DEF Inv, Places, Text, Take, threads
  <1>3. Awake'
    BY DEF Inv, Awake, Text, Take, threads
  <1>4. Decisions'
    BY RequestAssumption
       DEF Inv, Decisions, Text, Take, Writes, Returned, threads
  <1>5. Answers'
    <2>1. inputs' = inputs + 1 /\ inputs' \in Inputs /\ taken[inputs'] = None
      <3>1. inputs' = inputs + 1 /\ inputs' \in Inputs /\ inputs \in Int
        BY InputType DEF Inv, TypeOK, Text, Take, Input
      <3> QED BY <3>1 DEF Inv, Answers
    <2>2. taken' = [taken EXCEPT ![inputs'] = q]
      BY DEF Text, Take
    <2>3. \A i \in Inputs : taken[i] # None => taken'[i] = taken[i]
      BY <2>1, <2>2
    <2>4. \A c \in Clarifies : \A v : Tells(c, v) => Tells(c, v)'
      BY <2>3, RequestAssumption DEF Tells, Text, Take
    <2>5. \A w \in writes' : w \in writes \/ (w.to = q /\ w.value = inputs')
      BY DEF Text, Take, Writes
    <2>6. Tells(q, inputs)'
      BY <2>1, <2>2 DEF Inv, TypeOK, Tells
    <2>7. \A i \in Inputs : i > inputs' => taken'[i] = None
      BY <2>1, <2>2 DEF Inv, TypeOK, Answers
    <2>8. \A w \in writes' : w.to \in Clarifies => Tells(w.to, w.value)'
      BY <2>4, <2>5, <2>6 DEF Inv, Answers
    <2>9. UNCHANGED <<pc, of, late, outcome, result, event, index, decided>>
      BY DEF Text, Take, threads
    <2>10. \A c \in Clarifies : c \in event' => Tells(c, result[c])'
      BY <2>4, <2>9 DEF Inv, Answers
    <2>11. \A c \in Clarifies : pc'[c] = "done" =>
              \/ c \in late' \/ decided'[c] = "withdrawn"
              \/ outcome'[c] \in Inputs' /\ taken'[outcome'[c]] = c
      BY <2>3, <2>9, RequestAssumption DEF Inv, Answers
    <2> QED BY <2>7, <2>8, <2>9, <2>10, <2>11 DEF Inv, Answers
  <1>6. Sessions'
    BY DEF Inv, Sessions, OverlapOnly, Asking, Present, Text, Take, Returned,
           runs, threads
  <1> QED BY <1>1, <1>2, <1>3, <1>4, <1>5, <1>6 DEF Inv

LEMMA WakeStep ==
    ASSUME Inv, NEW q \in Requests, Wake(q)
    PROVE  Inv'
  <1>1. TypeOK'
    BY DEF Inv, TypeOK, Wake, Goto, runs, asked, entries, history
  <1>2. Places'
    BY DEF Inv, Places, Wake, Goto
  <1>3. Awake'
    BY DEF Inv, Awake, Wake, Goto, entries
  <1>4. Decisions'
    BY DEF Inv, Requests, Decisions, Wake, Goto, Returned, entries, history
  <1>5. Answers'
    BY DEF Inv, Answers, Tells, Wake, Goto, entries, history
  <1>6. Sessions'
    BY DEF Inv, TypeOK, Sessions, OverlapOnly, Asking, Present, Wake, Goto,
           Returned, runs, history
  <1> QED BY <1>1, <1>2, <1>3, <1>4, <1>5, <1>6 DEF Inv

LEMMA ExpireStep ==
    ASSUME Inv, NEW q \in Requests, Expire(q)
    PROVE  Inv'
  <1>1. TypeOK'
    BY DEF Inv, TypeOK, Expire, Goto, runs, asked, entries, history
  <1>2. Places'
    BY DEF Inv, Places, Expire, Goto
  <1>3. Awake'
    BY DEF Inv, Awake, Expire, Goto, entries
  <1>4. Decisions'
    BY DEF Inv, Requests, Decisions, Expire, Goto, Returned, entries, history
  <1>5. Answers'
    BY DEF Inv, Answers, Tells, Expire, Goto, entries, history
  <1>6. Sessions'
    BY DEF Inv, TypeOK, Sessions, OverlapOnly, Asking, Present, Expire, Goto,
           Returned, runs, history
  <1> QED BY <1>1, <1>2, <1>3, <1>4, <1>5, <1>6 DEF Inv

LEMMA DropStep ==
    ASSUME Inv, NEW q \in Requests, Drop(q)
    PROVE  Inv'
  <1>1. TypeOK'
    BY DEF Inv, TypeOK, Drop, Goto, runs, asked, entries, history
  <1>2. Places'
    BY DEF Inv, Places, Drop, Goto
  <1>3. Awake'
    BY DEF Inv, Awake, Drop, Goto, entries
  <1>4. Decisions'
    BY DEF Inv, Requests, Decisions, Drop, Goto, Returned, entries, history
  <1>5. Answers'
    BY DEF Inv, Answers, Tells, Drop, Goto, entries, history
  <1>6. Sessions'
    BY DEF Inv, TypeOK, Sessions, OverlapOnly, Asking, Present, Drop, Goto,
           Returned, runs, history
  <1> QED BY <1>1, <1>2, <1>3, <1>4, <1>5, <1>6 DEF Inv

LEMMA ReadStep ==
    ASSUME Inv, NEW q \in Requests, Read(q)
    PROVE  Inv'
  <1>1. TypeOK'
    BY DEF Inv, TypeOK, Values, Read, Answer, Goto, Return, runs, history
  <1>2. Places'
    BY DEF Inv, Places, Read, Goto, Return
  <1>3. Awake'
    BY DEF Inv, TypeOK, Awake, Read, Goto, Return
  <1>4. Decisions'
    <2>1. q \notin late => q \in event
      BY DEF Inv, Awake, Read
    <2>2. /\ pc' = [pc EXCEPT ![q] = "done"] /\ outcome' = [outcome EXCEPT ![q] = Answer(q)]
          /\ result' = [result EXCEPT ![q] = None] /\ event' = event \ {q}
          /\ UNCHANGED <<queue, late, writes, decided>>
      BY DEF Read, Return, Goto, history
    <2>3. q \notin queue
      BY DEF Inv, Places, Read
    <2>4. q \in Approvals => (Answer(q) = Once <=> decided[q] = Once /\ q \notin late)
      <3>1. CASE q \in late
        BY <3>1, RequestAssumption DEF Answer
      <3>2. ASSUME q \notin late, q \in Approvals
            PROVE  Answer(q) = Once <=> decided[q] = Once
        <4>1. decided[q] # None /\ result[q] = Mark(decided[q])
          BY <2>1, <3>2 DEF Inv, Decisions
        <4> QED BY <3>2, <4>1, RequestAssumption DEF Answer, Mark
      <3> QED BY <3>1, <3>2
    <2>5. \A p \in Approvals : Returned(p)' =>
             (outcome'[p] = Once <=>
                 decided'[p] = Once /\ p \notin late' /\ pc'[p] # "unsent")
      BY <2>2, <2>4 DEF Inv, TypeOK, Decisions, Returned
    <2> QED BY <2>2, <2>5 DEF Inv, TypeOK, Decisions
  <1>5. Answers'
    <2>1. q \notin late => q \in event
      BY DEF Inv, Awake, Read
    <2>2. /\ pc' = [pc EXCEPT ![q] = "done"] /\ outcome' = [outcome EXCEPT ![q] = Answer(q)]
          /\ result' = [result EXCEPT ![q] = None] /\ event' = event \ {q}
          /\ UNCHANGED <<index, late, writes, decided, taken, inputs>>
      BY DEF Read, Return, Goto, history
    <2>3. q \in Clarifies =>
             \/ q \in late \/ decided[q] = "withdrawn"
             \/ Answer(q) \in Inputs /\ taken[Answer(q)] = q
      <3>1. ASSUME q \in Clarifies, q \notin late, decided[q] # "withdrawn"
            PROVE  result[q] \in Inputs /\ taken[result[q]] = q
        BY <2>1, <3>1 DEF Inv, Answers, Tells
      <3>2. ASSUME q \in Clarifies, result[q] \in Inputs PROVE Answer(q) = result[q]
        BY <3>2, RequestAssumption DEF Answer, Inputs
      <3> QED BY <3>1, <3>2
    <2>4. \A c \in Clarifies : pc'[c] = "done" =>
             \/ c \in late' \/ decided'[c] = "withdrawn"
             \/ outcome'[c] \in Inputs /\ taken'[outcome'[c]] = c
      BY <2>2, <2>3 DEF Inv, TypeOK, Answers
    <2> QED BY <2>2, <2>4 DEF Inv, Answers, Tells
  <1>6. Sessions'
    BY DEF Inv, Sessions, OverlapOnly, Asking, Present, Read, Goto, Return,
           Returned, runs, history
  <1> QED BY <1>1, <1>2, <1>3, <1>4, <1>5, <1>6 DEF Inv

-----------------------------------------------------------------------------
(* Theorems *)

LEMMA InitInv == Init => Inv
  <1> SUFFICES ASSUME Init PROVE Inv
    OBVIOUS
  <1>1. TypeOK
    BY RequestAssumption DEF Init, TypeOK, Values
  <1>2. Places /\ Awake
    BY DEF Init, Places, Awake
  <1>3. Decisions
    BY DEF Init, Decisions, Requests
  <1>4. Answers
    BY DEF Init, Answers, Requests
  <1>5. Sessions
    <2>1. /\ \A q \in Requests : pc[q] = "new" /\ decided[q] = None
          /\ \A r \in Runs : run[r] = "new"
      BY DEF Init
    <2> QED BY <2>1, RequestAssumption
               DEF Sessions, OverlapOnly, Asking, Present, Requests
  <1> QED BY <1>1, <1>2, <1>3, <1>4, <1>5 DEF Inv

LEMMA NextInv == Inv /\ [Next]_vars => Inv'
  <1> SUFFICES ASSUME Inv, [Next]_vars PROVE Inv'
    OBVIOUS
  <1>1. CASE Stop
    BY <1>1, StopStep
  <1>2. CASE Boundary
    BY <1>2, BoundaryStep
  <1>3. CASE Resolve
    BY <1>3, ResolveStep
  <1>4. CASE \E r \in Runs : StartRun(r)
    BY <1>4, StartRunStep
  <1>5. CASE \E r \in Runs : Unregister(r)
    BY <1>5, UnregisterStep
  <1>6. CASE \E r \in Runs : EndRun(r)
    BY <1>6, EndRunStep
  <1>7. CASE \E w \in writes : Write(w)
    BY <1>7, WriteStep
  <1>24. CASE \E q \in Approvals : Abandon(q)
    BY <1>24, AbandonStep
  <1>8. CASE \E q \in Approvals : Call(q)
    BY <1>8, CallStep
  <1>9. CASE \E q \in Approvals : Enqueue(q)
    BY <1>9, EnqueueStep
  <1>10. CASE \E q \in Approvals : Notify(q)
    BY <1>10, NotifyStep
  <1>11. CASE \E q \in Approvals : NotifyFailed(q)
    BY <1>11, NotifyFailedStep
  <1>12. CASE \E q \in Clarifies : Register(q)
    BY <1>12, RegisterStep
  <1>13. CASE \E q \in Clarifies : Render(q)
    BY <1>13, RenderStep
  <1>14. CASE \E q \in Clarifies : SendFailed(q)
    BY <1>14, SendFailedStep
  <1>15. CASE \E q \in Clarifies : Begin(q)
    BY <1>15, BeginStep
  <1>16. CASE \E q \in Clarifies : Button(q)
    BY <1>16, ButtonStep
  <1>17. CASE \E q \in Clarifies : Other(q)
    BY <1>17, OtherStep
  <1>18. CASE \E q \in Clarifies : Text(q)
    BY <1>18, TextStep
  <1>19. CASE \E q \in Requests : Wake(q)
    BY <1>19, WakeStep
  <1>20. CASE \E q \in Requests : Expire(q)
    BY <1>20, ExpireStep
  <1>21. CASE \E q \in Requests : Drop(q)
    BY <1>21, DropStep
  <1>22. CASE \E q \in Requests : Read(q)
    BY <1>22, ReadStep
  <1>23. CASE UNCHANGED vars
    BY <1>23
       DEF Inv, TypeOK, Places, Awake, Decisions, Returned, Answers, Tells,
           Sessions, Present, Asking, OverlapOnly, vars, runs, asked, threads,
           entries, history
  <1> QED
    BY <1>1, <1>2, <1>3, <1>4, <1>5, <1>6, <1>7, <1>8, <1>9, <1>10, <1>11,
       <1>12, <1>13, <1>14, <1>15, <1>16, <1>17, <1>18, <1>19, <1>20, <1>21,
       <1>22, <1>23, <1>24
       DEF Next, ApprovalStep, ClarifyStep, WaitStep

LEMMA InvHolds == Spec => []Inv
  BY InitInv, NextInv, PTL DEF Spec

(* The types hold, for all values of the constants. *)
THEOREM Typing == Spec => []TypeOK
  BY InvHolds, PTL DEF Inv

(* A command runs exactly if its own approval was approved in time, however *)
(* threads, answers, boundaries and the ends of runs interleave.            *)
THEOREM Decision == Spec => []DecisionHonoured
  <1>1. Inv => DecisionHonoured
    BY DEF Inv, Decisions, DecisionHonoured
  <1> QED BY <1>1, InvHolds, PTL

(* The answer that was taken for a question is what its thread returns. *)
THEOREM Reply == Spec => []AnswerReturned
  <1>1. ASSUME Inv PROVE AnswerReturned
    <2> SUFFICES ASSUME NEW i \in Inputs, taken[i] # None, pc[taken[i]] = "done",
                        outcome[taken[i]] # i, taken[i] \notin late,
                        decided[taken[i]] # "withdrawn"
                 PROVE  \E j \in Inputs \ {i} : taken[j] = taken[i]
      <3>1. ASSUME NEW i \in Inputs, taken[i] # None PROVE taken[i] \in Clarifies
        BY <1>1, <3>1 DEF Inv, TypeOK
      <3>2. \A i \in Inputs : taken[i] # None => pc[taken[i]] # "unasked"
        BY <1>1, <3>1 DEF Inv, Answers
      <3> QED BY <3>2 DEF AnswerReturned, Returned
    <2>1. taken[i] \in Clarifies
      BY <1>1 DEF Inv, TypeOK
    <2> QED BY <1>1, <2>1 DEF Inv, Answers
  <1> QED BY <1>1, InvHolds, PTL

(* A run's end withdraws the questions of runs that share the session with  *)
(* it and of threads that were abandoned, and no other: whatever waits when *)
(* a run ends alone is left behind by a thread of its own, or of an earlier *)
(* run.                                                                     *)
THEOREM Overlap == Spec => []OverlapOnly
  <1>1. Inv => OverlapOnly
    BY DEF Inv, Sessions
  <1> QED BY <1>1, InvHolds, PTL

-----------------------------------------------------------------------------
(* No lost wakeup *)

(* A thread whose question is settled is awake, or somebody is about to    *)
(* wake it.                                                                *)
NoneAsleep ==
    \A q \in Requests :
        Settled(q) /\ ~Returned(q) => q \in event \/ \E w \in writes : w.to = q

(* What a step may do: settle what it writes for, and take back an event or *)
(* a write only of a thread that is woken or has returned.                  *)
LEMMA Wakes ==
    ASSUME NoneAsleep,
           \A q \in Requests : /\ Settled(q)' => Settled(q) \/ \E w \in writes' : w.to = q
                               /\ q \in event => q \in event' \/ Returned(q)'
                               /\ Returned(q) => Returned(q)',
           \A w \in writes : w \in writes' \/ w.to \in event' \/ Returned(w.to)'
    PROVE  NoneAsleep'
  BY DEF NoneAsleep

(* Entries that are decided under the lock are written for. *)
LEMMA DecidesWakes ==
    ASSUME TypeOK, NoneAsleep, NEW S \in SUBSET Requests, NEW value, NEW by, NEW what,
           Writes(S, value, by), Decide(S, what), taken' = taken,
           \A q \in Requests : /\ q \in event => q \in event' \/ Returned(q)'
                               /\ Returned(q) => Returned(q)'
    PROVE  NoneAsleep'
  <1>1. \A q \in S : \E w \in writes' : w.to = q
    <2> SUFFICES ASSUME NEW q \in S PROVE \E w \in writes' : w.to = q
      OBVIOUS
    <2> DEFINE w == [to |-> q, value |-> value, by |-> by]
    <2>1. w \in writes' /\ w.to = q
      BY DEF Writes
    <2> QED BY <2>1
  <1>2. \A q \in Requests : Settled(q)' => Settled(q) \/ \E w \in writes' : w.to = q
    BY <1>1 DEF Settled, Decide
  <1>3. \A w \in writes : w \in writes'
    BY DEF Writes
  <1> QED BY <1>2, <1>3, Wakes

LEMMA TakeWakes ==
    ASSUME TypeOK, NoneAsleep, NEW q \in Clarifies, Take(q), UNCHANGED <<pc, event>>
    PROVE  NoneAsleep'
  <1> DEFINE w == [to |-> q, value |-> inputs', by |-> None]
  <1>1. w \in writes' /\ w.to = q /\ \A v \in writes : v \in writes'
    BY DEF Take, Writes
  <1>2. \A i \in Inputs : \A p : taken'[i] = p => taken[i] = p \/ p = q
    BY DEF TypeOK, Take
  <1>3. \A p \in Requests : Settled(p)' => Settled(p) \/ \E v \in writes' : v.to = p
    BY <1>1, <1>2 DEF Settled, Take
  <1> QED BY <1>1, <1>3, Wakes DEF Returned

LEMMA QuietWakes ==
    ASSUME NoneAsleep, UNCHANGED <<decided, taken, writes>>,
           \A q \in Requests : /\ q \in event => q \in event' \/ Returned(q)'
                               /\ Returned(q) => Returned(q)'
    PROVE  NoneAsleep'
  BY Wakes DEF Settled

LEMMA NextWakes == Inv /\ NoneAsleep /\ [Next]_vars => NoneAsleep'
  <1> SUFFICES ASSUME Inv, NoneAsleep, [Next]_vars PROVE NoneAsleep'
    OBVIOUS
  <1>0. TypeOK /\ queue \subseteq Requests /\ index \subseteq Requests
    BY DEF Inv, TypeOK, Requests
  <1>1. ASSUME \/ Stop \/ UNCHANGED vars
               \/ \E r \in Runs : StartRun(r)
               \/ \E q \in Clarifies : Other(q)
               \/ \E q \in Approvals : Abandon(q)
        PROVE  NoneAsleep'
    <2>1. UNCHANGED <<decided, taken, writes, pc, event>>
      BY <1>1 DEF Stop, StartRun, Other, Abandon, vars, history, entries, threads
    <2> QED BY <2>1, QuietWakes DEF Returned
  <1>2. ASSUME NEW q \in Requests,
               \/ Call(q) \/ Enqueue(q) \/ Notify(q) \/ NotifyFailed(q)
               \/ Register(q) \/ Render(q) \/ Begin(q)
               \/ Wake(q) \/ Expire(q) \/ Drop(q) \/ Read(q)
        PROVE  NoneAsleep'
    <2>1. ~Returned(q) /\ UNCHANGED <<decided, taken, writes>>
      BY <1>2 DEF Call, Enqueue, Notify, NotifyFailed, Register, Render, Begin, Wake,
                  Expire, Drop, Read, Ask, Returned, history, entries
    <2>2. \/ event' = event
          \/ event' = event \ {q} /\ pc'[q] \in {"done", "unasked", "unsent"}
      BY <1>0, <1>2
        DEF Call, Enqueue, Notify, NotifyFailed, Register, Render, Begin, Wake,
            Expire, Drop, Read, Return, Goto, entries, TypeOK
    <2>3. \A p \in Requests \ {q} : pc'[p] = pc[p]
      BY <1>0, <1>2
        DEF Call, Enqueue, Notify, NotifyFailed, Register, Render, Begin, Wake,
            Expire, Drop, Read, Return, Goto, TypeOK
    <2> QED BY <2>1, <2>2, <2>3, QuietWakes DEF Returned
  <1>3. ASSUME \/ Boundary \/ Resolve
               \/ \E r \in Runs : Unregister(r) \/ EndRun(r)
        PROVE  NoneAsleep'
    <2>1. UNCHANGED <<taken, pc, event>>
      BY <1>3 DEF Boundary, Resolve, Unregister, EndRun, threads
    <2>2. \E S \in SUBSET Requests : \E value, by, what :
             Writes(S, value, by) /\ Decide(S, what)
      <3>1. First(queue) \subseteq queue
        BY DEF First
      <3>2. CASE Resolve
        BY <1>0, <3>1, <3>2 DEF Resolve
      <3> QED BY <1>0, <1>3, <3>2 DEF Boundary, Unregister, EndRun
    <2> QED BY <1>0, <2>1, <2>2, DecidesWakes DEF Returned
  <1>4. ASSUME NEW q \in Clarifies, SendFailed(q) PROVE NoneAsleep'
    <2>1. q \in Requests /\ ~Returned(q) /\ pc'[q] = "unsent"
          /\ \A p \in Requests \ {q} : pc'[p] = pc[p]
      BY <1>0, <1>4 DEF SendFailed, Return, Goto, Returned, TypeOK, Requests
    <2>2. event' = event \ {q} /\ taken' = taken
          /\ Writes(index \ {q}, Blank, q) /\ Decide(index \ {q}, "withdrawn")
      BY <1>4 DEF SendFailed, Return
    <2> QED BY <1>0, <2>1, <2>2, DecidesWakes DEF Returned
  <1>5. ASSUME NEW q \in Clarifies, Button(q) \/ Text(q) PROVE NoneAsleep'
    <2>1. Take(q) /\ UNCHANGED <<pc, event>>
      BY <1>5 DEF Button, Text, Take, threads
    <2> QED BY <1>0, <2>1, TakeWakes
  <1>6. ASSUME NEW w \in writes, Write(w) PROVE NoneAsleep'
    <2>1. /\ UNCHANGED <<pc, decided, taken>> /\ writes' = writes \ {w}
          /\ event \subseteq event' /\ (Returned(w.to) \/ w.to \in event')
      BY <1>6 DEF Write, threads, history
    <2> QED BY <2>1, Wakes DEF Settled, Returned
  <1> QED BY <1>1, <1>2, <1>3, <1>4, <1>5, <1>6
            DEF Next, ApprovalStep, ClarifyStep, WaitStep, Requests

(* A thread whose question was decided, answered or withdrawn does not need *)
(* its deadline: until it returns, its event is set or the step that sets   *)
(* it is under way, whatever else is decided meanwhile.                     *)
THEOREM NoLostWakeup == Spec => []NoneAsleep
  <1>1. Init => NoneAsleep
    BY RequestAssumption DEF Init, NoneAsleep, Settled, Requests
  <1> QED BY <1>1, NextWakes, InvHolds, PTL DEF Spec
=============================================================================
