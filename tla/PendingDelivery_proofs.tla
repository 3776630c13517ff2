----------------------- MODULE PendingDelivery_proofs -----------------------
(***************************************************************************)
(* Proofs about PendingDelivery, for any number of requests, runs,         *)
(* sessions and users.                                                     *)
(*                                                                         *)
(* The promise of DeliveryGrant and the safety invariants follow from      *)
(* Inv, which says where the thread of a request can be while its entry is *)
(* in _entries, taken out by the end of a run, or cancelled by the user.   *)
(***************************************************************************)
EXTENDS PendingDelivery, TLAPS

Sending == {"sending", "sent", "failed"}

(* A request has an owner once its call began, and the run of a call that is
   under way waits for it. *)
CallInv ==
    \A q \in Requests :
        /\ owner[q] = None <=> pc[q] = "none"
        /\ pc[q] \notin {"none", "done"} =>
              call[owner[q]] = q /\ run[owner[q]] = "active"
        /\ told[q] = None <=> pc[q] # "done"

(* An entry is registered, and says so while it is being sent. *)
EntryInv ==
    \A q \in entries :
        /\ pc[q] \notin {"none", "copying", "staged"}
        /\ pc[q] \in Sending => state[q] = "sending"

(* What the end of a run took out of _entries does not come back. *)
DoomedInv ==
    \A r \in Runs : \A q \in doomed[r] :
        q \notin entries /\ pc[q] \notin {"none", "copying", "staged"}

(* The history of sends is what the threads did. *)
SendsInv ==
    \A q \in Requests :
        /\ pc[q] \in {"sent", "failed"} => sends[q] = 1
        /\ pc[q] \notin {"sent", "failed", "done"} => sends[q] = 0
        /\ pc[q] = "done" => sends[q] =
              IF told[q] \in {"sent", "failed"} THEN 1 ELSE 0
        /\ told[q] \in {"sent", "failed"} => q \notin entries

(* Only the thread that sent reports so. *)
ResultInv ==
    \A q \in Requests : result[q] \in {"sent", "failed"} => pc[q] = "done"

(* A cancelled entry is gone, and its thread is not past the claim. *)
RefusedInv ==
    \A q \in refused :
        /\ q \notin entries /\ sends[q] = 0
        /\ pc[q] \notin Sending \cup {"none", "copying", "staged"}

Inv == /\ TypeOK /\ CallInv /\ EntryInv /\ DoomedInv /\ SendsInv
       /\ ResultInv /\ RefusedInv /\ NoOrphan
-----------------------------------------------------------------------------
(* Every action of Next keeps the invariant: one lemma per action, one step
   per conjunct. *)

LEMMA StageKeeps ==
    ASSUME NEW r \in Runs, NEW q \in Requests, Inv, Stage(r, q)
    PROVE  Inv'
<1>1. TypeOK'
    BY DEF Inv, TypeOK, Places, Stage, Set, entry, hist
<1>2. CallInv'
    BY RunAssumption DEF Inv, TypeOK, CallInv, Stage, Set, entry, hist
<1>3. EntryInv'
    BY RunAssumption DEF Inv, TypeOK, EntryInv, CallInv, Stage, Set, entry
<1>4. DoomedInv'
    BY DEF Inv, TypeOK, DoomedInv, CallInv, Stage, Set, entry
<1>5. SendsInv'
    BY DEF Inv, TypeOK, SendsInv, CallInv, Stage, Set, entry, hist
<1>6. ResultInv'
    BY DEF Inv, TypeOK, ResultInv, CallInv, Stage, Set, entry, hist
<1>7. RefusedInv'
    BY DEF Inv, TypeOK, RefusedInv, CallInv, Stage, Set, entry, hist
<1>8. NoOrphan'
    BY DEF Inv, TypeOK, NoOrphan, CallInv, Stage, Set, entry, hist
<1> QED BY <1>1, <1>2, <1>3, <1>4, <1>5, <1>6, <1>7, <1>8 DEF Inv

LEMMA StagedKeeps ==
    ASSUME NEW q \in Requests, Inv, Staged(q)
    PROVE  Inv'
<1>1. TypeOK'
    BY DEF Inv, TypeOK, Places, Staged, Set, Return, entry, hist
<1>2. CallInv'
    BY RunAssumption DEF Inv, TypeOK, CallInv, Staged, Set, Return, hist
<1>3. EntryInv'
    BY DEF Inv, TypeOK, EntryInv, Sending, Staged, Set, Return, entry
<1>4. DoomedInv'
    BY DEF Inv, TypeOK, DoomedInv, Staged, Set, Return, entry
<1>5. SendsInv'
    BY RunAssumption
    DEF Inv, TypeOK, SendsInv, CallInv, Staged, Set, Return, entry, hist
<1>6. ResultInv'
    BY DEF Inv, TypeOK, ResultInv, Staged, Set, Return, entry, hist
<1>7. RefusedInv'
    BY DEF Inv, TypeOK, RefusedInv, Sending, Staged, Set, Return, entry, hist
<1>8. NoOrphan'
    BY DEF Inv, TypeOK, NoOrphan, Staged, Set, Return, entry, hist
<1> QED BY <1>1, <1>2, <1>3, <1>4, <1>5, <1>6, <1>7, <1>8 DEF Inv

LEMMA RegisterKeeps ==
    ASSUME NEW q \in Requests, Inv, Register(q)
    PROVE  Inv'
<1>1. TypeOK'
    BY DEF Inv, TypeOK, States, Places, Register, Set, runs, hist
<1>2. CallInv'
    BY DEF Inv, CallInv, Register, Set, runs, hist
<1>3. EntryInv'
    BY DEF Inv, TypeOK, EntryInv, Sending, Register, Set, runs
<1>4. DoomedInv'
    BY DEF Inv, TypeOK, DoomedInv, Register, Set, runs
<1>5. SendsInv'
    BY RunAssumption DEF Inv, SendsInv, CallInv, Register, Set, runs, hist
<1>6. ResultInv'
    BY RunAssumption DEF Inv, ResultInv, CallInv, Register, Set, hist
<1>7. RefusedInv'
    BY DEF Inv, RefusedInv, Register, Set, hist
<1>8. NoOrphan'
    BY DEF Inv, NoOrphan, CallInv, Register, Set, runs, hist
<1> QED BY <1>1, <1>2, <1>3, <1>4, <1>5, <1>6, <1>7, <1>8 DEF Inv

LEMMA PromptKeeps ==
    ASSUME NEW q \in Requests, Inv, Prompt(q)
    PROVE  Inv'
<1>1. TypeOK'
    BY DEF Inv, TypeOK, States, Places, Results, Prompt, Set, Return, hist
<1>2. CallInv'
    BY RunAssumption DEF Inv, TypeOK, CallInv, Prompt, Set, Return, hist
<1>3. EntryInv'
    BY RunAssumption DEF Inv, TypeOK, EntryInv, Sending, Prompt, Set, Return
<1>4. DoomedInv'
    BY DEF Inv, TypeOK, DoomedInv, Prompt, Set, Return
<1>5. SendsInv'
    BY DEF Inv, TypeOK, SendsInv, Prompt, Set, Return, hist
<1>6. ResultInv'
    BY DEF Inv, TypeOK, ResultInv, Prompt, Set, Return, hist
<1>7. RefusedInv'
    BY DEF Inv, TypeOK, RefusedInv, Sending, Prompt, Set, Return, hist
<1>8. NoOrphan'
    BY DEF Inv, TypeOK, NoOrphan, Prompt, Set, Return, hist
<1> QED BY <1>1, <1>2, <1>3, <1>4, <1>5, <1>6, <1>7, <1>8 DEF Inv

LEMMA PromptedKeeps ==
    ASSUME NEW q \in Requests, Inv, Prompted(q)
    PROVE  Inv'
<1>1. TypeOK'
    BY DEF Inv, TypeOK, Places, Prompted, Set, Return, hist
<1>2. CallInv'
    BY DEF Inv, TypeOK, CallInv, Prompted, Set, Return, hist
<1>3. EntryInv'
    BY DEF Inv, TypeOK, EntryInv, Sending, Prompted, Set, Return
<1>4. DoomedInv'
    BY DEF Inv, TypeOK, DoomedInv, Prompted, Set, Return
<1>5. SendsInv'
    BY DEF Inv, TypeOK, SendsInv, ResultInv, Prompted, Set, Return, hist
<1>6. ResultInv'
    BY DEF Inv, TypeOK, ResultInv, Prompted, Set, Return, hist
<1>7. RefusedInv'
    BY DEF Inv, TypeOK, RefusedInv, Sending, Prompted, Set, Return, hist
<1>8. NoOrphan'
    BY DEF Inv, TypeOK, NoOrphan, Prompted, Set, Return, hist
<1> QED BY <1>1, <1>2, <1>3, <1>4, <1>5, <1>6, <1>7, <1>8 DEF Inv

LEMMA EnterKeeps ==
    ASSUME NEW q \in Requests, Inv, Enter(q)
    PROVE  Inv'
<1>1. TypeOK'
    BY DEF Inv, TypeOK, Places, Enter, Set, Return, entry, hist
<1>2. CallInv'
    BY RunAssumption DEF Inv, TypeOK, CallInv, Enter, Set, Return, entry, hist
<1>3. EntryInv'
    BY RunAssumption DEF Inv, TypeOK, EntryInv, Sending, Enter, Set, Return,
       entry
<1>4. DoomedInv'
    BY DEF Inv, TypeOK, DoomedInv, Enter, Set, Return, entry
<1>5. SendsInv'
    BY DEF Inv, TypeOK, SendsInv, Enter, Set, Return, entry, hist
<1>6. ResultInv'
    BY DEF Inv, TypeOK, ResultInv, Enter, Set, Return, entry, hist
<1>7. RefusedInv'
    BY DEF Inv, TypeOK, RefusedInv, Sending, Enter, Set, Return, entry, hist
<1>8. NoOrphan'
    BY DEF Inv, TypeOK, NoOrphan, Enter, Set, Return, entry, hist
<1> QED BY <1>1, <1>2, <1>3, <1>4, <1>5, <1>6, <1>7, <1>8 DEF Inv

LEMMA WaitTimeoutKeeps ==
    ASSUME NEW q \in Requests, Inv, WaitTimeout(q)
    PROVE  Inv'
<1>1. TypeOK'
  <2>1. /\ state' \in [Requests -> States]
        /\ result' \in [Requests -> Results \cup {None}]
        /\ event' \subseteq Requests /\ files' \subseteq Requests
        /\ entries' \subseteq Requests
    <3>1. CASE q \in entries /\ state[q] \in Revocable
        BY <3>1 DEF Inv, TypeOK, States, Results, WaitTimeout, Set, Expire
    <3>2. CASE ~(q \in entries /\ state[q] \in Revocable)
        BY <3>2 DEF Inv, TypeOK, WaitTimeout, entry, Expire
    <3> QED BY <3>1, <3>2
  <2>2. /\ call' \in [Runs -> Requests \cup {None}]
        /\ pc' \in [Requests -> Places]
        /\ told' \in [Requests -> Results \cup {None, "denied", "error"}]
      BY DEF Inv, TypeOK, Places, Results, WaitTimeout, Set, Return
  <2> QED
      BY <2>1, <2>2 DEF Inv, TypeOK, WaitTimeout, hist
<1>2. CallInv'
    BY RunAssumption DEF Inv, TypeOK, CallInv, WaitTimeout, Set, Return, hist
<1>3. EntryInv'
    BY RunAssumption DEF Inv, TypeOK, EntryInv, Sending, WaitTimeout, Set,
       Expire, Return, entry
<1>4. DoomedInv'
    BY DEF Inv, TypeOK, DoomedInv, WaitTimeout, Set, Expire, Return, entry
<1>5. SendsInv'
    BY DEF Inv, TypeOK, SendsInv, WaitTimeout, Set, Expire, Return, entry,
       hist
<1>6. ResultInv'
    BY DEF Inv, TypeOK, ResultInv, WaitTimeout, Set, Expire, Return, entry,
       hist
<1>7. RefusedInv'
    BY DEF Inv, TypeOK, RefusedInv, Sending, WaitTimeout, Set, Expire, Return,
       entry, hist
<1>8. NoOrphan'
    BY DEF Inv, NoOrphan, WaitTimeout, Set, Expire, Return, entry, hist
<1> QED BY <1>1, <1>2, <1>3, <1>4, <1>5, <1>6, <1>7, <1>8 DEF Inv

LEMMA WaitWakeKeeps ==
    ASSUME NEW q \in Requests, Inv, WaitWake(q)
    PROVE  Inv'
<1>1. TypeOK'
    BY DEF Inv, TypeOK, Places, Results, WaitWake, Set, Return, entry, hist
<1>2. CallInv'
    BY RunAssumption DEF Inv, TypeOK, CallInv, WaitWake, Set, Return, entry,
       hist
<1>3. EntryInv'
    BY RunAssumption DEF Inv, TypeOK, EntryInv, Sending, WaitWake, Set,
       Return, entry
<1>4. DoomedInv'
    BY DEF Inv, TypeOK, DoomedInv, WaitWake, Set, Return, entry
<1>5. SendsInv'
    BY DEF Inv, TypeOK, SendsInv, ResultInv, WaitWake, Set, Return, entry,
       hist
<1>6. ResultInv'
    BY DEF Inv, TypeOK, ResultInv, WaitWake, Set, Return, entry, hist
<1>7. RefusedInv'
    BY DEF Inv, TypeOK, RefusedInv, Sending, WaitWake, Set, Return, entry,
       hist
<1>8. NoOrphan'
    BY DEF Inv, TypeOK, NoOrphan, WaitWake, Set, Return, entry, hist
<1> QED BY <1>1, <1>2, <1>3, <1>4, <1>5, <1>6, <1>7, <1>8 DEF Inv

LEMMA ClaimKeeps ==
    ASSUME NEW q \in Requests, Inv, Claim(q)
    PROVE  Inv'
<1>1. TypeOK'
    BY DEF Inv, TypeOK, States, Places, Claim, Set, Return, hist
<1>2. CallInv'
    BY RunAssumption DEF Inv, TypeOK, CallInv, Claim, Set, Return, hist
<1>3. EntryInv'
    BY RunAssumption DEF Inv, TypeOK, EntryInv, Sending, Claim, Set, Return
<1>4. DoomedInv'
    BY DEF Inv, TypeOK, DoomedInv, Claim, Set, Return
<1>5. SendsInv'
    BY DEF Inv, TypeOK, SendsInv, Claim, Set, Return, hist
<1>6. ResultInv'
    BY DEF Inv, TypeOK, ResultInv, Claim, Set, Return, hist
<1>7. RefusedInv'
    BY DEF Inv, TypeOK, RefusedInv, Sending, Claim, Set, Return, hist
<1>8. NoOrphan'
    BY DEF Inv, TypeOK, NoOrphan, Claim, Set, Return, hist
<1> QED BY <1>1, <1>2, <1>3, <1>4, <1>5, <1>6, <1>7, <1>8 DEF Inv

LEMMA TransmitKeeps ==
    ASSUME NEW q \in Requests, Inv, Transmit(q)
    PROVE  Inv'
<1>1. TypeOK'
    BY DEF Inv, TypeOK, Places, Transmit, Set, runs, entry
<1>2. CallInv'
    BY DEF Inv, CallInv, Transmit, Set, runs, entry
<1>3. EntryInv'
    BY DEF Inv, EntryInv, Sending, Transmit, Set, runs, entry
<1>4. DoomedInv'
    BY DEF Inv, DoomedInv, Transmit, Set, runs, entry
<1>5. SendsInv'
    BY DEF Inv, TypeOK, SendsInv, Transmit, Set, runs, entry
<1>6. ResultInv'
    BY DEF Inv, TypeOK, ResultInv, Transmit, Set, entry
<1>7. RefusedInv'
    BY DEF Inv, RefusedInv, Sending, Transmit, Set, entry
<1>8. NoOrphan'
    BY DEF Inv, NoOrphan, Transmit, Set, runs, entry
<1> QED BY <1>1, <1>2, <1>3, <1>4, <1>5, <1>6, <1>7, <1>8 DEF Inv

LEMMA FinishKeeps ==
    ASSUME NEW q \in Requests, Inv, Finish(q)
    PROVE  Inv'
<1>1. TypeOK'
  <2>1. /\ state' \in [Requests -> States]
        /\ result' \in [Requests -> Results \cup {None}]
        /\ event' \subseteq Requests /\ files' \subseteq Requests
        /\ entries' \subseteq Requests
    <3>1. CASE q \in entries /\ state[q] = "sending"
        BY <3>1 DEF Inv, TypeOK, States, Results, Finish, Set
    <3>2. CASE ~(q \in entries /\ state[q] = "sending")
        BY <3>2 DEF Inv, TypeOK, Finish, entry
    <3> QED BY <3>1, <3>2
  <2>2. /\ call' \in [Runs -> Requests \cup {None}]
        /\ pc' \in [Requests -> Places]
        /\ told' \in [Requests -> Results \cup {None, "denied", "error"}]
      BY DEF Inv, TypeOK, Places, Results, Finish, Set, Return
  <2> QED
      BY <2>1, <2>2 DEF Inv, TypeOK, Finish, hist
<1>2. CallInv'
    BY RunAssumption DEF Inv, TypeOK, CallInv, Finish, Set, Return, hist
<1>3. EntryInv'
    BY RunAssumption DEF Inv, TypeOK, EntryInv, Sending, Finish, Set, Return,
       entry
<1>4. DoomedInv'
    BY DEF Inv, TypeOK, DoomedInv, Finish, Set, Return, entry
<1>5. SendsInv'
    BY DEF Inv, TypeOK, SendsInv, EntryInv, Sending, Finish, Set, Return,
       entry, hist
<1>6. ResultInv'
    BY DEF Inv, TypeOK, ResultInv, Finish, Set, Return, entry, hist
<1>7. RefusedInv'
    BY DEF Inv, TypeOK, RefusedInv, Sending, Finish, Set, Return, entry, hist
<1>8. NoOrphan'
    BY DEF Inv, NoOrphan, Finish, Set, Return, entry, hist
<1> QED BY <1>1, <1>2, <1>3, <1>4, <1>5, <1>6, <1>7, <1>8 DEF Inv

LEMMA PassKeeps ==
    ASSUME NEW q \in Requests, Inv, Pass(q)
    PROVE  Inv'
<1>1. TypeOK'
    BY DEF Inv, TypeOK, Pass, Set, runs, entry, hist
<1>2. CallInv'
    BY DEF Inv, CallInv, Pass, Set, runs, entry, hist
<1>3. EntryInv'
    BY DEF Inv, EntryInv, Pass, runs, entry
<1>4. DoomedInv'
    BY DEF Inv, DoomedInv, Pass, runs, entry
<1>5. SendsInv'
    BY DEF Inv, SendsInv, Pass, runs, entry, hist
<1>6. ResultInv'
    BY DEF Inv, ResultInv, Pass, entry, hist
<1>7. RefusedInv'
    BY DEF Inv, RefusedInv, Pass, entry, hist
<1>8. NoOrphan'
    BY DEF Inv, NoOrphan, Pass, runs, entry, hist
<1> QED BY <1>1, <1>2, <1>3, <1>4, <1>5, <1>6, <1>7, <1>8 DEF Inv

LEMMA AnswerKeeps ==
    ASSUME NEW q \in Requests, NEW choice \in {"once", "cancel"}, NEW s \in Sessions, NEW a \in Actors, Inv, Answer(q, choice, s, a)
    PROVE  Inv'
<1>1. TypeOK'
    BY DEF Inv, TypeOK, States, Results, Answer, Set, Expire, runs, entry,
       hist
<1>2. CallInv'
    BY DEF Inv, CallInv, Answer, Set, Expire, runs, entry, hist
<1>3. EntryInv'
    BY DEF Inv, TypeOK, EntryInv, Answer, Set, Expire, runs, entry
<1>4. DoomedInv'
    BY DEF Inv, TypeOK, DoomedInv, Answer, Set, Expire, runs, entry
<1>5. SendsInv'
    BY DEF Inv, SendsInv, Answer, Expire, runs, entry, hist
<1>6. ResultInv'
    BY DEF Inv, TypeOK, ResultInv, Answer, Set, Expire, entry, hist
<1>7. RefusedInv'
    BY DEF Inv, TypeOK, RefusedInv, Answer, Set, Expire, entry, hist
<1>8. NoOrphan'
    BY DEF Inv, NoOrphan, Answer, Expire, runs, entry, hist
<1> QED BY <1>1, <1>2, <1>3, <1>4, <1>5, <1>6, <1>7, <1>8 DEF Inv

LEMMA CancelKeeps ==
    ASSUME NEW q \in Requests, Inv, Cancel(q)
    PROVE  Inv'
<1>1. TypeOK'
    BY DEF Inv, TypeOK, States, Results, Cancel, Set, Cancelled, runs, entry
<1>2. CallInv'
    BY DEF Inv, CallInv, Cancel, Set, Cancelled, runs, entry
<1>3. EntryInv'
    BY DEF Inv, TypeOK, EntryInv, Cancel, Set, Cancelled, runs, entry
<1>4. DoomedInv'
    BY DEF Inv, TypeOK, DoomedInv, Cancel, Set, Cancelled, runs, entry
<1>5. SendsInv'
    BY DEF Inv, SendsInv, Cancel, Cancelled, runs, entry
<1>6. ResultInv'
    BY DEF Inv, TypeOK, ResultInv, Cancel, Set, Cancelled, entry
<1>7. RefusedInv'
    BY DEF Inv, TypeOK, RefusedInv, EntryInv, SendsInv, Sending, Cancel, Set,
       Cancelled, Revocable, entry
<1>8. NoOrphan'
    BY DEF Inv, NoOrphan, EntryInv, Cancel, Cancelled, Revocable, runs, entry
<1> QED BY <1>1, <1>2, <1>3, <1>4, <1>5, <1>6, <1>7, <1>8 DEF Inv

LEMMA ApproveKeeps ==
    ASSUME NEW q \in Requests, Inv, Approve(q)
    PROVE  Inv'
<1>1. TypeOK'
    BY DEF Inv, TypeOK, States, Results, Approve, Set, runs, hist
<1>2. CallInv'
    BY DEF Inv, CallInv, Approve, Set, runs, hist
<1>3. EntryInv'
    BY DEF Inv, TypeOK, EntryInv, Approve, Set, runs
<1>4. DoomedInv'
    BY DEF Inv, TypeOK, DoomedInv, Approve, Set, runs
<1>5. SendsInv'
    BY DEF Inv, SendsInv, Approve, runs, hist
<1>6. ResultInv'
    BY DEF Inv, TypeOK, ResultInv, Approve, Set, hist
<1>7. RefusedInv'
    BY DEF Inv, TypeOK, RefusedInv, Approve, Set, hist
<1>8. NoOrphan'
    BY DEF Inv, NoOrphan, Approve, runs, hist
<1> QED BY <1>1, <1>2, <1>3, <1>4, <1>5, <1>6, <1>7, <1>8 DEF Inv

LEMMA StartRunKeeps ==
    ASSUME NEW r \in Runs, Inv, StartRun(r)
    PROVE  Inv'
<1>1. TypeOK'
    BY DEF Inv, TypeOK, StartRun, Set, entry, hist
<1>2. CallInv'
    BY DEF Inv, CallInv, StartRun, Set, entry, hist
<1>3. EntryInv'
    BY DEF Inv, EntryInv, StartRun, Set, entry
<1>4. DoomedInv'
    BY DEF Inv, DoomedInv, StartRun, entry
<1>5. SendsInv'
    BY DEF Inv, SendsInv, StartRun, entry, hist
<1>6. ResultInv'
    BY DEF Inv, ResultInv, StartRun, entry, hist
<1>7. RefusedInv'
    BY DEF Inv, RefusedInv, StartRun, entry, hist
<1>8. NoOrphan'
    BY DEF Inv, NoOrphan, StartRun, Set, entry, hist
<1> QED BY <1>1, <1>2, <1>3, <1>4, <1>5, <1>6, <1>7, <1>8 DEF Inv

LEMMA StopKeeps ==
    ASSUME NEW r \in Runs, Inv, Stop(r)
    PROVE  Inv'
<1>1. TypeOK'
    BY DEF Inv, TypeOK, Stop, entry, hist
<1>2. CallInv'
    BY DEF Inv, CallInv, Stop, entry, hist
<1>3. EntryInv'
    BY DEF Inv, EntryInv, Stop, entry
<1>4. DoomedInv'
    BY DEF Inv, DoomedInv, Stop, entry
<1>5. SendsInv'
    BY DEF Inv, SendsInv, Stop, entry, hist
<1>6. ResultInv'
    BY DEF Inv, ResultInv, Stop, entry, hist
<1>7. RefusedInv'
    BY DEF Inv, RefusedInv, Stop, entry, hist
<1>8. NoOrphan'
    BY DEF Inv, NoOrphan, Stop, entry, hist
<1> QED BY <1>1, <1>2, <1>3, <1>4, <1>5, <1>6, <1>7, <1>8 DEF Inv

LEMMA UnregisterKeeps ==
    ASSUME NEW r \in Runs, Inv, Unregister(r)
    PROVE  Inv'
<1>1. TypeOK'
    BY DEF Inv, TypeOK, Unregister, Set, OfSession, hist
<1>2. CallInv'
    BY RunAssumption DEF Inv, CallInv, Unregister, Set, OfSession, hist
<1>3. EntryInv'
    BY RunAssumption DEF Inv, EntryInv, Unregister, Set, OfSession
<1>4. DoomedInv'
    BY DEF Inv, DoomedInv, EntryInv, Unregister, Set, OfSession
<1>5. SendsInv'
    BY DEF Inv, SendsInv, EntryInv, Unregister, Set, OfSession, hist
<1>6. ResultInv'
    BY DEF Inv, ResultInv, Unregister, OfSession, hist
<1>7. RefusedInv'
    BY DEF Inv, RefusedInv, Unregister, OfSession, hist
<1>8. NoOrphan'
    BY DEF Inv, NoOrphan, Unregister, Set, OfSession, hist
<1> QED BY <1>1, <1>2, <1>3, <1>4, <1>5, <1>6, <1>7, <1>8 DEF Inv

LEMMA WakeKeeps ==
    ASSUME NEW r \in Runs, NEW q \in Requests, Inv, Wake(r, q)
    PROVE  Inv'
<1>1. TypeOK'
    BY DEF Inv, TypeOK, Wake, runs, hist
<1>2. CallInv'
    BY DEF Inv, CallInv, Wake, runs, hist
<1>3. EntryInv'
    BY DEF Inv, EntryInv, Wake, runs
<1>4. DoomedInv'
    BY DEF Inv, DoomedInv, Wake, runs
<1>5. SendsInv'
    BY DEF Inv, SendsInv, Wake, runs, hist
<1>6. ResultInv'
    BY DEF Inv, ResultInv, Wake, hist
<1>7. RefusedInv'
    BY DEF Inv, RefusedInv, Wake, hist
<1>8. NoOrphan'
    BY DEF Inv, NoOrphan, Wake, runs, hist
<1> QED BY <1>1, <1>2, <1>3, <1>4, <1>5, <1>6, <1>7, <1>8 DEF Inv

LEMMA MarkKeeps ==
    ASSUME NEW r \in Runs, NEW q \in Requests, Inv, Mark(r, q)
    PROVE  Inv'
<1>1. TypeOK'
    BY DEF Inv, TypeOK, States, Results, Mark, Set, hist
<1>2. CallInv'
    BY DEF Inv, CallInv, Mark, Set, hist
<1>3. EntryInv'
    BY DEF Inv, TypeOK, EntryInv, DoomedInv, Mark, Set
<1>4. DoomedInv'
    BY DEF Inv, TypeOK, DoomedInv, Mark, Set
<1>5. SendsInv'
    BY DEF Inv, SendsInv, Mark, Set, hist
<1>6. ResultInv'
    BY DEF Inv, TypeOK, ResultInv, Mark, Set, hist
<1>7. RefusedInv'
    BY DEF Inv, TypeOK, RefusedInv, Mark, Set, hist
<1>8. NoOrphan'
    BY DEF Inv, NoOrphan, Mark, hist
<1> QED BY <1>1, <1>2, <1>3, <1>4, <1>5, <1>6, <1>7, <1>8 DEF Inv

LEMMA ClearSessionKeeps ==
    ASSUME NEW r \in Runs, Inv, ClearSession(r)
    PROVE  Inv'
<1>1. TypeOK'
    BY DEF Inv, TypeOK, States, Results, ClearSession, Set, OfSession, hist
<1>2. CallInv'
    BY DEF Inv, CallInv, ClearSession, Set, OfSession, hist
<1>3. EntryInv'
    BY DEF Inv, TypeOK, EntryInv, ClearSession, Set, OfSession
<1>4. DoomedInv'
    BY DEF Inv, TypeOK, DoomedInv, ClearSession, OfSession
<1>5. SendsInv'
    BY DEF Inv, SendsInv, ClearSession, OfSession, hist
<1>6. ResultInv'
    BY DEF Inv, ResultInv, ClearSession, OfSession, hist
<1>7. RefusedInv'
    BY DEF Inv, RefusedInv, ClearSession, OfSession, hist
<1>8. NoOrphan'
    BY DEF Inv, NoOrphan, ClearSession, Set, OfSession, hist
<1> QED BY <1>1, <1>2, <1>3, <1>4, <1>5, <1>6, <1>7, <1>8 DEF Inv

-----------------------------------------------------------------------------
(* Inv holds in every reachable state. *)

LEMMA InitInv == Init => Inv
<1>1. Init => TypeOK
    BY DEF Init, TypeOK, States, Places
<1>2. ASSUME Init, NEW q \in Requests
      PROVE  /\ owner[q] = None /\ told[q] = None /\ pc[q] = "none"
    BY <1>2 DEF Init
<1>3. Init => EntryInv
    BY DEF Init, EntryInv
<1>4. Init => DoomedInv
    BY DEF Init, DoomedInv
<1>5. Init => SendsInv
    BY DEF Init, SendsInv
<1>6. Init => ResultInv
    BY RunAssumption DEF Init, ResultInv
<1>7. Init => RefusedInv
    BY RunAssumption DEF Init, RefusedInv
<1>8. Init => NoOrphan
    BY DEF Init, NoOrphan
<1> QED BY <1>1, <1>2, <1>3, <1>4, <1>5, <1>6, <1>7, <1>8 DEF Inv, CallInv

LEMMA Inductive == Inv /\ [Next]_vars => Inv'
<1>1. CASE Next /\ Inv
  <2>1. ASSUME NEW r \in Runs, NEW q \in Requests, Stage(r, q)
        PROVE  Inv'
    BY <1>1, <2>1, StageKeeps
  <2>2. ASSUME NEW q \in Requests, Register(q)
        PROVE  Inv'
    BY <1>1, <2>2, RegisterKeeps
  <2>3. ASSUME NEW q \in Requests, Prompt(q)
        PROVE  Inv'
    BY <1>1, <2>3, PromptKeeps
  <2>4. ASSUME NEW q \in Requests, Prompted(q)
        PROVE  Inv'
    BY <1>1, <2>4, PromptedKeeps
  <2>5. ASSUME NEW q \in Requests, Enter(q)
        PROVE  Inv'
    BY <1>1, <2>5, EnterKeeps
  <2>6. ASSUME NEW q \in Requests, WaitTimeout(q)
        PROVE  Inv'
    BY <1>1, <2>6, WaitTimeoutKeeps
  <2>7. ASSUME NEW q \in Requests, WaitWake(q)
        PROVE  Inv'
    BY <1>1, <2>7, WaitWakeKeeps
  <2>8. ASSUME NEW q \in Requests, Claim(q)
        PROVE  Inv'
    BY <1>1, <2>8, ClaimKeeps
  <2>9. ASSUME NEW q \in Requests, Transmit(q)
        PROVE  Inv'
    BY <1>1, <2>9, TransmitKeeps
  <2>10. ASSUME NEW q \in Requests, Finish(q)
         PROVE  Inv'
    BY <1>1, <2>10, FinishKeeps
  <2>11. ASSUME NEW q \in Requests, Pass(q)
         PROVE  Inv'
    BY <1>1, <2>11, PassKeeps
  <2>12. ASSUME NEW q \in Requests, NEW choice \in {"once", "cancel"}, NEW s \in Sessions, NEW a \in Actors, Answer(q, choice, s, a)
         PROVE  Inv'
    BY <1>1, <2>12, AnswerKeeps
  <2>13. ASSUME NEW q \in Requests, Cancel(q)
         PROVE  Inv'
    BY <1>1, <2>13, CancelKeeps
  <2>14. ASSUME NEW q \in Requests, Approve(q)
         PROVE  Inv'
    BY <1>1, <2>14, ApproveKeeps
  <2>15. ASSUME NEW r \in Runs, StartRun(r)
         PROVE  Inv'
    BY <1>1, <2>15, StartRunKeeps
  <2>16. ASSUME NEW r \in Runs, Stop(r)
         PROVE  Inv'
    BY <1>1, <2>16, StopKeeps
  <2>17. ASSUME NEW r \in Runs, Unregister(r)
         PROVE  Inv'
    BY <1>1, <2>17, UnregisterKeeps
  <2>18. ASSUME NEW r \in Runs, NEW q \in Requests, Wake(r, q)
         PROVE  Inv'
    BY <1>1, <2>18, WakeKeeps
  <2>19. ASSUME NEW r \in Runs, NEW q \in Requests, Mark(r, q)
         PROVE  Inv'
    BY <1>1, <2>19, MarkKeeps
  <2>20. ASSUME NEW r \in Runs, ClearSession(r)
         PROVE  Inv'
    BY <1>1, <2>20, ClearSessionKeeps
  <2>21. ASSUME NEW q \in Requests, Staged(q)
         PROVE  Inv'
    BY <1>1, <2>21, StagedKeeps
  <2> QED BY <1>1, <2>1, <2>2, <2>3, <2>4, <2>5, <2>6, <2>7, <2>8, <2>9,
     <2>10, <2>11, <2>12, <2>13, <2>14, <2>15, <2>16, <2>17, <2>18, <2>19,
     <2>20, <2>21 DEF Next, CallStep, ReplyStep, RunStep
<1>2. CASE UNCHANGED vars /\ Inv
    BY <1>2 DEF Inv, TypeOK, CallInv, EntryInv, DoomedInv, SendsInv,
       ResultInv, RefusedInv, NoOrphan, vars, runs, entry, hist
<1> QED BY <1>1, <1>2

LEMMA Invariant == Spec => []Inv
BY InitInv, Inductive, PTL DEF Spec

(* Every reachable state is well typed. *)
THEOREM Typing == Spec => []TypeOK
<1>1. Inv => TypeOK
    BY DEF Inv
<1> QED BY <1>1, Invariant, PTL

(* A delivery the user cancelled is never handed to the platform, and none is
   handed over twice: the thread of a cancelled entry is not past the claim. *)
THEOREM Cancellation == Spec => []CancelHonoured
<1>1. Inv => CancelHonoured
    <2> SUFFICES ASSUME Inv, NEW q \in Requests
                 PROVE  sends[q] <= IF q \in refused THEN 0 ELSE 1
        BY DEF CancelHonoured
    <2>1. CASE q \in refused
        BY <2>1 DEF Inv, RefusedInv
    <2>2. CASE q \notin refused
        BY <2>2 DEF Inv, SendsInv
    <2> QED BY <2>1, <2>2
<1> QED BY <1>1, Invariant, PTL

(* What a send_message call tells the agent about the delivery is true. *)
THEOREM Reports == Spec => []ReportTrue
<1>1. Inv => ReportTrue
    BY DEF Inv, CallInv, SendsInv, ReportTrue
<1> QED BY <1>1, Invariant, PTL

(* No entry outlives the run that asked for it. *)
THEOREM Ends == Spec => []NoOrphan
<1>1. Inv => NoOrphan
    BY DEF Inv
<1> QED BY <1>1, Invariant, PTL

-----------------------------------------------------------------------------
(* Staged files *)

Underway == {"active", "closing"}
Copying == {"copying", "staged"}

(* No run of the session of r was stopped. *)
Quiet(r) == \A r2 \in stopped : SessionOf[r2] # SessionOf[r]

(* Runs of one session overlap only once one was stopped. *)
AloneInv ==
    \A r1, r2 \in Runs :
        /\ r1 # r2 /\ SessionOf[r1] = SessionOf[r2]
        /\ run[r1] \in Underway /\ run[r2] \in Underway
        => ~Quiet(r1)

(* Calls end before their run does, so an entry belongs to an active run. *)
ActiveInv == \A q \in entries : run[owner[q]] = "active"

(* In a session without a stopped run, a staged file belongs to a run that
   will end: with the thread, an entry, or what the end of the run took out. *)
StoredInv ==
    \A q \in files :
        /\ owner[q] # None
        /\ Quiet(owner[q]) =>
              /\ run[owner[q]] \in Underway
              /\ \/ pc[q] \in Copying
                 \/ q \in entries \/ q \in doomed[owner[q]]

(* Only a run that is ending has taken entries out. *)
EndingInv == \A r \in Runs : run[r] # "closing" => doomed[r] = {}

FilesInv == AloneInv /\ ActiveInv /\ StoredInv /\ EndingInv

LEMMA FilesInit == Init => FilesInv
BY RunAssumption DEF Init, FilesInv, AloneInv, ActiveInv, StoredInv, EndingInv,
       Underway

(* A thread keeps an entry or staged copies, or takes the files with it. *)
LEMMA ThreadFiles ==
    ASSUME Inv, FilesInv, UNCHANGED <<run, stopped, doomed, owner>>,
           files' \subseteq files,
           \A q \in files' :
              pc[q] \in Copying \/ q \in entries
                => pc'[q] \in Copying \/ q \in entries',
           \A q \in entries' :
              q \in entries \/ (q \in Requests /\ pc[q] \in Copying)
    PROVE  FilesInv'
<1>1. AloneInv'
    BY DEF FilesInv, AloneInv, Quiet
<1>2. ActiveInv'
    BY DEF Inv, TypeOK, CallInv, FilesInv, ActiveInv, Copying
<1>3. StoredInv'
    BY DEF FilesInv, StoredInv, Quiet
<1>4. EndingInv'
    BY DEF FilesInv, EndingInv
<1> QED BY <1>1, <1>2, <1>3, <1>4 DEF FilesInv

LEMMA CallFiles ==
    ASSUME NEW q \in Requests, Inv, FilesInv, CallStep(q) PROVE FilesInv'
<1>1. UNCHANGED <<run, stopped, doomed, owner>>
    BY DEF CallStep, Staged, Register, Prompt, Prompted, Enter, WaitTimeout,
       WaitWake, Claim, Transmit, Finish, runs
<1>2. CASE Register(q)
    BY <1>1, <1>2, ThreadFiles DEF Inv, TypeOK, Register, Set, Copying
<1>3. CASE Prompt(q)
    BY <1>1, <1>3, ThreadFiles
    DEF Inv, TypeOK, Prompt, Return, Set, Copying
<1>4. CASE Prompted(q)
    BY <1>1, <1>4, ThreadFiles
    DEF Inv, TypeOK, Prompted, Return, Set, Copying
<1>5. CASE WaitTimeout(q)
    BY <1>1, <1>5, ThreadFiles
    DEF Inv, TypeOK, WaitTimeout, Expire, Return, Set, entry, Copying
<1>6. CASE Enter(q) \/ WaitWake(q) \/ Claim(q) \/ Transmit(q)
  <2>1. UNCHANGED <<files, entries>> /\ pc[q] \notin Copying
        /\ \E place : pc' = Set(pc, q, place)
      BY <1>6 DEF Enter, WaitWake, Claim, Transmit, Return, entry, Copying
  <2> QED BY <1>1, <2>1, ThreadFiles DEF Inv, TypeOK, Set
<1>7. CASE Finish(q)
    BY <1>1, <1>7, ThreadFiles
    DEF Inv, TypeOK, Finish, Return, Set, entry, Copying
<1>8. CASE Staged(q)
    BY <1>1, <1>8, ThreadFiles
    DEF Inv, TypeOK, Staged, Return, Set, entry, Copying
<1> QED BY <1>2, <1>3, <1>4, <1>5, <1>6, <1>7, <1>8 DEF CallStep

LEMMA ReplyFiles ==
    ASSUME NEW q \in Requests, Inv, FilesInv, ReplyStep(q) \/ Pass(q)
    PROVE  FilesInv'
<1>1. UNCHANGED <<run, stopped, doomed, owner, pc>>
    BY DEF ReplyStep, Cancel, Approve, Answer, Pass, runs
<1>2. ASSUME NEW choice \in {"once", "cancel"}, NEW s \in Sessions,
             NEW a \in Actors, Answer(q, choice, s, a)
      PROVE  FilesInv'
    BY <1>1, <1>2, ThreadFiles DEF Answer, Expire, entry
<1>3. CASE Cancel(q)
    BY <1>1, <1>3, ThreadFiles DEF Cancel, Cancelled, entry
<1>4. CASE Approve(q) \/ Pass(q)
    BY <1>1, <1>4, ThreadFiles DEF Approve, Pass, entry
<1> QED BY <1>2, <1>3, <1>4 DEF ReplyStep

LEMMA StageFiles ==
    ASSUME NEW r \in Runs, NEW q \in Requests, Inv, FilesInv, Stage(r, q)
    PROVE  FilesInv'
<1>1. /\ UNCHANGED <<run, stopped, doomed, entries>>
      /\ owner[q] = None /\ owner' = Set(owner, q, r) /\ run[r] = "active"
      /\ \A p \in Requests : p # q => pc'[p] = pc[p]
      /\ pc'[q] = "copying" /\ files' = files \cup {q}
    BY DEF Stage, Set, entry, Inv, TypeOK
<1>2. q \notin files /\ q \notin entries
    BY <1>1 DEF Inv, EntryInv, CallInv, FilesInv, StoredInv
<1>3. AloneInv'
    BY <1>1 DEF FilesInv, AloneInv, Quiet
<1>4. ActiveInv'
    BY <1>1, <1>2 DEF FilesInv, ActiveInv, Set, Inv, TypeOK
<1>5. StoredInv'
    <2> SUFFICES ASSUME NEW p \in files'
                 PROVE  /\ owner'[p] # None
                        /\ Quiet(owner[p])' =>
                             /\ run'[owner'[p]] \in Underway
                             /\ pc'[p] \in Copying \/ p \in entries'
                                \/ p \in doomed'[owner'[p]]
        BY DEF StoredInv
    <2>1. CASE p = q
        BY <1>1, <1>2, <2>1, RunAssumption
        DEF Set, Underway, Copying, Inv, TypeOK
    <2>2. CASE p # q
        BY <1>1, <2>2 DEF FilesInv, StoredInv, Quiet, Set, Inv, TypeOK
    <2> QED BY <2>1, <2>2
<1>6. EndingInv'
    BY <1>1 DEF FilesInv, EndingInv
<1> QED BY <1>3, <1>4, <1>5, <1>6 DEF FilesInv

LEMMA StartFiles ==
    ASSUME NEW r \in Runs, Inv, FilesInv, StartRun(r) PROVE FilesInv'
<1>1. /\ run[r] = "new" /\ run' = Set(run, r, "active")
      /\ UNCHANGED <<stopped, doomed, owner, pc, entries, files>>
      /\ \/ \A r2 \in Runs : SessionOf[r2] = SessionOf[r]
                             => run[r2] \in {"new", "ended"}
         \/ ~Quiet(r)
    BY DEF StartRun, Quiet, entry
<1>2. AloneInv'
    BY <1>1 DEF FilesInv, AloneInv, Quiet, Underway, Set, Inv, TypeOK
<1>3. ActiveInv'
    BY <1>1 DEF FilesInv, ActiveInv, Set, Inv, TypeOK
<1>4. StoredInv'
    BY <1>1 DEF FilesInv, StoredInv, Quiet, Underway, Set, Inv, TypeOK
<1>5. EndingInv'
    BY <1>1 DEF FilesInv, EndingInv, Set, Inv, TypeOK
<1> QED BY <1>2, <1>3, <1>4, <1>5 DEF FilesInv

LEMMA StopFiles ==
    ASSUME NEW r \in Runs, Inv, FilesInv, Stop(r) PROVE FilesInv'
<1>1. /\ stopped' = stopped \cup {r}
      /\ UNCHANGED <<run, doomed, owner, pc, entries, files>>
    BY DEF Stop, entry
<1> QED BY <1>1 DEF FilesInv, AloneInv, ActiveInv, StoredInv, EndingInv, Quiet

(* Files of a session without a stopped run are those of the run that ends. *)
LEMMA OwnFiles ==
    ASSUME NEW r \in Runs, NEW q \in files, Inv, FilesInv, run[r] \in Underway,
           SessionOf[owner[q]] = SessionOf[r], Quiet(owner[q])
    PROVE  owner[q] = r
<1>1. owner[q] \in Runs /\ run[owner[q]] \in Underway
    BY DEF Inv, TypeOK, FilesInv, StoredInv
<1>2. r \notin stopped /\ owner[q] \notin stopped
    BY DEF Quiet
<1> QED BY <1>1, <1>2 DEF FilesInv, AloneInv

LEMMA UnregisterFiles ==
    ASSUME NEW r \in Runs, Inv, FilesInv, Unregister(r) PROVE FilesInv'
<1>1. /\ run[r] = "active" /\ call[r] = None /\ run' = Set(run, r, "closing")
      /\ doomed' = Set(doomed, r, OfSession(SessionOf[r]))
      /\ entries' = entries \ OfSession(SessionOf[r])
      /\ UNCHANGED <<stopped, owner, pc, files>>
    BY DEF Unregister
<1>2. AloneInv'
    BY <1>1 DEF FilesInv, AloneInv, Quiet, Underway, Set, Inv, TypeOK
<1>3. ActiveInv'
    BY <1>1 DEF FilesInv, ActiveInv, OfSession, Set, Inv, TypeOK
<1>4. StoredInv'
  <2> SUFFICES ASSUME NEW q \in files, owner[q] # None, Quiet(owner[q])
               PROVE  /\ run'[owner[q]] \in Underway
                      /\ pc[q] \in Copying \/ q \in entries'
                         \/ q \in doomed'[owner[q]]
      BY <1>1 DEF FilesInv, StoredInv, Quiet
  <2>1. /\ owner[q] \in Runs /\ run[owner[q]] \in Underway
        /\ pc[q] \in Copying \/ q \in entries \/ q \in doomed[owner[q]]
      BY DEF FilesInv, StoredInv, Inv, TypeOK
  <2>2. CASE SessionOf[owner[q]] = SessionOf[r]
    <3>1. owner[q] = r
        BY <1>1, <2>2, OwnFiles DEF Underway
    <3>2. pc[q] \notin Copying
        BY <1>1, <3>1, RunAssumption DEF Inv, TypeOK, CallInv, Copying
    <3>3. doomed[r] = {}
        BY <1>1 DEF FilesInv, EndingInv
    <3> QED BY <1>1, <2>1, <2>2, <3>1, <3>2, <3>3
            DEF OfSession, Underway, Set, Inv, TypeOK
  <2>3. CASE SessionOf[owner[q]] # SessionOf[r]
      BY <1>1, <2>1, <2>3 DEF OfSession, Set, Inv, TypeOK
  <2> QED BY <2>2, <2>3
<1>5. EndingInv'
    BY <1>1 DEF FilesInv, EndingInv, Set, Inv, TypeOK
<1> QED BY <1>2, <1>3, <1>4, <1>5 DEF FilesInv

LEMMA MarkFiles ==
    ASSUME NEW r \in Runs, NEW q \in Requests, Inv, FilesInv,
           Wake(r, q) \/ Mark(r, q)
    PROVE  FilesInv'
<1>1. /\ UNCHANGED <<run, stopped, owner, pc, entries>>
      /\ \/ UNCHANGED <<doomed, files>>
         \/ /\ doomed' = Set(doomed, r, doomed[r] \ {q})
            /\ files' = files \ {q}
    BY DEF Wake, Mark, runs
<1>2. AloneInv' /\ ActiveInv'
    BY <1>1 DEF FilesInv, AloneInv, Quiet, ActiveInv
<1>3. \A p \in files' : p \in files
                        /\ (p \in doomed[owner[p]] => p \in doomed'[owner[p]])
    BY <1>1 DEF Set, Inv, TypeOK, FilesInv, StoredInv
<1>4. StoredInv'
    BY <1>1, <1>3 DEF FilesInv, StoredInv, Quiet
<1>5. EndingInv'
    BY <1>1 DEF FilesInv, EndingInv, Set, Inv, TypeOK
<1> QED BY <1>2, <1>4, <1>5 DEF FilesInv

LEMMA ClearFiles ==
    ASSUME NEW r \in Runs, Inv, FilesInv, ClearSession(r) PROVE FilesInv'
<1>1. /\ run[r] = "closing" /\ doomed[r] = {} /\ run' = Set(run, r, "ended")
      /\ UNCHANGED <<stopped, doomed, owner, pc>>
      /\ entries' = entries \ OfSession(SessionOf[r])
      /\ files' \subseteq files
    BY DEF ClearSession
<1>2. AloneInv'
    BY <1>1 DEF FilesInv, AloneInv, Quiet, Underway, Set, Inv, TypeOK
<1>3. ActiveInv'
    BY <1>1 DEF FilesInv, ActiveInv, Set, Inv, TypeOK
<1>4. StoredInv'
  <2> SUFFICES ASSUME NEW q \in files, owner[q] # None, Quiet(owner[q])
               PROVE  /\ run'[owner[q]] \in Underway
                      /\ pc[q] \in Copying \/ q \in entries'
                         \/ q \in doomed[owner[q]]
      BY <1>1 DEF FilesInv, StoredInv, Quiet
  <2>1. /\ owner[q] \in Runs /\ run[owner[q]] \in Underway
        /\ pc[q] \in Copying \/ q \in entries \/ q \in doomed[owner[q]]
      BY DEF FilesInv, StoredInv, Inv, TypeOK
  (* The run that ends has nothing left: its call returned, its entries were
     active runs', and what it took out is marked. *)
  <2>2. owner[q] # r
    <3>1. pc[q] \in Copying => run[owner[q]] = "active"
        BY DEF Inv, TypeOK, CallInv, Copying
    <3>2. q \in entries => run[owner[q]] = "active"
        BY DEF FilesInv, ActiveInv
    <3> QED BY <1>1, <2>1, <3>1, <3>2
  <2>3. SessionOf[owner[q]] # SessionOf[r]
      BY <1>1, <2>2, OwnFiles DEF Underway
  <2> QED BY <1>1, <2>1, <2>2, <2>3 DEF OfSession, Set, Inv, TypeOK
<1>5. EndingInv'
    BY <1>1 DEF FilesInv, EndingInv, Set, Inv, TypeOK
<1> QED BY <1>2, <1>3, <1>4, <1>5 DEF FilesInv

LEMMA FilesNext ==
    ASSUME Inv, FilesInv, [Next]_vars PROVE FilesInv'
<1>1. CASE UNCHANGED vars
    BY <1>1 DEF FilesInv, AloneInv, ActiveInv, StoredInv, EndingInv, Quiet, vars,
       runs, entry
<1>2. CASE Next
    BY <1>2, CallFiles, ReplyFiles, StageFiles, StartFiles, StopFiles,
       UnregisterFiles, MarkFiles, ClearFiles DEF Next, RunStep
<1> QED BY <1>1, <1>2

(* A run leaves no staged file behind, whatever way its requests end, unless a
   run of its session was stopped. *)
THEOREM Cleanup == Spec => []FilesGone
<1>1. Init => Inv /\ FilesInv
    BY InitInv, FilesInit
<1>2. Inv /\ FilesInv /\ [Next]_vars => (Inv /\ FilesInv)'
    BY Inductive, FilesNext
<1>3. FilesInv => FilesGone
    BY DEF FilesInv, StoredInv, FilesGone, Quiet, Underway
<1> QED BY <1>1, <1>2, <1>3, PTL DEF Spec

-----------------------------------------------------------------------------
(* The refinement.  Most steps void some requests, or none. *)

Voided(q) ==
    Worth(q)' = "void" /\ Worth(q) \in {"new", "asked", "granted"}

LEMMA VoidStep ==
    ASSUME \A p \in Requests : Worth(p)' = Worth(p) \/ Voided(p)
    PROVE  [G!Next]_Grant
<1> DEFINE qs == {p \in Requests : Voided(p)}
<1>1. Grant' = [p \in Requests |-> IF p \in qs THEN "void" ELSE Grant[p]]
    BY DEF Grant, Voided
<1>2. \A p \in qs : Grant[p] \in {"new", "asked", "granted"}
    BY DEF Grant, Voided
<1>3. G!Void(qs)
    BY <1>1, <1>2 DEF G!Void
<1> QED BY <1>3 DEF G!Next

LEMMA MoveStep ==
    ASSUME NEW q \in Requests,
           \A p \in Requests \ {q} : Worth(p)' = Worth(p),
           << Worth(q), Worth(q)' >> \in
              {<<"new", "asked">>, <<"asked", "granted">>,
               <<"granted", "used">>, <<"used", "over">>}
    PROVE  [G!Next]_Grant
<1>1. Grant' = [Grant EXCEPT ![q] = Worth(q)'] /\ Grant[q] = Worth(q)
    BY DEF Grant
<1>2. G!Ask(q) \/ G!Approve(q) \/ G!Use(q) \/ G!Finish(q)
    BY <1>1 DEF G!Ask, G!Approve, G!Use, G!Finish, G!Move
<1> QED BY <1>2 DEF G!Next

LEMMA StageMoves ==
    ASSUME NEW r \in Runs, NEW q \in Requests, Inv, Stage(r, q)
    PROVE  [G!Next]_Grant
<1>1. \A p \in Requests : Worth(p)' = Worth(p) \/ Voided(p)
    BY DEF Voided, Worth, Inv, TypeOK, CallInv, Stage, Set, entry
<1> QED BY <1>1, VoidStep

LEMMA StagedMoves ==
    ASSUME NEW q \in Requests, Inv, Staged(q)
    PROVE  [G!Next]_Grant
<1>1. \A p \in Requests : Worth(p)' = Worth(p) \/ Voided(p)
    BY DEF Voided, Worth, Inv, TypeOK, Staged, Set, Return, entry
<1> QED BY <1>1, VoidStep

LEMMA RegisterMoves ==
    ASSUME NEW q \in Requests, Inv, Register(q)
    PROVE  [G!Next]_Grant
<1>1. \A p \in Requests \ {q} : Worth(p)' = Worth(p)
    BY DEF Worth, Register, Set
<1>2. Worth(q) = "new" /\ Worth(q)' = "asked"
    BY DEF Worth, Inv, TypeOK, Register, Set
<1> QED BY <1>1, <1>2, MoveStep

LEMMA PromptMoves ==
    ASSUME NEW q \in Requests, Inv, Prompt(q)
    PROVE  [G!Next]_Grant
<1>1. \A p \in Requests : Worth(p)' = Worth(p) \/ Voided(p)
    BY DEF Voided, Worth, Inv, TypeOK, Prompt, Set, Return
<1> QED BY <1>1, VoidStep

LEMMA PromptedMoves ==
    ASSUME NEW q \in Requests, Inv, Prompted(q)
    PROVE  [G!Next]_Grant
<1>1. \A p \in Requests : Worth(p)' = Worth(p) \/ Voided(p)
    BY DEF Voided, Worth, Inv, TypeOK, ResultInv, Prompted, Set, Return
<1> QED BY <1>1, VoidStep

LEMMA EnterMoves ==
    ASSUME NEW q \in Requests, Inv, Enter(q)
    PROVE  [G!Next]_Grant
<1>1. \A p \in Requests : Worth(p)' = Worth(p) \/ Voided(p)
    BY DEF Voided, Worth, Inv, TypeOK, Enter, Set, Return, entry
<1> QED BY <1>1, VoidStep

LEMMA WaitTimeoutMoves ==
    ASSUME NEW q \in Requests, Inv, WaitTimeout(q)
    PROVE  [G!Next]_Grant
<1>1. \A p \in Requests : Worth(p)' = Worth(p) \/ Voided(p)
    BY DEF Voided, Worth, Inv, TypeOK, WaitTimeout, Set, Expire, Return, entry
<1> QED BY <1>1, VoidStep

LEMMA WaitWakeMoves ==
    ASSUME NEW q \in Requests, Inv, WaitWake(q)
    PROVE  [G!Next]_Grant
<1>1. \A p \in Requests : Worth(p)' = Worth(p) \/ Voided(p)
    BY DEF Voided, Worth, Inv, TypeOK, ResultInv, WaitWake, Set, Return, entry
<1> QED BY <1>1, VoidStep

LEMMA ClaimMoves ==
    ASSUME NEW q \in Requests, Inv, Claim(q)
    PROVE  [G!Next]_Grant
<1>1. CASE q \in entries /\ state[q] = "approved"
  <2>1. \A p \in Requests \ {q} : Worth(p)' = Worth(p)
      BY <1>1 DEF Worth, Inv, TypeOK, Claim, Set
  <2>2. Worth(q) = "granted" /\ Worth(q)' = "used"
      BY <1>1 DEF Worth, Inv, TypeOK, Claim, Set
  <2> QED BY <2>1, <2>2, MoveStep
<1>2. CASE ~(q \in entries /\ state[q] = "approved")
  <2>1. \A p \in Requests : Worth(p)' = Worth(p) \/ Voided(p)
      BY <1>2 DEF Voided, Worth, Inv, TypeOK, Claim, Set, Return
  <2> QED BY <2>1, VoidStep
<1> QED BY <1>1, <1>2

LEMMA TransmitMoves ==
    ASSUME NEW q \in Requests, Inv, Transmit(q)
    PROVE  [G!Next]_Grant
<1>1. \A p \in Requests : Worth(p)' = Worth(p) \/ Voided(p)
    BY DEF Voided, Worth, Transmit, Set, entry
<1> QED BY <1>1, VoidStep

LEMMA FinishMoves ==
    ASSUME NEW q \in Requests, Inv, Finish(q)
    PROVE  [G!Next]_Grant
<1>1. \A p \in Requests \ {q} : Worth(p)' = Worth(p)
    BY DEF Worth, Inv, TypeOK, Finish, Set, Return, entry
<1>2. Worth(q) = "used" /\ Worth(q)' = "over"
    BY DEF Worth, Inv, TypeOK, Finish, Set, Return, entry
<1> QED BY <1>1, <1>2, MoveStep

LEMMA PassMoves ==
    ASSUME NEW q \in Requests, Inv, Pass(q)
    PROVE  [G!Next]_Grant
<1>1. \A p \in Requests : Worth(p)' = Worth(p) \/ Voided(p)
    BY DEF Voided, Worth, Pass, entry
<1> QED BY <1>1, VoidStep

LEMMA AnswerMoves ==
    ASSUME NEW q \in Requests, NEW choice \in {"once", "cancel"}, NEW s \in Sessions, NEW a \in Actors, Inv, Answer(q, choice, s, a)
    PROVE  [G!Next]_Grant
<1>1. \A p \in Requests : Worth(p)' = Worth(p) \/ Voided(p)
    BY DEF Voided, Worth, Inv, TypeOK, Answer, Set, Expire, entry
<1> QED BY <1>1, VoidStep

LEMMA CancelMoves ==
    ASSUME NEW q \in Requests, Inv, Cancel(q)
    PROVE  [G!Next]_Grant
<1>1. \A p \in Requests : Worth(p)' = Worth(p) \/ Voided(p)
    BY DEF Voided, Worth, Inv, TypeOK, Cancel, Set, Cancelled, entry
<1> QED BY <1>1, VoidStep

LEMMA ApproveMoves ==
    ASSUME NEW q \in Requests, Inv, Approve(q)
    PROVE  [G!Next]_Grant
<1>1. CASE Worth(q) = "asked" /\ clock[q] = "open"
  <2>1. \A p \in Requests \ {q} : Worth(p)' = Worth(p)
      BY <1>1 DEF Worth, Inv, TypeOK, Approve, Set
  <2>2. Worth(q) = "asked" /\ Worth(q)' = "granted"
      BY <1>1 DEF Worth, Inv, TypeOK, Approve, Set
  <2> QED BY <2>1, <2>2, MoveStep
<1>2. CASE ~(Worth(q) = "asked" /\ clock[q] = "open")
  <2>1. \A p \in Requests : Worth(p)' = Worth(p) \/ Voided(p)
      BY <1>2 DEF Voided, Worth, Inv, TypeOK, Approve, Set
  <2> QED BY <2>1, VoidStep
<1> QED BY <1>1, <1>2

LEMMA StartRunMoves ==
    ASSUME NEW r \in Runs, Inv, StartRun(r)
    PROVE  [G!Next]_Grant
<1>1. \A p \in Requests : Worth(p)' = Worth(p) \/ Voided(p)
    BY DEF Voided, Worth, StartRun, entry
<1> QED BY <1>1, VoidStep

LEMMA StopMoves ==
    ASSUME NEW r \in Runs, Inv, Stop(r)
    PROVE  [G!Next]_Grant
<1>1. \A p \in Requests : Worth(p)' = Worth(p) \/ Voided(p)
    BY DEF Voided, Worth, Stop, entry
<1> QED BY <1>1, VoidStep

LEMMA UnregisterMoves ==
    ASSUME NEW r \in Runs, Inv, Unregister(r)
    PROVE  [G!Next]_Grant
<1>1. \A p \in Requests : Worth(p)' = Worth(p) \/ Voided(p)
    BY DEF Voided, Worth, Unregister, OfSession
<1> QED BY <1>1, VoidStep

LEMMA WakeMoves ==
    ASSUME NEW r \in Runs, NEW q \in Requests, Inv, Wake(r, q)
    PROVE  [G!Next]_Grant
<1>1. \A p \in Requests : Worth(p)' = Worth(p) \/ Voided(p)
    BY DEF Voided, Worth, Wake
<1> QED BY <1>1, VoidStep

LEMMA MarkMoves ==
    ASSUME NEW r \in Runs, NEW q \in Requests, Inv, Mark(r, q)
    PROVE  [G!Next]_Grant
<1>1. \A p \in Requests : Worth(p)' = Worth(p) \/ Voided(p)
    BY DEF Voided, Worth, Inv, TypeOK, Mark, Set
<1> QED BY <1>1, VoidStep

LEMMA ClearSessionMoves ==
    ASSUME NEW r \in Runs, Inv, ClearSession(r)
    PROVE  [G!Next]_Grant
<1>1. \A p \in Requests : Worth(p)' = Worth(p) \/ Voided(p)
    BY DEF Voided, Worth, ClearSession, OfSession
<1> QED BY <1>1, VoidStep

(* The confirmation implements DeliveryGrant: a request is used at most once,
   only while it is granted, and never after it was refused, withdrawn or left
   to expire. *)
THEOREM Refinement == Spec => GrantKept
<1>1. Init => G!Init
    BY DEF Init, G!Init, Grant, Worth
<1>2. Inv /\ [Next]_vars => [G!Next]_Grant
  <2>1. CASE Next /\ Inv
    <3>1. ASSUME NEW r \in Runs, NEW q \in Requests, Stage(r, q)
          PROVE  [G!Next]_Grant
      BY <2>1, <3>1, StageMoves
    <3>2. ASSUME NEW q \in Requests, Register(q)
          PROVE  [G!Next]_Grant
      BY <2>1, <3>2, RegisterMoves
    <3>3. ASSUME NEW q \in Requests, Prompt(q)
          PROVE  [G!Next]_Grant
      BY <2>1, <3>3, PromptMoves
    <3>4. ASSUME NEW q \in Requests, Prompted(q)
          PROVE  [G!Next]_Grant
      BY <2>1, <3>4, PromptedMoves
    <3>5. ASSUME NEW q \in Requests, Enter(q)
          PROVE  [G!Next]_Grant
      BY <2>1, <3>5, EnterMoves
    <3>6. ASSUME NEW q \in Requests, WaitTimeout(q)
          PROVE  [G!Next]_Grant
      BY <2>1, <3>6, WaitTimeoutMoves
    <3>7. ASSUME NEW q \in Requests, WaitWake(q)
          PROVE  [G!Next]_Grant
      BY <2>1, <3>7, WaitWakeMoves
    <3>8. ASSUME NEW q \in Requests, Claim(q)
          PROVE  [G!Next]_Grant
      BY <2>1, <3>8, ClaimMoves
    <3>9. ASSUME NEW q \in Requests, Transmit(q)
          PROVE  [G!Next]_Grant
      BY <2>1, <3>9, TransmitMoves
    <3>10. ASSUME NEW q \in Requests, Finish(q)
           PROVE  [G!Next]_Grant
      BY <2>1, <3>10, FinishMoves
    <3>11. ASSUME NEW q \in Requests, Pass(q)
           PROVE  [G!Next]_Grant
      BY <2>1, <3>11, PassMoves
    <3>12. ASSUME NEW q \in Requests, NEW choice \in {"once", "cancel"}, NEW s \in Sessions, NEW a \in Actors, Answer(q, choice, s, a)
           PROVE  [G!Next]_Grant
      BY <2>1, <3>12, AnswerMoves
    <3>13. ASSUME NEW q \in Requests, Cancel(q)
           PROVE  [G!Next]_Grant
      BY <2>1, <3>13, CancelMoves
    <3>14. ASSUME NEW q \in Requests, Approve(q)
           PROVE  [G!Next]_Grant
      BY <2>1, <3>14, ApproveMoves
    <3>15. ASSUME NEW r \in Runs, StartRun(r)
           PROVE  [G!Next]_Grant
      BY <2>1, <3>15, StartRunMoves
    <3>16. ASSUME NEW r \in Runs, Stop(r)
           PROVE  [G!Next]_Grant
      BY <2>1, <3>16, StopMoves
    <3>17. ASSUME NEW r \in Runs, Unregister(r)
           PROVE  [G!Next]_Grant
      BY <2>1, <3>17, UnregisterMoves
    <3>18. ASSUME NEW r \in Runs, NEW q \in Requests, Wake(r, q)
           PROVE  [G!Next]_Grant
      BY <2>1, <3>18, WakeMoves
    <3>19. ASSUME NEW r \in Runs, NEW q \in Requests, Mark(r, q)
           PROVE  [G!Next]_Grant
      BY <2>1, <3>19, MarkMoves
    <3>20. ASSUME NEW r \in Runs, ClearSession(r)
           PROVE  [G!Next]_Grant
      BY <2>1, <3>20, ClearSessionMoves
    <3>21. ASSUME NEW q \in Requests, Staged(q)
           PROVE  [G!Next]_Grant
      BY <2>1, <3>21, StagedMoves
    <3> QED BY <2>1, <3>1, <3>2, <3>3, <3>4, <3>5, <3>6, <3>7, <3>8, <3>9,
       <3>10, <3>11, <3>12, <3>13, <3>14, <3>15, <3>16, <3>17, <3>18, <3>19,
       <3>20, <3>21 DEF Next, CallStep, ReplyStep, RunStep
  <2>2. CASE UNCHANGED vars
      BY <2>2 DEF vars, entry, Grant, Worth
  <2> QED BY <2>1, <2>2
<1> QED BY <1>1, <1>2, Invariant, PTL DEF Spec, GrantKept, G!Spec
=============================================================================
