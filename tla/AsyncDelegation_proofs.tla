------------------------ MODULE AsyncDelegation_proofs ------------------------
(***************************************************************************)
(* The safety of AsyncDelegation, for any number of delegations and        *)
(* conversations, crashes and failing writes.                              *)
(*                                                                         *)
(* What a reader sees of a result, its row, its injections and its         *)
(* acknowledgements, is not inductive by itself.  The invariant adds where *)
(* the worker is whenever the row has a state (Stages), that a dead        *)
(* process holds nothing in memory (Dead), that an event is at one place   *)
(* at a time (OnePlace), that every injection but one is paid for by a cut *)
(* acknowledgement whenever the result may still be injected (Counts), and *)
(* what became of a result at the adapter: it is accounted for while its   *)
(* acknowledgement is due (Accounted), and it belongs to the conversation  *)
(* of the chat unless that changed meanwhile (Tracked).                    *)
(***************************************************************************)
EXTENDS AsyncDelegation, TLAPS

Unseen == {"none", "insert", "run", "persist", "put"}

Stages ==
    \A d \in Delegations :
        /\ parent[d] = None => worker[d] = "none"
        /\ worker[d] \in {"none", "insert"} => row[d] = "none"
        /\ worker[d] \in {"run", "persist"} => row[d] = "running"
        /\ worker[d] = "put" => row[d] # "running"
        /\ worker[d] \in Unseen => injected[d] = 0 /\ d \notin Handed

Dead ==
    ~alive => /\ queue = {} /\ batch = {} /\ inHand = None /\ waiting = {}
              /\ \A d \in Delegations : worker[d] \in {"none", "done"}

OnePlace == queue \cap batch = {} /\ inHand \notin queue \cup batch

Counts ==
    \A d \in Delegations :
        /\ injected[d] <= cut[d] + 1
        /\ d \in queue \cup batch => injected[d] <= cut[d]
        /\ row[d] = "pending" /\ inHand # d => injected[d] <= cut[d]
        /\ inHand = d => injected[d] > 0

Accounted ==
    \A d \in Delegations :
        inHand = d => entered[d] # {} \/ d \in waiting \cup missed

Tracked ==
    \A d \in Delegations :
        /\ entered[d] # {} \/ d \in waiting => injected[d] > 0
        /\ d \in waiting => current = parent[d] \/ d \in strayed

Inv == /\ TypeOK /\ Stages /\ DurableFirst /\ Dead /\ OnePlace /\ Counts
       /\ AckHonest /\ Accounted /\ Tracked /\ OwnConversation

LEMMA TouchType ==
    ASSUME TypeOK, NEW d \in Delegations
    PROVE  Touch(d) \in [Delegations -> SUBSET Delegations]
  BY DEF TypeOK, Touch

LEMMA ExcessType == ASSUME TypeOK PROVE Excess \in 0..Len(finished)
  BY DelegationAssumption DEF TypeOK, Excess

LEMMA InitInv == Init => Inv
  BY DelegationAssumption
    DEF Init, Inv, TypeOK, Stages, DurableFirst, Dead, OnePlace, Counts,
          AckHonest, Accounted, Tracked, OwnConversation, Unseen, Handed

(* The new delegation has no row and no event. *)
LEMMA DispatchStep ==
    ASSUME Inv, NEW d \in Delegations, Dispatch(d) PROVE Inv'
  <1>1. TypeOK'
    BY DEF Inv, TypeOK, Set, Dispatch, chat, disk, bounds
  <1>2. Stages'
    BY DelegationAssumption
      DEF Inv, TypeOK, Stages, Set, Unseen, Handed, Dispatch, chat, disk, bounds
  <1>3. DurableFirst'
    BY DEF Inv, TypeOK, DurableFirst, Set, Unseen, Handed, Dispatch, chat, disk
  <1>4. Dead'
    BY DEF Inv, Dead, Dispatch, chat
  <1>5. OnePlace'
    BY DEF Inv, OnePlace, Dispatch, chat
  <1>6. Counts'
    BY DEF Inv, Counts, Dispatch, chat, disk
  <1>7. AckHonest'
    BY DEF Inv, AckHonest, Dispatch, chat, disk
  <1>8. Accounted'
    BY DEF Inv, Accounted, Dispatch, chat
  <1>9. Tracked'
    BY DEF Inv, TypeOK, Stages, Unseen, Set, Tracked, Dispatch, chat
  <1>10. OwnConversation'
    <2>1. entered[d] = {}
      <3>1. injected[d] = 0
        BY DEF Inv, Stages, Unseen, Dispatch
      <3> QED BY <3>1 DEF Inv, Tracked
    <2> QED BY <2>1 DEF Inv, TypeOK, OwnConversation, Dispatch, Set, chat
  <1> QED BY <1>1, <1>2, <1>3, <1>4, <1>5, <1>6, <1>7, <1>8, <1>9, <1>10 DEF Inv

(* Only completed rows are retired: the rows of running workers stay. *)
LEMMA PersistDispatchStep ==
    ASSUME Inv, NEW d \in Delegations, PersistDispatch(d) PROVE Inv'
  <1>1. /\ worker[d] = "insert"
        /\ UNCHANGED <<alive, connected, current, parent, finished, queue, batch,
                       inHand, chat, injected, cut, crashes, commands>>
    BY DEF PersistDispatch, chat
  <1>2. /\ row' \in [Delegations -> {"none", "running", "pending", "delivered"}]
        /\ \A e \in Delegations \ {d} :
              \/ row'[e] = row[e]
              \/ row[e] \in {"pending", "delivered"} /\ row'[e] = "none"
        /\ row'[d] \in {"running", row[d]}
    <2>1. CASE row' = [e \in Delegations |-> IF e = d THEN "running"
                                         ELSE IF e \in Retired THEN "none"
                                         ELSE row[e]]
      BY <2>1 DEF Inv, TypeOK, Retired, Completed
    <2>2. CASE row' = row
      BY <2>2 DEF Inv, TypeOK
    <2> QED BY <2>1, <2>2 DEF PersistDispatch, chat, disk
  <1>3. /\ worker' \in {Set(worker, d, "run"), Set(worker, d, "done")}
        /\ worker'[d] = "run" => row'[d] = "running"
    <2>1. row' = [e \in Delegations |-> IF e = d THEN "running"
                                     ELSE IF e \in Retired THEN "none"
                                     ELSE row[e]]
          => row'[d] = "running"
      OBVIOUS
    <2>2. Set(worker, d, "done")[d] = "done"
      BY DEF Set, Inv, TypeOK
    <2> QED BY <2>1, <2>2 DEF PersistDispatch, chat
  <1>4. record' \in {record, Set(record, d, "none")} /\ newer' \in {newer, Touch(d)}
        /\ (faults' = faults \/ Fault)
    BY DEF PersistDispatch, chat, disk
  <1>5. TypeOK'
    <2>1. worker' \in [Delegations ->
            {"none", "insert", "run", "persist", "put", "note", "done"}]
      BY <1>3 DEF Inv, TypeOK, Set
    <2>2. record' \in [Delegations -> {"none", "running", "finalizing", "done"}]
      BY <1>4 DEF Inv, TypeOK, Set
    <2>3. newer' \in [Delegations -> SUBSET Delegations]
      BY <1>4, TouchType DEF Inv, TypeOK
    <2>4. faults' \in 0..MaxFaults
      BY <1>4, DelegationAssumption DEF Inv, TypeOK, Fault
    <2> QED BY <1>1, <1>2, <2>1, <2>2, <2>3, <2>4 DEF Inv, TypeOK, chat
  <1>6. /\ worker'[d] \in {"run", "done"}
        /\ \A e \in Delegations \ {d} : worker'[e] = worker[e]
    BY <1>3 DEF Inv, TypeOK, Set
  <1>7. Stages'
    <2>1. row[d] = "none" /\ injected[d] = 0 /\ d \notin Handed /\ Handed' = Handed
      BY <1>1 DEF Inv, Stages, Unseen, Handed, chat
    <2>2. \A e \in Delegations \ {d} :
             /\ worker[e] \in {"run", "persist"} => row'[e] = "running"
             /\ worker[e] \in {"none", "insert"} => row'[e] = "none"
             /\ worker[e] = "put" => row'[e] # "running"
      BY <1>2 DEF Inv, Stages
    <2>3. worker'[d] = "run" => row'[d] = "running"
      BY <1>3
    <2> QED BY <1>1, <1>6, <2>1, <2>2, <2>3 DEF Inv, Stages, Unseen
  <1>8. DurableFirst'
    <2>1. d \notin Handed /\ Handed' = Handed /\ Handed \subseteq Delegations
      BY <1>1 DEF Inv, TypeOK, Stages, Unseen, Handed, chat
    <2> QED BY <1>2, <2>1 DEF Inv, DurableFirst
  <1>9. Dead' /\ OnePlace'
    BY <1>1 DEF PersistDispatch, chat, Inv, Dead, OnePlace
  <1>10. Counts'
    BY <1>1, <1>2 DEF Inv, TypeOK, Counts, Stages
  <1>11. AckHonest'
    BY <1>1, <1>2 DEF Inv, TypeOK, AckHonest, Stages, chat
  <1>12. Accounted'
    BY DEF Inv, Accounted, PersistDispatch, chat
  <1>13. Tracked'
    BY DEF Inv, Tracked, PersistDispatch, chat
  <1>14. OwnConversation'
    BY DEF Inv, OwnConversation, PersistDispatch, chat
  <1> QED BY <1>5, <1>7, <1>8, <1>9, <1>10, <1>11, <1>12, <1>13, <1>14 DEF Inv

LEMMA FinalizeStep ==
    ASSUME Inv, NEW d \in Delegations, Finalize(d) PROVE Inv'
  <1>1. TypeOK'
    BY DEF Inv, TypeOK, Set, Finalize, chat, disk, bounds
  <1>2. Stages'
    BY DEF Inv, Stages, Set, Unseen, Handed, Finalize, chat, disk, bounds
  <1>3. DurableFirst'
    BY DEF Inv, DurableFirst, Set, Unseen, Handed, Finalize, chat, disk
  <1>4. Dead'
    BY DEF Inv, Dead, Finalize, chat
  <1>5. OnePlace'
    BY DEF Inv, OnePlace, Finalize, chat
  <1>6. Counts'
    BY DEF Inv, Counts, Finalize, chat, disk
  <1>7. AckHonest'
    BY DEF Inv, AckHonest, Finalize, chat, disk
  <1>8. Accounted'
    BY DEF Inv, Accounted, Finalize, chat
  <1>9. Tracked'
    BY DEF Inv, Tracked, Finalize, chat
  <1>10. OwnConversation'
    BY DEF Inv, OwnConversation, Finalize, chat
  <1> QED BY <1>1, <1>2, <1>3, <1>4, <1>5, <1>6, <1>7, <1>8, <1>9, <1>10 DEF Inv

(* The row that becomes pending was never injected. *)
LEMMA PersistCompletionStep ==
    ASSUME Inv, NEW d \in Delegations, PersistCompletion(d) PROVE Inv'
  <1>1. /\ alive /\ worker[d] = "persist"
        /\ UNCHANGED <<alive, connected, current, parent, record, finished, queue,
                       batch, inHand, chat, injected, cut, crashes, commands>>
    BY DEF PersistCompletion, chat
  <1>2. \/ /\ worker' = Set(worker, d, "put") /\ row' = Set(row, d, "pending")
           /\ newer' = Touch(d) /\ faults' = faults
        \/ /\ worker' = Set(worker, d, "done") /\ row' = row
           /\ newer' = newer /\ Fault
    BY DEF PersistCompletion, chat, disk
  <1>3. /\ row[d] = "running" /\ injected[d] = 0
        /\ d \notin Handed /\ Handed' = Handed /\ Handed \subseteq Delegations
    BY <1>1 DEF Inv, TypeOK, Stages, Unseen, Handed, chat
  <1>4. TypeOK'
    <2>1. row' \in [Delegations -> {"none", "running", "pending", "delivered"}]
      BY <1>2 DEF Inv, TypeOK, Set
    <2>2. worker' \in [Delegations ->
            {"none", "insert", "run", "persist", "put", "note", "done"}]
      BY <1>2 DEF Inv, TypeOK, Set
    <2>3. newer' \in [Delegations -> SUBSET Delegations]
      BY <1>2, TouchType DEF Inv, TypeOK
    <2>4. faults' \in 0..MaxFaults
      BY <1>2, DelegationAssumption DEF Inv, TypeOK, Fault
    <2> QED BY <1>1, <2>1, <2>2, <2>3, <2>4 DEF Inv, TypeOK, chat
  <1>5. /\ \/ worker'[d] = "put" /\ row'[d] = "pending"
           \/ worker'[d] = "done" /\ row'[d] = "running"
        /\ \A e \in Delegations \ {d} : worker'[e] = worker[e] /\ row'[e] = row[e]
    BY <1>2, <1>3 DEF Inv, TypeOK, Set
  <1>6. Stages'
    BY <1>1, <1>3, <1>5 DEF Inv, Stages, Unseen
  <1>7. DurableFirst'
    BY <1>3, <1>5 DEF Inv, DurableFirst
  <1>8. Dead' /\ OnePlace'
    BY <1>1 DEF Inv, Dead, OnePlace
  <1>9. Counts'
    BY <1>1, <1>3, <1>5 DEF Inv, TypeOK, Counts
  <1>10. AckHonest'
    BY <1>1, <1>5 DEF Inv, AckHonest, chat
  <1>11. Accounted'
    BY DEF Inv, Accounted, PersistCompletion, chat
  <1>12. Tracked'
    BY DEF Inv, Tracked, PersistCompletion, chat
  <1>13. OwnConversation'
    BY DEF Inv, OwnConversation, PersistCompletion, chat
  <1> QED BY <1>4, <1>6, <1>7, <1>8, <1>9, <1>10, <1>11, <1>12, <1>13 DEF Inv

(* The worker publishes once, after the row. *)
LEMMA PublishStep ==
    ASSUME Inv, NEW d \in Delegations, Publish(d) PROVE Inv'
  <1>1. TypeOK'
    BY DEF Inv, TypeOK, Set, Publish, chat, disk, bounds
  <1>2. Stages'
    BY DEF Inv, TypeOK, Stages, Set, Unseen, Handed, Publish, chat, disk, bounds
  <1>3. DurableFirst'
    BY
      DEF Inv, TypeOK, Stages, DurableFirst, Set, Unseen, Handed, Publish, chat,
            disk
  <1>4. Dead'
    BY DEF Inv, Stages, Dead, Publish, chat
  <1>5. OnePlace'
    BY DEF Inv, Stages, OnePlace, Counts, Unseen, Handed, Publish, chat
  <1>6. Counts'
    BY DEF Inv, TypeOK, Stages, Counts, Unseen, Publish, chat, disk
  <1>7. AckHonest'
    BY DEF Inv, TypeOK, Stages, AckHonest, Publish, chat, disk
  <1>8. Accounted'
    BY DEF Inv, Accounted, Publish, chat
  <1>9. Tracked'
    BY DEF Inv, Tracked, Publish, chat
  <1>10. OwnConversation'
    BY DEF Inv, OwnConversation, Publish, chat
  <1> QED BY <1>1, <1>2, <1>3, <1>4, <1>5, <1>6, <1>7, <1>8, <1>9, <1>10 DEF Inv

LEMMA SettleStep ==
    ASSUME Inv, NEW d \in Delegations, Settle(d) PROVE Inv'
  <1>1. TypeOK'
    <2>1. alive' \in BOOLEAN /\ connected' \in BOOLEAN /\ current' \in Conversations
      BY DEF Inv, TypeOK, Settle, chat
    <2>2. parent' \in [Delegations -> Conversations \cup {None}]
      BY DEF Inv, TypeOK, Settle, chat
    <2>3. record' \in [Delegations -> {"none", "running", "finalizing", "done"}]
      BY DEF Inv, TypeOK, Settle, chat
    <2>4. finished' \in Seq(Delegations)
      BY ExcessType DEF Inv, TypeOK, Settle, chat
    <2>5. worker' \in [Delegations ->
           {"none", "insert", "run", "persist", "put", "note", "done"}]
      BY DEF Inv, TypeOK, Set, Settle, chat
    <2>6. row' \in [Delegations -> {"none", "running", "pending", "delivered"}]
      BY DEF Inv, TypeOK, Set, Settle, chat
    <2>7. newer' \in [Delegations -> SUBSET Delegations]
      BY TouchType DEF Inv, TypeOK, Settle, chat
    <2>8. queue' \subseteq Delegations /\ batch' \subseteq Delegations
      BY DEF Inv, TypeOK, Settle, chat
    <2>9. inHand' \in Delegations \cup {None}
      BY DEF Inv, TypeOK, Settle, chat
    <2>10. injected' \in [Delegations -> Nat] /\ cut' \in [Delegations -> Nat]
      BY DEF Inv, TypeOK, Settle, chat
    <2>11. crashes' \in 0..MaxCrashes /\ faults' \in 0..MaxFaults
         /\ commands' \in 0..MaxCommands
      BY DelegationAssumption DEF Inv, TypeOK, Settle, chat, Fault
    <2>12. /\ waiting' \subseteq Delegations /\ missed' \subseteq Delegations
           /\ strayed' \subseteq Delegations
           /\ entered' \in [Delegations -> SUBSET Conversations]
      BY DEF Inv, TypeOK, Settle, chat
    <2> QED BY <2>1, <2>2, <2>3, <2>4, <2>5, <2>6, <2>7, <2>8, <2>9, <2>10,
          <2>11, <2>12 DEF TypeOK
  <1>2. Stages'
    BY DEF Inv, Stages, Set, Unseen, Handed, Settle, chat
  <1>3. DurableFirst'
    BY DEF Inv, DurableFirst, Handed, Settle, chat
  <1>4. Dead'
    BY DEF Inv, Dead, Settle, chat
  <1>5. OnePlace'
    BY DEF Inv, OnePlace, Settle, chat
  <1>6. Counts'
    BY DEF Inv, Counts, Settle, chat
  <1>7. AckHonest'
    BY DEF Inv, AckHonest, Settle, chat
  <1>8. Accounted'
    BY DEF Inv, Accounted, Settle, chat
  <1>9. Tracked'
    BY DEF Inv, Tracked, Settle, chat
  <1>10. OwnConversation'
    BY DEF Inv, OwnConversation, Settle, chat
  <1> QED BY <1>1, <1>2, <1>3, <1>4, <1>5, <1>6, <1>7, <1>8, <1>9, <1>10 DEF Inv

LEMMA DrainStep ==
    ASSUME Inv, Drain PROVE Inv'
  <1>1. TypeOK'
    BY DEF Inv, TypeOK, Drain, chat, disk, bounds
  <1>2. Stages'
    BY DEF Inv, Stages, Handed, Drain, chat, disk, bounds
  <1>3. DurableFirst'
    BY DEF Inv, DurableFirst, Handed, Drain, chat, disk
  <1>4. Dead'
    BY DEF Inv, Dead, Handed, Drain, chat, disk
  <1>5. OnePlace'
    BY DEF Inv, OnePlace, Drain, chat
  <1>6. Counts'
    BY DEF Inv, Counts, Drain, chat, disk
  <1>7. AckHonest'
    BY DEF Inv, AckHonest, Drain, chat, disk
  <1>8. Accounted'
    BY DEF Inv, Accounted, Drain, chat
  <1>9. Tracked'
    BY DEF Inv, Tracked, Drain, chat
  <1>10. OwnConversation'
    BY DEF Inv, OwnConversation, Drain, chat
  <1> QED BY <1>1, <1>2, <1>3, <1>4, <1>5, <1>6, <1>7, <1>8, <1>9, <1>10 DEF Inv

LEMMA SkipStep ==
    ASSUME Inv, NEW d \in Delegations, Skip(d) PROVE Inv'
  <1>1. TypeOK'
    BY DEF Inv, TypeOK, Skip, chat, disk, bounds
  <1>2. Stages'
    BY DEF Inv, Stages, Handed, Skip, chat, disk, bounds
  <1>3. DurableFirst'
    BY DEF Inv, DurableFirst, Handed, Skip, chat, disk
  <1>4. Dead'
    BY DEF Inv, Dead, Handed, Skip, chat, disk
  <1>5. OnePlace'
    BY DEF Inv, OnePlace, Skip, chat
  <1>6. Counts'
    BY DEF Inv, Counts, Skip, chat, disk
  <1>7. AckHonest'
    BY DEF Inv, AckHonest, Skip, chat, disk
  <1>8. Accounted'
    BY DEF Inv, Accounted, Skip, chat
  <1>9. Tracked'
    BY DEF Inv, Tracked, Skip, chat
  <1>10. OwnConversation'
    BY DEF Inv, OwnConversation, Skip, chat
  <1> QED BY <1>1, <1>2, <1>3, <1>4, <1>5, <1>6, <1>7, <1>8, <1>9, <1>10 DEF Inv

(* The event leaves the batch and is nowhere else. *)
LEMMA InjectStep ==
    ASSUME Inv, NEW d \in Delegations, Inject(d) PROVE Inv'
  <1>1. TypeOK'
    <2>1. alive' \in BOOLEAN /\ connected' \in BOOLEAN /\ current' \in Conversations
      BY DEF Inv, TypeOK, Inject, chat
    <2>2. parent' \in [Delegations -> Conversations \cup {None}]
      BY DEF Inv, TypeOK, Inject, chat
    <2>3. record' \in [Delegations -> {"none", "running", "finalizing", "done"}]
      BY DEF Inv, TypeOK, Inject, chat
    <2>4. finished' \in Seq(Delegations)
      BY DEF Inv, TypeOK, Inject, chat
    <2>5. worker' \in [Delegations ->
           {"none", "insert", "run", "persist", "put", "note", "done"}]
      BY DEF Inv, TypeOK, Inject, chat
    <2>6. row' \in [Delegations -> {"none", "running", "pending", "delivered"}]
      BY DEF Inv, TypeOK, Inject, chat, disk
    <2>7. newer' \in [Delegations -> SUBSET Delegations]
      BY DEF Inv, TypeOK, Inject, chat, disk
    <2>8. queue' \subseteq Delegations /\ batch' \subseteq Delegations
      BY DEF Inv, TypeOK, Inject, chat, disk
    <2>9. inHand' \in Delegations \cup {None}
      BY DEF Inv, TypeOK, Inject, chat
    <2>10. injected' \in [Delegations -> Nat] /\ cut' \in [Delegations -> Nat]
      BY DEF Inv, TypeOK, Set, Inject, chat
    <2>11. crashes' \in 0..MaxCrashes /\ faults' \in 0..MaxFaults
         /\ commands' \in 0..MaxCommands
      BY DEF Inv, TypeOK, Set, Inject, chat, bounds
    <2>12. /\ waiting' \subseteq Delegations /\ missed' \subseteq Delegations
           /\ strayed' \subseteq Delegations
           /\ entered' \in [Delegations -> SUBSET Conversations]
      BY DEF Inv, TypeOK, Inject, chat
    <2> QED BY <2>1, <2>2, <2>3, <2>4, <2>5, <2>6, <2>7, <2>8, <2>9, <2>10,
          <2>11, <2>12 DEF TypeOK
  <1>2. Stages'
    BY DEF Inv, Stages, Set, Handed, Inject, chat, disk
  <1>3. DurableFirst'
    BY DEF Inv, DurableFirst, Set, Handed, Inject, chat, disk
  <1>4. Dead'
    BY DEF Inv, Dead, Handed, Inject, chat, disk
  <1>5. OnePlace'
    BY DEF Inv, OnePlace, Inject, chat
  <1>6. Counts'
    BY DelegationAssumption
      DEF Inv, TypeOK, Stages, DurableFirst, Dead, OnePlace, Counts,
            AckHonest, Set, Unseen, Handed, Inject, chat, memory, disk, bounds
  <1>7. AckHonest'
    BY DEF Inv, TypeOK, AckHonest, Set, Inject, chat, disk
  <1>8. Accounted'
    BY DEF Inv, Accounted, Inject, chat
  <1>9. Tracked'
    BY DEF Inv, TypeOK, Stages, Unseen, Set, Tracked, Inject, Owned, chat
  <1>10. OwnConversation'
    BY DEF Inv, OwnConversation, Inject, chat
  <1> QED BY <1>1, <1>2, <1>3, <1>4, <1>5, <1>6, <1>7, <1>8, <1>9, <1>10 DEF Inv

LEMMA AcknowledgeStep ==
    ASSUME Inv, Acknowledge PROVE Inv'
  <1>1. TypeOK'
    <2>1. alive' \in BOOLEAN /\ connected' \in BOOLEAN /\ current' \in Conversations
      BY DEF Inv, TypeOK, Acknowledge, chat
    <2>2. parent' \in [Delegations -> Conversations \cup {None}]
      BY DEF Inv, TypeOK, Acknowledge, chat
    <2>3. record' \in [Delegations -> {"none", "running", "finalizing", "done"}]
      BY DEF Inv, TypeOK, Acknowledge, chat
    <2>4. finished' \in Seq(Delegations)
      BY DEF Inv, TypeOK, Acknowledge, chat
    <2>5. worker' \in [Delegations ->
           {"none", "insert", "run", "persist", "put", "note", "done"}]
      BY DEF Inv, TypeOK, Acknowledge, chat
    <2>6. row' \in [Delegations -> {"none", "running", "pending", "delivered"}]
      BY DelegationAssumption
        DEF Inv, TypeOK, Set, Acknowledge, chat, Fault, memory, disk, bounds
    <2>7. newer' \in [Delegations -> SUBSET Delegations]
      BY DelegationAssumption
        DEF Inv, TypeOK, Set, Acknowledge, chat, Fault, Touch, memory, disk, bounds
    <2>8. queue' \subseteq Delegations /\ batch' \subseteq Delegations
      BY DelegationAssumption
        DEF Inv, TypeOK, Set, Acknowledge, chat, Fault, Touch, memory, disk, bounds
    <2>9. inHand' \in Delegations \cup {None}
      BY DEF Inv, TypeOK, Acknowledge, chat
    <2>10. injected' \in [Delegations -> Nat] /\ cut' \in [Delegations -> Nat]
      BY DEF Inv, TypeOK, Set, Acknowledge, chat, disk
    <2>11. crashes' \in 0..MaxCrashes /\ faults' \in 0..MaxFaults
         /\ commands' \in 0..MaxCommands
      BY DelegationAssumption DEF Inv, TypeOK, Set, Acknowledge, chat, Fault, disk
    <2>12. /\ waiting' \subseteq Delegations /\ missed' \subseteq Delegations
           /\ strayed' \subseteq Delegations
           /\ entered' \in [Delegations -> SUBSET Conversations]
      BY DEF Inv, TypeOK, Acknowledge, chat
    <2> QED BY <2>1, <2>2, <2>3, <2>4, <2>5, <2>6, <2>7, <2>8, <2>9, <2>10,
          <2>11, <2>12 DEF TypeOK
  <1>2. Stages'
    BY DEF Inv, TypeOK, Stages, Set, Handed, Acknowledge, chat, disk
  <1>3. DurableFirst'
    BY DEF Inv, TypeOK, DurableFirst, Set, Handed, Acknowledge, chat, disk
  <1>4. Dead'
    BY DEF Inv, TypeOK, Dead, Acknowledge, chat
  <1>5. OnePlace'
    BY DelegationAssumption DEF Inv, TypeOK, OnePlace, Acknowledge, chat
  <1>6. Counts'
    BY DelegationAssumption
      DEF Inv, TypeOK, Stages, DurableFirst, Dead, OnePlace, Counts,
            AckHonest, Set, Unseen, Handed, Acknowledge, chat, Fault, Touch, memory,
            disk, bounds
  <1>7. AckHonest'
    BY DEF Inv, TypeOK, Accounted, Counts, AckHonest, Set, Acknowledge, chat, disk
  <1>8. Accounted'
    BY DelegationAssumption DEF Inv, Accounted, Acknowledge, chat
  <1>9. Tracked'
    BY DEF Inv, Tracked, Acknowledge, chat
  <1>10. OwnConversation'
    BY DEF Inv, OwnConversation, Acknowledge, chat
  <1> QED BY <1>1, <1>2, <1>3, <1>4, <1>5, <1>6, <1>7, <1>8, <1>9, <1>10 DEF Inv

(* An injection without its acknowledgement is counted as cut. *)
LEMMA CrashStep ==
    ASSUME Inv, Crash PROVE Inv'
  <1>1. TypeOK'
    <2>1. alive' \in BOOLEAN /\ connected' \in BOOLEAN /\ current' \in Conversations
      BY DEF Inv, TypeOK, Crash, chat
    <2>2. parent' \in [Delegations -> Conversations \cup {None}]
      BY DEF Inv, TypeOK, Crash, chat
    <2>3. record' \in [Delegations -> {"none", "running", "finalizing", "done"}]
      BY DEF Inv, TypeOK, Crash, chat
    <2>4. finished' \in Seq(Delegations)
      BY DEF Inv, Crash, chat
    <2>5. worker' \in [Delegations ->
           {"none", "insert", "run", "persist", "put", "note", "done"}]
      BY DEF Inv, Crash, chat
    <2>6. row' \in [Delegations -> {"none", "running", "pending", "delivered"}]
      BY DEF Inv, TypeOK, Crash, chat, disk
    <2>7. newer' \in [Delegations -> SUBSET Delegations]
      BY DEF Inv, TypeOK, Crash, chat, disk
    <2>8. queue' \subseteq Delegations /\ batch' \subseteq Delegations
      BY DEF Inv, TypeOK, Crash, chat, disk
    <2>9. inHand' \in Delegations \cup {None}
      BY DEF Inv, Crash, chat
    <2>10. injected' \in [Delegations -> Nat] /\ cut' \in [Delegations -> Nat]
      BY DEF Inv, TypeOK, Set, Crash, chat
    <2>11. crashes' \in 0..MaxCrashes /\ faults' \in 0..MaxFaults
         /\ commands' \in 0..MaxCommands
      BY DelegationAssumption DEF Inv, TypeOK, Set, Crash, chat
    <2>12. /\ waiting' \subseteq Delegations /\ missed' \subseteq Delegations
           /\ strayed' \subseteq Delegations
           /\ entered' \in [Delegations -> SUBSET Conversations]
      BY DEF Inv, TypeOK, Crash, chat
    <2> QED BY <2>1, <2>2, <2>3, <2>4, <2>5, <2>6, <2>7, <2>8, <2>9, <2>10,
          <2>11, <2>12 DEF TypeOK
  <1>2. Stages'
    BY DEF Inv, Stages, Unseen, Handed, Crash, chat, disk
  <1>3. DurableFirst'
    BY DEF Inv, DurableFirst, Unseen, Handed, Crash, chat, disk
  <1>4. Dead'
    BY DEF Inv, Dead, Crash, chat
  <1>5. OnePlace'
    BY DEF Inv, OnePlace, Crash, chat
  <1>6. Counts'
    BY DelegationAssumption DEF Inv, TypeOK, OnePlace, Counts, Set, Crash, chat, disk
  <1>7. AckHonest'
    BY DEF Inv, TypeOK, AckHonest, Set, Crash, chat, disk
  <1>8. Accounted'
    BY DelegationAssumption DEF Inv, Accounted, Crash, chat, memory
  <1>9. Tracked'
    BY DEF Inv, Tracked, Crash, chat
  <1>10. OwnConversation'
    BY DEF Inv, OwnConversation, Crash, chat
  <1> QED BY <1>1, <1>2, <1>3, <1>4, <1>5, <1>6, <1>7, <1>8, <1>9, <1>10 DEF Inv

(* What is restored is pending, and the memory was empty. *)
LEMMA RestartStep ==
    ASSUME Inv, Restart PROVE Inv'
  <1>1. TypeOK'
    <2>1. alive' \in BOOLEAN /\ connected' \in BOOLEAN /\ current' \in Conversations
      BY DEF Inv, TypeOK, Restart, chat
    <2>2. parent' \in [Delegations -> Conversations \cup {None}]
      BY DEF Inv, TypeOK, Restart, chat
    <2>3. record' \in [Delegations -> {"none", "running", "finalizing", "done"}]
      BY DEF Inv, TypeOK, Restart, chat
    <2>4. finished' \in Seq(Delegations)
      BY DEF Inv, TypeOK, Restart, chat
    <2>5. worker' \in [Delegations ->
           {"none", "insert", "run", "persist", "put", "note", "done"}]
      BY DEF Inv, TypeOK, Restart, chat
    <2>6. row' \in [Delegations -> {"none", "running", "pending", "delivered"}]
      BY DEF Inv, TypeOK, Restart, chat
    <2>7. newer' \in [Delegations -> SUBSET Delegations]
      <3>1. CASE newer' = newer
        BY <3>1 DEF Inv, TypeOK
      <3>2. ASSUME NEW at \in [Pending -> 1..Cardinality(Pending)],
                   newer' = [d \in Delegations |->
                      IF d \in Pending THEN {e \in Pending : at[e] > at[d]}
                      ELSE newer[d] \cup Pending]
            PROVE  newer' \in [Delegations -> SUBSET Delegations]
        <4>1. Pending \subseteq Delegations
          BY DEF Pending
        <4> QED BY <3>2, <4>1 DEF Inv, TypeOK
      <3> QED BY <3>1, <3>2 DEF Restart, chat
    <2>8. queue' \subseteq Delegations /\ batch' \subseteq Delegations
      BY DEF Inv, TypeOK, Restart, chat, Pending
    <2>9. inHand' \in Delegations \cup {None}
      BY DEF Inv, TypeOK, Restart, chat, Pending
    <2>10. injected' \in [Delegations -> Nat] /\ cut' \in [Delegations -> Nat]
      BY DEF Inv, TypeOK, Restart, chat
    <2>11. crashes' \in 0..MaxCrashes /\ faults' \in 0..MaxFaults
         /\ commands' \in 0..MaxCommands
      BY DelegationAssumption DEF Inv, TypeOK, Restart, chat, Fault
    <2>12. /\ waiting' \subseteq Delegations /\ missed' \subseteq Delegations
           /\ strayed' \subseteq Delegations
           /\ entered' \in [Delegations -> SUBSET Conversations]
      BY DEF Inv, TypeOK, Restart, chat
    <2> QED BY <2>1, <2>2, <2>3, <2>4, <2>5, <2>6, <2>7, <2>8, <2>9, <2>10,
          <2>11, <2>12 DEF TypeOK
  <1>2. Stages'
    BY DEF Inv, Stages, Dead, Unseen, Handed, Restart, chat, Pending
  <1>3. DurableFirst'
    BY DEF Inv, DurableFirst, Handed, Restart, chat, Pending
  <1>4. Dead'
    BY DEF Inv, Dead, Restart, chat, Pending
  <1>5. OnePlace'
    BY DelegationAssumption DEF Inv, Dead, OnePlace, Restart, chat, Pending
  <1>6. Counts'
    BY DelegationAssumption DEF Inv, Dead, Counts, Restart, chat, Pending
  <1>7. AckHonest'
    BY DEF Inv, AckHonest, Restart, chat, Pending
  <1>8. Accounted'
    BY DEF Inv, Accounted, Restart, chat, memory
  <1>9. Tracked'
    BY DEF Inv, Tracked, Restart, chat
  <1>10. OwnConversation'
    BY DEF Inv, OwnConversation, Restart, chat
  <1> QED BY <1>1, <1>2, <1>3, <1>4, <1>5, <1>6, <1>7, <1>8, <1>9, <1>10 DEF Inv

LEMMA DisconnectStep ==
    ASSUME Inv, Disconnect PROVE Inv'
  <1>1. TypeOK'
    BY DEF Inv, TypeOK, Disconnect, chat, memory, disk, bounds
  <1>2. Stages'
    BY DEF Inv, Stages, Handed, Disconnect, chat, memory, disk, bounds
  <1>3. DurableFirst'
    BY DEF Inv, DurableFirst, Handed, Disconnect, chat, memory, disk
  <1>4. Dead'
    BY DEF Inv, Dead, Disconnect, chat, memory
  <1>5. OnePlace'
    BY DEF Inv, OnePlace, Disconnect, chat, memory
  <1>6. Counts'
    BY DEF Inv, Counts, Disconnect, chat, memory, disk
  <1>7. AckHonest'
    BY DEF Inv, AckHonest, Disconnect, chat, memory, disk
  <1>8. Accounted'
    BY DEF Inv, Accounted, Disconnect, chat, memory
  <1>9. Tracked'
    BY DEF Inv, Tracked, Disconnect, chat
  <1>10. OwnConversation'
    BY DEF Inv, OwnConversation, Disconnect, chat
  <1> QED BY <1>1, <1>2, <1>3, <1>4, <1>5, <1>6, <1>7, <1>8, <1>9, <1>10 DEF Inv

LEMMA ConnectStep ==
    ASSUME Inv, Connect PROVE Inv'
  <1>1. TypeOK'
    BY DEF Inv, TypeOK, Connect, chat, memory, disk, bounds
  <1>2. Stages'
    BY DEF Inv, Stages, Handed, Connect, chat, memory, disk, bounds
  <1>3. DurableFirst'
    BY DEF Inv, DurableFirst, Handed, Connect, chat, memory, disk
  <1>4. Dead'
    BY DEF Inv, Dead, Connect, chat, memory, disk
  <1>5. OnePlace'
    BY DEF Inv, OnePlace, Connect, chat, memory
  <1>6. Counts'
    BY DEF Inv, Counts, Connect, chat, memory, disk
  <1>7. AckHonest'
    BY DEF Inv, AckHonest, Connect, chat, memory, disk
  <1>8. Accounted'
    BY DEF Inv, Accounted, Connect, chat, memory
  <1>9. Tracked'
    BY DEF Inv, Tracked, Connect, chat
  <1>10. OwnConversation'
    BY DEF Inv, OwnConversation, Connect, chat
  <1> QED BY <1>1, <1>2, <1>3, <1>4, <1>5, <1>6, <1>7, <1>8, <1>9, <1>10 DEF Inv

LEMMA InjectFailsStep ==
    ASSUME Inv, NEW d \in Delegations, InjectFails(d) PROVE Inv'
  <1>1. TypeOK'
    BY DelegationAssumption DEF Inv, TypeOK, InjectFails, Fault, chat, disk
  <1>2. Stages' /\ DurableFirst'
    BY DEF Inv, Stages, DurableFirst, Handed, InjectFails, chat, disk
  <1>3. Dead' /\ OnePlace'
    BY DEF Inv, Dead, OnePlace, InjectFails, chat
  <1>4. Counts' /\ AckHonest' /\ Accounted'
    BY DEF Inv, Counts, AckHonest, Accounted, InjectFails, chat, disk
  <1>5. Tracked' /\ OwnConversation'
    BY DEF Inv, Tracked, OwnConversation, InjectFails, chat
  <1> QED BY <1>1, <1>2, <1>3, <1>4, <1>5 DEF Inv

(* What enters was handed over; it was at the adapter if the session is renewed. *)
LEMMA EnterStep ==
    ASSUME Inv, NEW S \in SUBSET Delegations, Enter(S) PROVE Inv'
  <1>1. /\ alive /\ S \subseteq waiting /\ waiting' = waiting \ S
        /\ UNCHANGED <<alive, connected, parent, memory, disk, missed, injected, cut,
                       crashes, faults>>
    BY DEF Enter
  <1>2. /\ current' \in Conversations /\ commands' \in 0..MaxCommands
        /\ strayed' \in {strayed, strayed \cup waiting}
        /\ current' # current => strayed' = strayed \cup waiting
    BY DelegationAssumption DEF Inv, TypeOK, Enter, Command, Fresh
  <1>3. \A d \in Delegations :
           entered'[d] = IF d \in S THEN entered[d] \cup {current'} ELSE entered[d]
    BY DEF Enter
  <1>4. TypeOK'
    <2>1. entered' \in [Delegations -> SUBSET Conversations]
      BY <1>2 DEF Inv, TypeOK, Enter
    <2> QED BY <1>1, <1>2, <2>1 DEF Inv, TypeOK, memory, disk
  <1>5. Stages' /\ DurableFirst'
    BY <1>1 DEF Inv, Stages, DurableFirst, Handed, memory, disk
  <1>6. Dead' /\ OnePlace' /\ Counts'
    BY <1>1 DEF Inv, Dead, OnePlace, Counts, memory, disk
  <1>7. AckHonest' /\ Accounted'
    <2>1. \A d \in Delegations : entered[d] # {} \/ d \in waiting \cup missed
                               => entered'[d] # {} \/ d \in waiting' \cup missed'
      BY <1>1, <1>3
    <2> QED BY <1>1, <2>1 DEF Inv, AckHonest, Accounted, memory, disk
  <1>8. Tracked'
    BY <1>1, <1>2, <1>3 DEF Inv, Tracked
  <1>9. OwnConversation'
    <2> SUFFICES ASSUME NEW d \in Delegations
                 PROVE  entered'[d] \subseteq {parent[d]} \/ d \in strayed'
      BY <1>1 DEF OwnConversation
    <2>1. CASE d \in S /\ current' = current
      BY <1>1, <1>2, <1>3, <2>1 DEF Inv, OwnConversation, Tracked
    <2>2. CASE d \in S /\ current' # current
      BY <1>1, <1>2, <2>2
    <2>3. CASE d \notin S
      BY <1>2, <1>3, <2>3 DEF Inv, OwnConversation
    <2> QED BY <2>1, <2>2, <2>3
  <1> QED BY <1>4, <1>5, <1>6, <1>7, <1>8, <1>9 DEF Inv

LEMMA DiscardStep ==
    ASSUME Inv, NEW S \in SUBSET Delegations, Discard(S) PROVE Inv'
  <1>1. TypeOK'
    <2>1. commands' \in 0..MaxCommands
      BY DelegationAssumption DEF Inv, TypeOK, Discard, Command
    <2>2. waiting' \subseteq Delegations /\ missed' \subseteq Delegations
      BY DEF Inv, TypeOK, Discard
    <2> QED BY <2>1, <2>2 DEF Inv, TypeOK, Discard, memory, disk
  <1>2. Stages' /\ DurableFirst'
    BY DEF Inv, Stages, DurableFirst, Handed, Discard, memory, disk
  <1>3. Dead' /\ OnePlace' /\ Counts'
    BY DEF Inv, Dead, OnePlace, Counts, Discard, memory, disk
  <1>4. AckHonest' /\ Accounted'
    BY DEF Inv, AckHonest, Accounted, Discard, memory, disk
  <1>5. Tracked' /\ OwnConversation'
    BY DEF Inv, Tracked, OwnConversation, Discard
  <1> QED BY <1>1, <1>2, <1>3, <1>4, <1>5 DEF Inv

(* Nothing waits for the new conversation. *)
LEMMA NewStep ==
    ASSUME Inv, NEW c \in Conversations, New(c) PROVE Inv'
  <1>1. TypeOK'
    BY DelegationAssumption DEF Inv, TypeOK, New, Command, memory, disk
  <1>2. Stages' /\ DurableFirst'
    BY DEF Inv, Stages, DurableFirst, Handed, New, memory, disk
  <1>3. Dead' /\ OnePlace' /\ Counts'
    BY DEF Inv, Dead, OnePlace, Counts, New, memory, disk
  <1>4. AckHonest' /\ Accounted'
    BY DEF Inv, AckHonest, Accounted, New, memory, disk
  <1>5. Tracked' /\ OwnConversation'
    BY DEF Inv, Tracked, OwnConversation, New
  <1> QED BY <1>1, <1>2, <1>3, <1>4, <1>5 DEF Inv

LEMMA SwitchStep ==
    ASSUME Inv, NEW c \in Conversations, Switch(c) PROVE Inv'
  <1>1. TypeOK'
    BY DelegationAssumption
      DEF Inv, TypeOK, DurableFirst, Dead, OnePlace, Counts, Unseen, Handed,
            Switch, Command, chat, memory, disk
  <1>2. Stages'
    BY DEF Inv, Stages, Handed, Switch, chat, memory, disk
  <1>3. DurableFirst'
    BY DEF Inv, DurableFirst, Handed, Switch, chat, memory, disk
  <1>4. Dead'
    BY DEF Inv, Dead, Handed, Switch, chat, memory, disk
  <1>5. OnePlace'
    BY DEF Inv, OnePlace, Switch, chat, memory
  <1>6. Counts'
    BY DEF Inv, Counts, Switch, chat, memory, disk
  <1>7. AckHonest'
    BY DEF Inv, AckHonest, Switch, chat, memory, disk
  <1>8. Accounted'
    BY DEF Inv, Accounted, Switch, chat, memory
  <1>9. Tracked'
    BY DEF Inv, Tracked, Switch, chat
  <1>10. OwnConversation'
    BY DEF Inv, OwnConversation, Switch, chat
  <1> QED BY <1>1, <1>2, <1>3, <1>4, <1>5, <1>6, <1>7, <1>8, <1>9, <1>10 DEF Inv

LEMMA StutterStep == Inv /\ UNCHANGED vars => Inv'
  BY
    DEF vars, memory, disk, chat, bounds, Inv, TypeOK, Stages, DurableFirst, Dead,
          OnePlace, Counts, AckHonest, Accounted, Tracked, OwnConversation, Handed

LEMMA InvHolds == Spec => []Inv
  <1>1. Init => Inv
    BY InitInv
  <1>2. Inv /\ [Next]_vars => Inv'
    <2> SUFFICES ASSUME Inv, Next PROVE Inv'
      BY StutterStep
    <2>1. ASSUME NEW d \in Delegations, Dispatch(d) PROVE Inv'
      BY <2>1, DispatchStep
    <2>2. ASSUME NEW d \in Delegations, PersistDispatch(d) PROVE Inv'
      BY <2>2, PersistDispatchStep
    <2>3. ASSUME NEW d \in Delegations, Finalize(d) PROVE Inv'
      BY <2>3, FinalizeStep
    <2>4. ASSUME NEW d \in Delegations, PersistCompletion(d) PROVE Inv'
      BY <2>4, PersistCompletionStep
    <2>5. ASSUME NEW d \in Delegations, Publish(d) PROVE Inv'
      BY <2>5, PublishStep
    <2>6. ASSUME NEW d \in Delegations, Settle(d) PROVE Inv'
      BY <2>6, SettleStep
    <2>7. ASSUME Drain PROVE Inv'
      BY <2>7, DrainStep
    <2>8. ASSUME NEW d \in Delegations, Skip(d) PROVE Inv'
      BY <2>8, SkipStep
    <2>9. ASSUME NEW d \in Delegations, Inject(d) PROVE Inv'
      BY <2>9, InjectStep
    <2>10. ASSUME NEW d \in Delegations, InjectFails(d) PROVE Inv'
      BY <2>10, InjectFailsStep
    <2>11. ASSUME Acknowledge PROVE Inv'
      BY <2>11, AcknowledgeStep
    <2>12. ASSUME NEW S \in SUBSET Delegations, Enter(S) PROVE Inv'
      BY <2>12, EnterStep
    <2>13. ASSUME Crash \/ Restart PROVE Inv'
      BY <2>13, CrashStep, RestartStep
    <2>14. ASSUME Disconnect \/ Connect PROVE Inv'
      BY <2>14, DisconnectStep, ConnectStep
    <2>15. ASSUME NEW S \in SUBSET Delegations, Discard(S) PROVE Inv'
      BY <2>15, DiscardStep
    <2>16. ASSUME NEW c \in Conversations, New(c) \/ Switch(c) PROVE Inv'
      BY <2>16, NewStep, SwitchStep
    <2> QED BY <2>1, <2>2, <2>3, <2>4, <2>5, <2>6, <2>7, <2>8, <2>9, <2>10,
          <2>11, <2>12, <2>13, <2>14, <2>15, <2>16
      DEF Next, WorkerStep, WatcherStep, TurnStep, ChatStep
  <1> QED BY <1>1, <1>2, PTL DEF Spec

(* Every reachable state of the registry, the database and the queue is well
   typed. *)
THEOREM Typing == Spec => []TypeOK
  <1>1. Inv => TypeOK
    BY DEF Inv
  <1> QED BY <1>1, InvHolds, PTL

(* What mark_completion_delivered acknowledges entered a conversation, waits at
   the adapter, or was lost there to a command or a crash: never between the
   database, the queue and the watcher. *)
THEOREM Acknowledged == Spec => []AckHonest
  <1>1. Inv => AckHonest
    BY DEF Inv
  <1> QED BY <1>1, InvHolds, PTL

(* The database has a result before the queue, the watcher or the chat has it,
   whatever dies or fails in between. *)
THEOREM Durable == Spec => []DurableFirst
  <1>1. Inv => DurableFirst
    BY DEF Inv
  <1> QED BY <1>1, InvHolds, PTL

(* A result is injected once more than its acknowledgement was cut off, at
   most: crashes and failing writes are the only source of repeats. *)
THEOREM Repeats == Spec => []RepeatsExplained
  <1>1. Inv => RepeatsExplained
    BY DEF Inv, Counts, RepeatsExplained
  <1> QED BY <1>1, InvHolds, PTL

(* The check of the watcher, the /new that empties the slot and the look-up of
   the turn together keep a result out of a conversation that did not ask for
   it, unless the conversation changed behind the back of a result that waited:
   by /resume, by a /new that found no run, or as the session was renewed. *)
THEOREM Ownership == Spec => []OwnConversation
  <1>1. Inv => OwnConversation
    BY DEF Inv
  <1> QED BY <1>1, InvHolds, PTL

(* Where a result that was persisted and not acknowledged is to be found: in
   the chat already, or at the adapter, or lost there, in a process that died and
   will restore it, with the worker that is to publish it, or on its way to the
   watcher. *)
Routed(d) == \/ entered[d] # {} \/ d \in waiting \cup missed \/ ~alive
             \/ worker[d] = "put" \/ d \in queue \cup batch

LEMMA RoutedStep ==
    ASSUME Inv, Inv', NEW d \in Delegations, Steady(d), Steady(d)', [Next]_vars,
           row[d] = "pending" => Routed(d)
    PROVE  row'[d] = "pending" => Routed(d)'
  <1>0. /\ TypeOK /\ DOMAIN worker = Delegations /\ DOMAIN row = Delegations
        /\ faults = 0 /\ faults' = 0
    BY DEF Inv, TypeOK, Steady
  <1>1. ASSUME NEW e \in Delegations, WorkerStep(e) \/ Dispatch(e)
        PROVE  row'[d] = "pending" => Routed(d)'
    <2>1. CASE Dispatch(e)
      BY <1>0, <2>1 DEF Dispatch, Routed, chat, Set, disk, Inv, Stages
    <2>2. CASE PersistDispatch(e)
      BY <1>0, <2>2 DEF PersistDispatch, Routed, chat, Set, Inv, Stages, Fault, disk
    <2>3. CASE Finalize(e)
      BY <1>0, <2>3 DEF Finalize, Routed, chat, Set, disk, Inv, Stages
    <2>4. CASE PersistCompletion(e)
      BY <1>0, <2>4 DEF PersistCompletion, Routed, chat, Set, Fault
    <2>5. CASE Publish(e)
      BY <1>0, <2>5 DEF Publish, Routed, chat, Set, disk
    <2>6. CASE Settle(e)
      BY <1>0, <2>6 DEF Settle, Routed, chat, Set
    <2> QED BY <1>1, <2>1, <2>2, <2>3, <2>4, <2>5, <2>6 DEF WorkerStep
  <1>2. CASE Drain
    BY <1>2 DEF Drain, Routed, chat, disk
  <1>3. ASSUME NEW e \in Delegations, Skip(e)
        PROVE  row'[d] = "pending" => Routed(d)'
    <2>1. e # d
      <3>1. d \in batch => parent[d] # None
        BY DEF Inv, Stages, Unseen, Handed
      <3> QED BY <1>3, <3>1 DEF Skip, Owned, Steady
    <2> QED BY <1>3, <2>1 DEF Skip, Routed, chat, disk
  <1>4. ASSUME NEW e \in Delegations, Inject(e)
        PROVE  row'[d] = "pending" => Routed(d)'
    BY <1>4 DEF Inject, Routed, disk
  <1>5. ASSUME NEW e \in Delegations, InjectFails(e)
        PROVE  row'[d] = "pending" => Routed(d)'
    BY <1>0, <1>5 DEF InjectFails, Fault
  <1>6. ASSUME NEW S \in SUBSET Delegations, Enter(S)
        PROVE  row'[d] = "pending" => Routed(d)'
    BY <1>6 DEF Enter, Routed, memory, disk
  <1>7. CASE Acknowledge
    BY <1>0, <1>7 DEF Acknowledge, Routed, chat, Set, Fault, disk
  <1>8. CASE Crash
    BY <1>8 DEF Crash, Routed, chat
  <1>9. CASE Restart
    BY <1>0, <1>9 DEF Restart, Routed, chat, Pending, Fault
  <1>10. CASE ChatStep \/ UNCHANGED vars
    BY <1>10
      DEF ChatStep, Disconnect, Connect, Discard, New, Switch, Routed, vars,
          chat, memory, disk
  <1> QED BY <1>1, <1>2, <1>3, <1>4, <1>5, <1>6, <1>7, <1>8, <1>9, <1>10
      DEF Next, WatcherStep, TurnStep

(* While the platform is connected, nothing fails and the chat keeps the
   conversation, no result that was persisted is forgotten between row, worker,
   queue, watcher and adapter, however often the gateway dies; what a command
   discards there, or a crash after the acknowledgement, is missed. *)
THEOREM NothingForgotten ==
    ASSUME NEW d \in Delegations
    PROVE  Spec /\ []Steady(d) => [](row[d] = "pending" => Routed(d))
  <1>1. Init => (row[d] = "pending" => Routed(d))
    BY DEF Init
  <1>2. /\ Inv /\ Inv' /\ Steady(d) /\ Steady(d)' /\ [Next]_vars
        /\ (row[d] = "pending" => Routed(d))
        => (row[d] = "pending" => Routed(d))'
    BY RoutedStep
  <1> QED BY <1>1, <1>2, InvHolds, PTL DEF Spec

(* A slot of max_async_children is held only for a thread that is under way. *)
Held == faults = 0 =>
           \A d \in Delegations : record[d] = "running" => worker[d] \in {"insert", "run"}

LEMMA HeldStep == ASSUME Inv, Inv', Held, [Next]_vars PROVE Held'
  <1>0. /\ faults \in Nat /\ faults' \in Nat
        /\ DOMAIN record = Delegations /\ DOMAIN worker = Delegations
    BY DelegationAssumption DEF Inv, TypeOK
  <1>1. ASSUME NEW e \in Delegations, WorkerStep(e) \/ Dispatch(e) PROVE Held'
    <2>1. CASE Dispatch(e)
      BY <1>0, <2>1 DEF Dispatch, Held, Set, bounds
    <2>2. CASE PersistDispatch(e)
      BY <1>0, <2>2 DEF PersistDispatch, Held, Set, Fault
    <2>3. CASE Finalize(e)
      BY <1>0, <2>3 DEF Finalize, Held, Set, bounds
    <2>4. CASE PersistCompletion(e)
      BY <1>0, <2>4 DEF PersistCompletion, Held, Set, Fault
    <2>5. CASE Publish(e)
      BY <1>0, <2>5 DEF Publish, Held, Set, bounds
    <2>6. CASE Settle(e)
      BY <1>0, <2>6 DEF Settle, Held, Set, Fault
    <2> QED BY <1>1, <2>1, <2>2, <2>3, <2>4, <2>5, <2>6 DEF WorkerStep
  <1>2. CASE WatcherStep
    BY <1>0, <1>2
      DEF WatcherStep, Drain, Skip, Inject, InjectFails, Acknowledge, Held,
          bounds, Fault
  <1>3. CASE Crash \/ Restart
    BY <1>0, <1>3 DEF Crash, Restart, Held, Fault
  <1>4. CASE ChatStep \/ TurnStep \/ UNCHANGED vars
    BY <1>4
      DEF ChatStep, TurnStep, Disconnect, Connect, Enter, Discard, New, Switch,
          Held, vars, memory, bounds
  <1> QED BY <1>1, <1>2, <1>3, <1>4 DEF Next

(* As long as no write to the database failed, no record is left "running"
   without its thread, so that SlotFreed waits for threads only. *)
THEOREM SlotsHeld == Spec => []Held
  <1>1. Init => Held
    BY DEF Init, Held
  <1> QED BY <1>1, HeldStep, InvHolds, PTL DEF Spec
=============================================================================
