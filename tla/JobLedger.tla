------------------------------ MODULE JobLedger ------------------------------
(* What the scheduler promises of the jobs in jobs.json while nobody edits
   it: a recurring job runs at most once per occurrence and in their order, a
   one-shot never again once it was counted, no job beside another run of it
   or beside a sequential job, and a job leaves the file exactly when it was
   counted as often as its limit allows. *)
EXTENDS Naturals, FiniteSets

CONSTANTS Jobs, Times, Sequential, MaxParallel, None

VARIABLES
    file,   \* the jobs in the file
    once,   \* those of them that have a single occurrence
    limit,  \* per job in the file: its repeat limit, if it has one
    count,  \* how often it was counted
    last,   \* the occurrence its last run started for
    busy    \* the jobs that run

jobs == <<file, once, limit>>
vars == <<jobs, count, last, busy>>

Init ==
    /\ file \subseteq Jobs /\ once \subseteq file
    /\ \A j \in Jobs : limit[j] = None \/ (j \in file /\ limit[j] \in Nat \ {0})
    /\ count = [j \in Jobs |-> 0]
    /\ last = [j \in Jobs |-> None]
    /\ busy = {}

(* A sequential job runs alone. *)
Room(j) ==
    /\ j \notin busy /\ busy \cap Sequential = {}
    /\ j \in Sequential => busy = {}
    /\ Cardinality(busy) < MaxParallel

(* A run that was lost is made up for by the next occurrence, or by a second
   run for the only one. *)
Start(j, o) ==
    /\ j \in file /\ Room(j)
    /\ \/ last[j] = None
       \/ j \in once /\ o = last[j]
       \/ j \notin once /\ o > last[j]
    /\ j \in once => count[j] = 0
    /\ last' = [last EXCEPT ![j] = o]
    /\ busy' = busy \cup {j}
    /\ UNCHANGED <<jobs, count>>

Finish(j) ==
    /\ j \in busy /\ busy' = busy \ {j}
    /\ count' = [count EXCEPT ![j] = @ + 1]
    /\ IF limit[j] # None /\ count[j] + 1 >= limit[j]
       THEN /\ file' = file \ {j} /\ once' = once \ {j}
            /\ limit' = [limit EXCEPT ![j] = None]
       ELSE UNCHANGED jobs
    /\ UNCHANGED last

(* The process that runs them dies. *)
Lose == busy' = {} /\ UNCHANGED <<jobs, count, last>>

Next == \/ \E j \in Jobs : Finish(j) \/ \E o \in Times : Start(j, o)
        \/ Lose

Spec == Init /\ [][Next]_vars
=============================================================================
