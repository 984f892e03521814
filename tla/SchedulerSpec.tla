---------------------------- MODULE SchedulerSpec ----------------------------
(***************************************************************************)
(* What update/scheduler.h promises to its only client, update/main.c: a   *)
(* set of jobs, each with a date, from which a job can be taken once its   *)
(* date has come, the most overdue job first.  How the jobs are stored is  *)
(* not visible.                                                            *)
(***************************************************************************)
EXTENDS Integers

CONSTANTS Jobs, Dates

VARIABLES waiting,   \* the jobs scheduled and not yet taken
          date,      \* the date of each job
          now        \* what time(NULL) returns

vars == <<waiting, date, now>>

Init == /\ waiting = {}
        /\ date \in [Jobs -> Dates]
        /\ now \in Dates

Schedule(j, d) == /\ j \notin waiting
                  /\ waiting' = waiting \cup {j}
                  /\ date' = [date EXCEPT ![j] = d]
                  /\ UNCHANGED now

Take(j) == /\ j \in waiting
           /\ date[j] <= now
           /\ \A k \in waiting : date[j] <= date[k]
           /\ waiting' = waiting \ {j}
           /\ UNCHANGED <<date, now>>

Tick == /\ now' \in Dates
        /\ now' > now
        /\ UNCHANGED <<waiting, date>>

Next == \/ \E j \in Jobs, d \in Dates : Schedule(j, d)
        \/ \E j \in Jobs : Take(j)
        \/ Tick

Spec == Init /\ [][Next]_vars
=============================================================================
