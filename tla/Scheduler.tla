------------------------------ MODULE Scheduler ------------------------------
(***************************************************************************)
(* update/scheduler.c: one list of jobs kept sorted by date, from which    *)
(* update/main.c takes the jobs that are due, sleeping in between.  A job  *)
(* is a node of the list itself (struct job is embedded in its owner), so  *)
(* the list is modelled as a sequence of jobs and a date per job.          *)
(***************************************************************************)
EXTENDS Integers, Sequences, SequencesExt

CONSTANTS Jobs,      \* the struct job of the program
          MaxTime    \* bound on time(NULL) and on dates

ASSUME MaxTimeAssumption == MaxTime \in Nat

Dates == 0..MaxTime

VARIABLES jobs,      \* the list, head first
          date,      \* job->date
          now,       \* what time(NULL) returns
          wake       \* when the current sleep() ends; not after now if awake

vars == <<jobs, date, now, wake>>

-----------------------------------------------------------------------------

\* The list walk of schedule(): the first place whose job is not before d.
IsBefore(j, d) == date[j] < d

\* Mutant of Position: the job is linked first, its date is not looked at.
PositionFirst(d) == 1

Position(d) ==
    CHOOSE i \in 1..(Len(jobs) + 1) :
        /\ \A k \in 1..(i - 1) : IsBefore(jobs[k], d)
        /\ i <= Len(jobs) => ~IsBefore(jobs[i], d)

\* Mutant of WaitingTime: the last job is looked at.
WaitingTimeLast == IF jobs = <<>> \/ now > date[Last(jobs)]
                     THEN 0
                     ELSE date[Last(jobs)] - now

WaitingTime == IF jobs = <<>> \/ now > date[Head(jobs)]
                 THEN 0
                 ELSE date[Head(jobs)] - now

Awake == now >= wake

-----------------------------------------------------------------------------

Init == /\ jobs = <<>>
        /\ date \in [Jobs -> Dates]     \* not initialised by the program
        /\ now \in Dates
        /\ wake = now

(***************************************************************************)
(* schedule().  Linking a job that is already linked would lose the rest   *)
(* of the list: the callers never do it, which module Updater is about.    *)
(***************************************************************************)
Schedule(j, d) ==
    /\ Awake
    /\ j \notin ToSet(jobs)
    /\ jobs' = InsertAt(jobs, Position(d), j)
    /\ date' = [date EXCEPT ![j] = d]
    /\ UNCHANGED <<now, wake>>

\* Mutant of NextSchedule: the first job is taken, due or not.
NextScheduleEarly ==
    /\ Awake
    /\ jobs # <<>>
    /\ jobs' = Tail(jobs)
    /\ UNCHANGED <<date, now, wake>>

\* next_schedule() when it returns a job; otherwise it changes nothing.
NextSchedule ==
    /\ Awake
    /\ jobs # <<>>
    /\ WaitingTime = 0
    /\ jobs' = Tail(jobs)
    /\ UNCHANGED <<date, now, wake>>

\* wait_until_next_schedule().
WaitUntilNextSchedule ==
    /\ Awake
    /\ wake' = now + WaitingTime
    /\ UNCHANGED <<jobs, date, now>>

\* A signal ends sleep() early.
Interrupt == /\ ~Awake
             /\ wake' = now
             /\ UNCHANGED <<jobs, date, now>>

Tick == /\ now < MaxTime
        /\ now' = now + 1
        /\ UNCHANGED <<jobs, date, wake>>

Next == \/ \E j \in Jobs, d \in Dates : Schedule(j, d)
        \/ NextSchedule
        \/ WaitUntilNextSchedule
        \/ Interrupt
        \/ Tick

Spec == Init /\ [][Next]_vars

-----------------------------------------------------------------------------

TypeOK == /\ jobs \in Seq(Jobs)
          /\ date \in [Jobs -> Dates]
          /\ now \in Dates
          /\ wake \in Dates

(***************************************************************************)
(* The list schedule() builds is sorted by date and links no job twice:    *)
(* next_schedule() and waiting_time() look at the head only.               *)
(***************************************************************************)
SortedList == \A i, k \in 1..Len(jobs) :
                 i < k => /\ date[jobs[i]] <= date[jobs[k]]
                          /\ jobs[i] # jobs[k]

(***************************************************************************)
(* wait_until_next_schedule() never sleeps past the date of a job, even    *)
(* though it only considers the first one.                                 *)
(***************************************************************************)
NoOversleep == ~Awake => \A j \in ToSet(jobs) : wake <= date[j]

(***************************************************************************)
(* The list implements the set of dated jobs of SchedulerSpec: a job       *)
(* handed to main.c is due and no job of the list is more overdue.         *)
(***************************************************************************)
Abstract == INSTANCE SchedulerSpec WITH waiting <- ToSet(jobs)

AbstractSpec == Abstract!Spec
=============================================================================
