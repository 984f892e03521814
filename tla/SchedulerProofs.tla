---------------------------- MODULE SchedulerProofs ----------------------------
(***************************************************************************)
(* The list of scheduler.c for any number of jobs and any dates: it stays  *)
(* sorted, no sleep passes a date, and it implements SchedulerSpec.        *)
(***************************************************************************)
EXTENDS Scheduler, ListLemmas

IInv == TypeOK /\ SortedList /\ NoOversleep

-----------------------------------------------------------------------------

\* The walk of schedule() stops somewhere: between the jobs before d and the
\* first one that is not.
LEMMA PositionIsPlace ==
  ASSUME TypeOK, NEW d \in Dates
  PROVE  /\ Position(d) \in 1..(Len(jobs) + 1)
         /\ \A k \in 1..(Position(d) - 1) : date[jobs[k]] < d
         /\ Position(d) <= Len(jobs) => ~ (date[jobs[Position(d)]] < d)
<1> DEFINE n    == Len(jobs)
           T    == {i \in 1..(n + 1) : i <= n => ~ IsBefore(jobs[i], d)}
           P(i) == /\ \A k \in 1..(i - 1) : IsBefore(jobs[k], d)
                   /\ i <= n => ~ IsBefore(jobs[i], d)
<1>1. n \in Nat
  BY LenProperties DEF TypeOK
<1>2. n + 1 \in T /\ T \in SUBSET Nat
  BY <1>1
<1>3. PICK i \in T : \A k \in T : i <= k
  <2> HIDE DEF T
  <2> QED
    BY <1>2, LeastNatural
<1>4. P(i)
  <2>1. ASSUME NEW k \in 1..(i - 1) PROVE IsBefore(jobs[k], d)
    BY <1>1, <1>3
  <2> QED
    BY <2>1
<1>5. Position(d) \in 1..(n + 1) /\ P(Position(d))
  <2>1. i \in 1..(n + 1)
    OBVIOUS
  <2>2. Position(d) = CHOOSE x \in 1..(n + 1) : P(x)
    BY DEF Position
  <2> HIDE DEF P
  <2> QED
    BY <1>4, <2>1, <2>2
<1> QED
  BY <1>5 DEF IsBefore

LEMMA Initially == ASSUME MaxTimeAssumption, Init PROVE IInv
<1>1. jobs = <<>> /\ Len(jobs) = 0 /\ jobs \in Seq(Jobs)
  BY EmptySeq DEF Init
<1>2. TypeOK
  BY <1>1 DEF Init, TypeOK
<1>3. SortedList
  BY <1>1 DEF SortedList
<1>4. NoOversleep
  BY DEF Init, NoOversleep, Awake, Dates
<1> QED
  BY <1>2, <1>3, <1>4 DEF IInv

\* No job is linked twice.
LEMMA JobsOnce == ASSUME IInv PROVE Once(jobs)
<1>1. Len(jobs) \in Nat
  BY LenProperties DEF IInv, TypeOK
<1> QED
  BY <1>1 DEF IInv, SortedList, Once

LEMMA ScheduleKeeps ==
  ASSUME IInv, NEW j \in Jobs, NEW d \in Dates, Schedule(j, d)
  PROVE  /\ IInv'
         /\ ToSet(jobs)' = ToSet(jobs) \cup {j}
<1> DEFINE i == Position(d)
           n == Len(jobs)
<1>1. /\ jobs' = InsertAt(jobs, i, j) /\ date' = [date EXCEPT ![j] = d]
      /\ now' = now /\ wake' = wake /\ Awake /\ j \notin ToSet(jobs)
  BY DEF Schedule
<1>2. /\ jobs \in Seq(Jobs) /\ n \in Nat /\ date \in [Jobs -> Dates]
      /\ now \in Dates /\ wake \in Dates
  BY LenProperties DEF IInv, TypeOK
<1>3. /\ i \in 1..(n + 1)
      /\ \A k \in 1..(i - 1) : date[jobs[k]] < d
      /\ i <= n => ~ (date[jobs[i]] < d)
  BY PositionIsPlace DEF IInv
<1> HIDE DEF i
<1>4. /\ jobs' \in Seq(Jobs) /\ Len(jobs') = n + 1
      /\ \A k \in 1..(n + 1) :
           jobs'[k] = IF k < i THEN jobs[k] ELSE IF k = i THEN j ELSE jobs[k - 1]
  <2>1. jobs \in Seq(Jobs) /\ i \in 1..(Len(jobs) + 1)
    BY <1>2, <1>3
  <2>2. /\ InsertAt(jobs, i, j) \in Seq(Jobs)
        /\ Len(InsertAt(jobs, i, j)) = Len(jobs) + 1
        /\ \A k \in 1..(Len(jobs) + 1) :
             InsertAt(jobs, i, j)[k] =
               IF k < i THEN jobs[k] ELSE IF k = i THEN j ELSE jobs[k - 1]
    BY <2>1, InsertedAt
  <2> QED
    BY <1>1, <2>2
<1>5. ToSet(jobs)' = ToSet(jobs) \cup {j} /\ Once(jobs')
  <2>1. Once(jobs)
    BY JobsOnce
  <2>2. /\ ToSet(InsertAt(jobs, i, j)) = ToSet(jobs) \cup {j}
        /\ Once(jobs) /\ j \notin ToSet(jobs) => Once(InsertAt(jobs, i, j))
    BY <1>2, <1>3, InsertedElements
  <2> QED
    BY <1>1, <2>1, <2>2
<1>6. TypeOK'
  BY <1>1, <1>2, <1>4 DEF TypeOK
<1>7. \A k \in 1..n : jobs[k] \in Jobs /\ jobs[k] # j
  BY <1>1, <1>2, ElementsIn
<1>8. \A k \in 1..n : date'[jobs[k]] = date[jobs[k]] /\ date[jobs[k]] \in Int
  BY <1>1, <1>2, <1>7 DEF Dates
<1>9. \A k, m \in 1..n : k <= m => date[jobs[k]] <= date[jobs[m]]
  BY <1>2, <1>8 DEF IInv, SortedList
<1>10. d \in Int /\ date'[j] = d
  BY <1>1, <1>2 DEF Dates
<1>11. /\ \A k \in 1..n : k < i => date[jobs[k]] < d
       /\ \A k \in 1..n : k >= i => d <= date[jobs[k]]
  BY <1>2, <1>3, <1>8, <1>9, <1>10
<1>12. ASSUME NEW k \in 1..(n + 1), NEW m \in 1..(n + 1), k < m
       PROVE  date'[jobs'[k]] <= date'[jobs'[m]]
  <2>1. CASE m < i
    <3>1. k \in 1..n /\ m \in 1..n /\ jobs'[k] = jobs[k] /\ jobs'[m] = jobs[m]
      BY <1>2, <1>3, <1>4, <1>12, <2>1
    <3> QED
      BY <1>8, <1>9, <1>12, <3>1
  <2>2. CASE m = i
    <3>1. k \in 1..n /\ k < i /\ jobs'[k] = jobs[k] /\ jobs'[m] = j
      BY <1>2, <1>3, <1>4, <1>12, <2>2
    <3> QED
      BY <1>8, <1>10, <1>11, <3>1
  <2>3. CASE m > i /\ k < i
    <3>1. /\ k \in 1..n /\ m - 1 \in 1..n /\ k <= m - 1
          /\ jobs'[k] = jobs[k] /\ jobs'[m] = jobs[m - 1]
      BY <1>2, <1>3, <1>4, <1>12, <2>3
    <3> QED
      BY <1>8, <1>9, <3>1
  <2>4. CASE m > i /\ k = i
    <3>1. m - 1 \in 1..n /\ m - 1 >= i /\ jobs'[k] = j /\ jobs'[m] = jobs[m - 1]
      BY <1>2, <1>3, <1>4, <1>12, <2>4
    <3> QED
      BY <1>8, <1>10, <1>11, <3>1
  <2>5. CASE m > i /\ k > i
    <3>1. /\ k - 1 \in 1..n /\ m - 1 \in 1..n /\ k - 1 <= m - 1
          /\ jobs'[k] = jobs[k - 1] /\ jobs'[m] = jobs[m - 1]
      BY <1>2, <1>3, <1>4, <1>12, <2>5
    <3> QED
      BY <1>8, <1>9, <3>1
  <2> QED
    BY <1>2, <1>3, <2>1, <2>2, <2>3, <2>4, <2>5
<1>13. SortedList'
  BY <1>2, <1>4, <1>5, <1>12 DEF SortedList, Once
<1>14. NoOversleep'
  BY <1>1 DEF NoOversleep, Awake
<1> QED
  BY <1>5, <1>6, <1>13, <1>14 DEF IInv

\* next_schedule() hands out a job that is due, and the most overdue one.
LEMMA NextScheduleKeeps ==
  ASSUME IInv, NextSchedule
  PROVE  /\ IInv'
         /\ Head(jobs) \in ToSet(jobs) /\ Head(jobs) \in Jobs
         /\ ToSet(jobs)' = ToSet(jobs) \ {Head(jobs)}
         /\ date[Head(jobs)] <= now
         /\ \A k \in ToSet(jobs) : date[Head(jobs)] <= date[k]
<1> DEFINE n == Len(jobs)
<1>1. /\ jobs # <<>> /\ jobs' = Tail(jobs) /\ WaitingTime = 0
      /\ date' = date /\ now' = now /\ wake' = wake /\ Awake
  BY DEF NextSchedule
<1>2. /\ jobs \in Seq(Jobs) /\ date \in [Jobs -> Dates]
      /\ now \in Dates /\ wake \in Dates
  BY DEF IInv, TypeOK
<1>3. n \in Nat \ {0} /\ Head(jobs) = jobs[1] /\ Tail(jobs) = RemoveAt(jobs, 1)
  BY <1>1, <1>2, Ends
<1>4. /\ jobs' \in Seq(Jobs) /\ Len(jobs') = n - 1
      /\ \A k \in 1..(n - 1) : jobs'[k] = jobs[k + 1]
  BY <1>1, <1>2, <1>3, Removed
<1>5. ToSet(jobs)' = ToSet(jobs) \ {Head(jobs)}
  <2>1. 1 \in 1..Len(jobs) /\ Once(jobs)
    BY <1>3, JobsOnce
  <2>2. ToSet(RemoveAt(jobs, 1)) = ToSet(jobs) \ {jobs[1]}
    BY <1>2, <2>1, RemovedElements
  <2> QED
    BY <1>1, <1>3, <2>2
<1>6. ToSet(jobs) = {jobs[k] : k \in 1..n} /\ \A k \in 1..n : jobs[k] \in Jobs
  BY <1>2, ElementsIn
<1>7. \A k \in 1..n : date[jobs[k]] \in Int
  BY <1>2, <1>6 DEF Dates
<1>8. \A k \in 1..n : date[jobs[1]] <= date[jobs[k]]
  BY <1>3, <1>7 DEF IInv, SortedList
<1>9. date[Head(jobs)] <= now
  <2>1. date[Head(jobs)] \in Int /\ now \in Int
    BY <1>2, <1>3, <1>7 DEF Dates
  <2> QED
    BY <1>1, <2>1 DEF WaitingTime
<1>10. TypeOK'
  BY <1>1, <1>2, <1>4 DEF TypeOK
<1>11. SortedList'
  <2>1. ASSUME NEW k \in 1..(n - 1), NEW m \in 1..(n - 1), k < m
        PROVE  date[jobs'[k]] <= date[jobs'[m]] /\ jobs'[k] # jobs'[m]
    <3>1. k + 1 \in 1..n /\ m + 1 \in 1..n /\ k + 1 < m + 1
      <4> HIDE DEF n
      <4> QED
        BY <1>3, <2>1
    <3>2. jobs'[k] = jobs[k + 1] /\ jobs'[m] = jobs[m + 1]
      BY <1>4
    <3> QED
      BY <3>1, <3>2 DEF IInv, SortedList
  <2> QED
    BY <1>1, <1>4, <2>1 DEF SortedList
<1>12. NoOversleep'
  BY <1>1 DEF NoOversleep, Awake
<1> QED
  BY <1>3, <1>5, <1>6, <1>8, <1>9, <1>10, <1>11, <1>12 DEF IInv

LEMMA WaitKeeps == ASSUME IInv, WaitUntilNextSchedule PROVE IInv'
<1>1. /\ wake' = now + WaitingTime
      /\ jobs' = jobs /\ date' = date /\ now' = now
  BY DEF WaitUntilNextSchedule
<1>2. /\ jobs \in Seq(Jobs) /\ date \in [Jobs -> Dates] /\ now \in Dates
  BY DEF IInv, TypeOK
<1>3. CASE WaitingTime = 0
  <2>1. wake' = now
    BY <1>1, <1>2, <1>3 DEF Dates
  <2> QED
    BY <1>1, <1>2, <2>1 DEF IInv, TypeOK, SortedList, NoOversleep, Awake, Dates
<1>4. CASE WaitingTime # 0
  <2>1. jobs # <<>> /\ WaitingTime = date[Head(jobs)] - now
    BY <1>4 DEF WaitingTime
  <2>2. Head(jobs) = jobs[1] /\ Len(jobs) \in Nat \ {0} /\ jobs[1] \in Jobs
    BY <1>2, <2>1, Ends, ElementOfSeq
  <2>3. wake' = date[jobs[1]] /\ wake' \in Dates
    BY <1>1, <1>2, <2>1, <2>2 DEF Dates
  <2>4. \A k \in 1..Len(jobs) : date[jobs[1]] <= date[jobs[k]]
    <3>1. date[jobs[1]] \in Int
      BY <1>2, <2>2 DEF Dates
    <3> QED
      BY <2>2, <3>1 DEF IInv, SortedList
  <2>5. NoOversleep'
    BY <1>1, <1>2, <2>3, <2>4, ElementsIn DEF NoOversleep
  <2> QED
    BY <1>1, <1>2, <2>3, <2>5 DEF IInv, TypeOK, SortedList
<1> QED
  BY <1>3, <1>4

LEMMA InterruptKeeps == ASSUME IInv, Interrupt PROVE IInv'
  BY DEF Interrupt, IInv, TypeOK, SortedList, NoOversleep, Awake, Dates

LEMMA TickKeeps == ASSUME MaxTimeAssumption, IInv, Tick PROVE IInv' /\ now' > now
<1>1. now' = now + 1 /\ now < MaxTime /\ jobs' = jobs /\ date' = date /\ wake' = wake
  BY DEF Tick
<1>2. now \in Int /\ now' \in Dates /\ wake \in Int /\ now' > now
  BY <1>1 DEF MaxTimeAssumption, IInv, TypeOK, Dates
<1>3. TypeOK'
  BY <1>1, <1>2 DEF IInv, TypeOK
<1>4. SortedList'
  BY <1>1 DEF IInv, SortedList
<1>5. NoOversleep'
  BY <1>1, <1>2 DEF IInv, NoOversleep, Awake
<1> QED
  BY <1>2, <1>3, <1>4, <1>5 DEF IInv

\* One step per action.
LEMMA Inductive == ASSUME MaxTimeAssumption, IInv, [Next]_vars PROVE IInv'
<1>1. ASSUME NEW j \in Jobs, NEW d \in Dates, Schedule(j, d) PROVE IInv'
  BY <1>1, ScheduleKeeps
<1>2. CASE NextSchedule
  BY <1>2, NextScheduleKeeps
<1>3. CASE WaitUntilNextSchedule
  BY <1>3, WaitKeeps
<1>4. CASE Interrupt
  BY <1>4, InterruptKeeps
<1>5. CASE Tick
  BY <1>5, TickKeeps
<1>6. CASE UNCHANGED vars
  BY <1>6 DEF vars, IInv, TypeOK, SortedList, NoOversleep, Awake
<1> QED
  BY <1>1, <1>2, <1>3, <1>4, <1>5, <1>6 DEF Next

THEOREM Invariance == Spec => []IInv
<1> USE MaxTimeAssumption
<1>1. Init => IInv
  BY Initially
<1>2. IInv /\ [Next]_vars => IInv'
  BY Inductive
<1> QED
  BY <1>1, <1>2, PTL DEF Spec

\* The list and the clock keep their types.
THEOREM TypeCorrect == Spec => []TypeOK
<1>1. IInv => TypeOK
  BY DEF IInv
<1> QED
  BY <1>1, Invariance, PTL

\* schedule() keeps the list sorted, and no job is linked twice.
THEOREM AlwaysSorted == Spec => []SortedList
<1>1. IInv => SortedList
  BY DEF IInv
<1> QED
  BY <1>1, Invariance, PTL

\* The process never sleeps past the date of any job it holds.
THEOREM NeverOversleeps == Spec => []NoOversleep
<1>1. IInv => NoOversleep
  BY DEF IInv
<1> QED
  BY <1>1, Invariance, PTL

-----------------------------------------------------------------------------

\* scheduler.c implements the set of dated jobs of SchedulerSpec.
THEOREM Implements == Spec => AbstractSpec
<1> USE MaxTimeAssumption
<1>1. Init => Abstract!Init
  <2>1. ToSet(<<>>) = {}
    BY DEF ToSet
  <2> QED
    BY <2>1 DEF Init, Abstract!Init
<1>2. ASSUME IInv, IInv', [Next]_vars PROVE [Abstract!Next]_(Abstract!vars)
  <2>1. ASSUME NEW j \in Jobs, NEW d \in Dates, Schedule(j, d) PROVE Abstract!Next
    <3>1. Abstract!Schedule(j, d)
      BY <1>2, <2>1, ScheduleKeeps DEF Schedule, Abstract!Schedule
    <3> QED
      BY <3>1 DEF Abstract!Next
  <2>2. CASE NextSchedule
    <3>1. Abstract!Take(Head(jobs)) /\ Head(jobs) \in Jobs
      BY <1>2, <2>2, NextScheduleKeeps DEF NextSchedule, Abstract!Take
    <3> QED
      BY <3>1 DEF Abstract!Next
  <2>3. CASE Tick
    <3>1. Abstract!Tick
      BY <1>2, <2>3, TickKeeps DEF Tick, Abstract!Tick, IInv, TypeOK
    <3> QED
      BY <3>1 DEF Abstract!Next
  <2>4. CASE jobs' = jobs /\ date' = date /\ now' = now
    BY <2>4 DEF Abstract!vars
  <2> QED
    BY <1>2, <2>1, <2>2, <2>3, <2>4
       DEF Next, WaitUntilNextSchedule, Interrupt, vars
<1> QED
  BY <1>1, <1>2, Invariance, PTL DEF Spec, AbstractSpec, Abstract!Spec
=============================================================================
