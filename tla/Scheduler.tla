------------------------------ MODULE Scheduler ------------------------------
(***************************************************************************)
(* The jobs of the backup schedule (internal/scheduler/scheduler.go) as    *)
(* dispatcherBackup sets them up (internal/service/dispatchers.go): one    *)
(* goroutine per job sleeps until nextRun, starts runJob in a goroutine of *)
(* its own and computes nextRun again; the function of the job sends on    *)
(* startAutoBackup, which blocks until the dispatcher takes the alarm.     *)
(*                                                                         *)
(* A day is numbered from the first day of the calendar and divided into   *)
(* Ticks; an instant is DayLen*day + tick.  The clock never stands exactly *)
(* on an instant: a goroutine that reads it at tick t reads a little more  *)
(* than t, so now.Before(t) is FALSE and now.After(t) is TRUE.  All days   *)
(* have the same length: the change to summer time is left out.            *)
(***************************************************************************)
EXTENDS Calendar, Functions

CONSTANTS
  DayLen,      \* ticks in a day
  Configs,     \* rows of schedule_settings: [interval, days, at]
  StartDays,   \* days on which the dispatcher may start
  MaxLate      \* bound: how many ticks a goroutine may run late

Days == CalendarDays

ASSUME DayAssumption    == DayLen \in Nat \ {0} /\ MaxLate \in Nat
ASSUME StartAssumption  == StartDays \subseteq Days
ASSUME ConfigAssumption ==
  Configs \subseteq [interval : STRING, days : Seq(Int), at : 0..(DayLen - 1)]

-----------------------------------------------------------------------------
DayOf(t)   == t \div DayLen
Weekday(d) == d % 7                        \* day 0 is a Sunday

\* time.Date(year, month, day, ...): a day beyond the end of the month counts on
\* into the following months.
Date(month, day, at) == (First[month] + day - 1) * DayLen + at

-----------------------------------------------------------------------------
(***************************************************************************)
(* nextRun of daily, weekly and monthly, as the instant it waits for.      *)
(***************************************************************************)
\* Mutant: a time of today that is past is not moved to tomorrow.
dailyNextRunBroken(s, now) == DayOf(now) * DayLen + s.at

dailyNextRun(s, now) ==
  LET date == DayOf(now) * DayLen + s.at
  IN  IF now < date THEN date ELSE date + DayLen

\* Mutant: a weekday already past is looked for in this week.
weeklyNextRunBroken(s, now) ==
  LET day  == DayOf(now)
      date == (day + (s.day - Weekday(day))) * DayLen + s.at
  IN  IF now >= date THEN (day + 7) * DayLen + s.at ELSE date

weeklyNextRun(s, now) ==
  LET day     == DayOf(now)
      diff    == s.day - Weekday(day)
      numDays == IF diff < 0 THEN diff + 7 ELSE diff
      date    == (day + numDays) * DayLen + s.at
  IN  IF now >= date THEN (day + 7) * DayLen + s.at ELSE date

monthlyNextRun(s, now) ==
  LET month   == MonthOf(DayOf(now))
      day     == DayInMonth(DayOf(now))
      diff    == s.day - day
      numDays == IF diff >= 0 THEN s.day ELSE day + (-1 * diff)
      date    == Date(month, numDays, s.at)
  IN  IF now >= date THEN Date(month + 1, numDays, s.at) ELSE date

nextRun(s, now) ==
  CASE s.kind = "daily"   -> dailyNextRun(s, now)
    [] s.kind = "weekly"  -> weeklyNextRun(s, now)
    [] s.kind = "monthly" -> monthlyNextRun(s, now)

(***************************************************************************)
(* The schedule dispatcherBackup makes of a row: DayOfWeek takes 0 and 7   *)
(* for Sunday; a day it does not know gives an error, and the days after   *)
(* it are not looked at.  A row that names a day twice, as 0 and 7, has    *)
(* two equal jobs, which are one here.                                     *)
(***************************************************************************)
Daily(at) == {[kind |-> "daily", day |-> 0, at |-> at]}

KnownDays(days) ==
  LET bad == {i \in 1..Len(days) : days[i] \notin 0..7}
  IN  {days[i] : i \in {j \in 1..Len(days) : \A b \in bad : j < b}}

JobsOf(c) ==
  CASE c.interval = "WEEK" /\ Len(c.days) \in {0, 7} -> Daily(c.at)
    [] c.interval = "WEEK" /\ Len(c.days) \notin {0, 7} ->
         {[kind |-> "weekly", day |-> d % 7, at |-> c.at] : d \in KnownDays(c.days)}
    [] c.interval = "MONTH" /\ c.days = <<>> -> Daily(c.at)
    [] c.interval = "MONTH" /\ c.days # <<>> ->
         {[kind |-> "monthly", day |-> c.days[i], at |-> c.at] : i \in 1..Len(c.days)}
    [] OTHER -> {}

AllJobs == UNION {JobsOf(c) : c \in Configs}

-----------------------------------------------------------------------------
VARIABLES
  clock,     \* now
  start,     \* the instant at which the dispatcher has started
  jobs,      \* the jobs of the schedule
  wake,      \* when the timer of each job goes off
  pending,   \* jobs whose runJob goroutine has not looked at isRunning
  running,   \* jobs with isRunning set: fn is sending on startAutoBackup
  fired,     \* the days on which the timer of each job went off, one entry each time
  serving    \* is the dispatcher in its loop, and have the jobs not been told to quit?

vars == <<clock, start, jobs, wake, pending, running, fired, serving>>

Instants == 0..(DayLen * First[Len(First)] - 1)

TypeOK ==
  /\ clock \in Instants /\ start \in Instants /\ start <= clock
  /\ jobs \subseteq AllJobs
  /\ wake \in [AllJobs -> Nat] /\ \A j \in jobs : wake[j] > start
  /\ pending \subseteq jobs
  /\ running \subseteq jobs
  /\ fired \in [AllJobs -> Seq(Days)]
  /\ serving \in BOOLEAN

Init ==
  /\ \E c \in Configs : jobs = JobsOf(c)
  /\ start \in {DayLen * d + t : d \in StartDays, t \in 0..(DayLen - 1)}
  /\ clock = start
  /\ wake = [j \in AllJobs |-> IF j \in jobs THEN nextRun(j, start) ELSE 0]
  /\ pending = {} /\ running = {}
  /\ fired = [j \in AllJobs |-> <<>>]
  /\ serving = (jobs # {})

\* Time passes while the schedule is served; no goroutine is more than MaxLate
\* ticks late, and the dispatcher has taken an alarm before the next one of
\* that job is due.
Tick ==
  /\ serving /\ clock + 1 \in Instants
  /\ \A j \in jobs :
       /\ clock < wake[j] + MaxLate
       /\ j \in pending \cup running => clock + 1 < wake[j]
  /\ clock' = clock + 1
  /\ UNCHANGED <<start, jobs, wake, pending, running, fired, serving>>

\* Mutant: the timer is armed once more with the duration it had.
FireBroken(j) ==
  /\ j \in jobs /\ serving
  /\ wake[j] <= clock
  /\ pending' = pending \cup {j}
  /\ wake' = [wake EXCEPT ![j] = clock + (wake[j] - start)]
  /\ fired' = [fired EXCEPT ![j] = Append(@, DayOf(clock))]
  /\ UNCHANGED <<clock, start, jobs, running, serving>>

\* Mutant: nextRun is read before the timer has run out.
FireTwice(j) ==
  /\ j \in jobs /\ serving
  /\ wake[j] <= clock
  /\ pending' = pending \cup {j}
  /\ wake' = [wake EXCEPT ![j] = nextRun(j, wake[j] - 1)]
  /\ fired' = [fired EXCEPT ![j] = Append(@, DayOf(clock))]
  /\ UNCHANGED <<clock, start, jobs, running, serving>>

\* case <-time.After(next): go runJob(j); next, _ = j.schedule.nextRun()
Fire(j) ==
  /\ j \in jobs /\ serving
  /\ wake[j] <= clock
  /\ pending' = pending \cup {j}
  /\ wake' = [wake EXCEPT ![j] = nextRun(j, clock)]
  /\ fired' = [fired EXCEPT ![j] = Append(@, DayOf(clock))]
  /\ UNCHANGED <<clock, start, jobs, running, serving>>

\* runJob: IsRunning, setRunning(true) and the send.  The test and the set are two
\* steps of the code; here one, because Tick lets no second runJob of a job start
\* while the first has not ended, so nobody can come between them.
RunJob(j) ==
  /\ j \in pending
  /\ pending' = pending \ {j}
  /\ running' = running \cup {j}
  /\ UNCHANGED <<clock, start, jobs, wake, fired, serving>>

\* Mutant: setRunning(false) is forgotten.
TakeAlarmBroken(j) ==
  /\ j \in running /\ serving
  /\ UNCHANGED vars

\* prc = <-startAutoBackup; the job is no longer running
TakeAlarm(j) ==
  /\ j \in running /\ serving
  /\ running' = running \ {j}
  /\ UNCHANGED <<clock, start, jobs, wake, pending, fired, serving>>

\* ctx.Done(): job.Quit <- true for every job.  A goroutine that is sending an
\* alarm stays where it is.
Stop ==
  /\ serving
  /\ serving' = FALSE
  /\ UNCHANGED <<clock, start, jobs, wake, pending, running, fired>>

JobStep(j) == Fire(j) \/ RunJob(j) \/ TakeAlarm(j)

Next == Tick \/ Stop \/ (\E j \in AllJobs : JobStep(j))

Fairness == WF_vars(Tick) /\ \A j \in AllJobs : WF_vars(JobStep(j))

Spec == Init /\ [][Next]_vars /\ Fairness

-----------------------------------------------------------------------------
(***************************************************************************)
(* Properties, against what the constructors promise: Day() every day,     *)
(* DayOfWeek(d) every week on d, DayOfMonth(d) every month on d.           *)
(***************************************************************************)
Due(j, d) ==
  CASE j.kind = "daily"   -> TRUE
    [] j.kind = "weekly"  -> Weekday(d) = j.day
    [] j.kind = "monthly" -> DayInMonth(d) = j.day

Time(j, d) == DayLen * d + j.at

FiredOn(j) == Range(fired[j])

\* No job goes off on a day its schedule does not name, whenever the dispatcher
\* was started, with timers up to MaxLate ticks late within the day.  For monthly
\* jobs this is the comment of DayOfMonth: "sets the job to run on the
\* specified day of the month".
FiresOnlyWhenDue == \A j \in jobs, d \in Days : d \in FiredOn(j) => Due(j, d)

\* No due day is skipped: once the time of a due day is MaxLate ticks past and
\* the dispatcher is serving, the job has gone off on that day.
NoDueDayMissed ==
  \A j \in jobs, d \in Days :
    serving /\ Due(j, d) /\ start < Time(j, d) /\ Time(j, d) + MaxLate < clock => d \in FiredOn(j)

\* The schedule is a set of alarm clocks, as module AlarmClock describes them: a
\* job goes off exactly once for each of its days, at its time of day or at most
\* MaxLate ticks later, and never otherwise: every firing is an entry of fired, and
\* a second one for the same day is no step of AlarmClock.  It rests on nextRun
\* being read after the timer has run out (scheduler.go:203 and 206).
Alarm == INSTANCE AlarmClock
           WITH Alarms <- AllJobs, Late <- MaxLate, set <- jobs, on <- serving,
                Times <- [j \in AllJobs |-> {Time(j, d) : d \in {e \in Days : Due(j, e)}}],
                rung  <- [j \in AllJobs |-> [i \in DOMAIN fired[j] |-> Time(j, fired[j][i])]]

KeepsTime == Alarm!Spec

\* An alarm that has gone off reaches the dispatcher, unless that has left its loop.
AlarmTaken == \A j \in AllJobs : j \in pending \cup running ~> j \notin pending \cup running \/ ~serving
=============================================================================
