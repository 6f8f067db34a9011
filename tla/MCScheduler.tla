---------------------------- MODULE MCScheduler -----------------------------
(* The instances of Scheduler that TLC checks: two months, three ticks a     *)
(* day, work starting at tick 1.                                             *)
EXTENDS Scheduler

TwoMonths == <<0, 31, 59>>

Row(interval, days) == [interval |-> interval, days |-> days, at |-> 1]

\* Weekly rows, rows that fall back to every day, and a row with a day that
\* DayOfWeek does not know.
WeeklyRows ==
  {Row("WEEK", <<>>), Row("WEEK", <<1, 2, 3, 4, 5, 6, 7>>), Row("MONTH", <<>>),
   Row("WEEK", <<7>>), Row("WEEK", <<2, 5>>), Row("WEEK", <<0, 8, 3>>)}

\* Monthly rows whose days every month has.
MonthlyRows == {Row("MONTH", <<10>>), Row("MONTH", <<10, 28>>)}

PassingRows == WeeklyRows \cup MonthlyRows

\* A row of DefaultScheduleConfig.
DefaultRows == {Row("MONTH", <<1, 15>>)}

\* Sunday, Tuesday, Friday of the first week and Tuesday of the second: no day
\* of a monthly row is past when the dispatcher starts.
FirstDays  == {0, 2, 5, 9}
TenthOfJan == {9}
=============================================================================
