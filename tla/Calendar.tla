------------------------------- MODULE Calendar -------------------------------
(***************************************************************************)
(* Days and months, as time.Date and the dates of PostgreSQL have them.  A *)
(* day is its number; the calendar begins with day 0, the first of month 1.*)
(***************************************************************************)
EXTENDS Integers, Sequences

CONSTANT First   \* First[m]: the first day of month m; the last is the day after the end

Months       == 1..(Len(First) - 1)
CalendarDays == 0..(First[Len(First)] - 1)

ASSUME CalendarAssumption ==
  /\ First \in Seq(Nat) /\ Len(First) > 1 /\ First[1] = 0
  /\ \A m, n \in 1..Len(First) : m < n => First[m] < First[n]
  /\ \A d \in CalendarDays : \E m \in Months : First[m] <= d /\ d < First[m + 1]

MonthOf(d) == CHOOSE m \in Months : First[m] <= d /\ d < First[m + 1]

DayInMonth(d) == d - First[MonthOf(d)] + 1
=============================================================================
