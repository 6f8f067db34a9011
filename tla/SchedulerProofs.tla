---------------------------- MODULE SchedulerProofs ----------------------------
(***************************************************************************)
(* Theorems about Scheduler, for any calendar, any length of the day and   *)
(* any start: a timer is always set for an instant to come, and a job goes *)
(* off once on each day its schedule names and on no other, unless its day *)
(* of the month is one that some month does not have, or one that is past  *)
(* when the dispatcher starts.                                             *)
(***************************************************************************)
EXTENDS Scheduler, CalendarProofs, TLAPS

-----------------------------------------------------------------------------
(***************************************************************************)
(* Days and instants.                                                      *)
(***************************************************************************)
LEMMA DayOfInstant ==
  ASSUME NEW n \in Nat \ {0}, NEW d \in Int, NEW r \in Int, 0 <= r, r < n
  PROVE  (n * d + r) \div n = d
OBVIOUS

LEMMA DayBounds ==
  ASSUME NEW n \in Nat \ {0}, NEW t \in Int
  PROVE  /\ t \div n \in Int
         /\ n * (t \div n) <= t
         /\ t < n * (t \div n) + n
OBVIOUS

LEMMA LaterDay ==
  ASSUME NEW n \in Nat \ {0}, NEW d \in Int, NEW e \in Int, n * d < n * e
  PROVE  d < e
OBVIOUS

\* Appending to a record of days.
LEMMA Appended ==
  ASSUME NEW S, NEW s \in Seq(S), NEW e \in S
  PROVE  Range(Append(s, e)) = Range(s) \cup {e} /\ Range(s) \subseteq S
<1> DEFINE t == Append(s, e)
<1>1. /\ t \in Seq(S) /\ DOMAIN s = 1..Len(s) /\ DOMAIN t = 1..(Len(s) + 1)
      /\ t[Len(s) + 1] = e /\ \A i \in 1..Len(s) : t[i] = s[i] /\ Len(s) \in Nat
  OBVIOUS
<1> HIDE DEF t
<1>2. \A i \in DOMAIN t : t[i] \in {s[k] : k \in DOMAIN s} \cup {e}
  <2> SUFFICES ASSUME NEW i \in DOMAIN t PROVE t[i] \in {s[k] : k \in DOMAIN s} \cup {e}
    OBVIOUS
  <2>1. CASE i = Len(s) + 1 BY <1>1, <2>1
  <2>2. CASE i \in 1..Len(s) BY <1>1, <2>2
  <2> QED BY <1>1, <2>1, <2>2
<1>3. \A i \in DOMAIN s : i \in DOMAIN t /\ t[i] = s[i] BY <1>1
<1>4. Len(s) + 1 \in DOMAIN t /\ t[Len(s) + 1] = e BY <1>1
<1>5. {t[i] : i \in DOMAIN t} = {s[i] : i \in DOMAIN s} \cup {e} BY <1>2, <1>3, <1>4
<1>6. \A i \in DOMAIN s : s[i] \in S BY <1>1
<1> QED BY <1>5, <1>6 DEF t, Range

LEMMA DayOrder ==
  ASSUME NEW n \in Nat \ {0}, NEW d \in Int, NEW e \in Int, d <= e
  PROVE  n * d <= n * e
OBVIOUS

-----------------------------------------------------------------------------
(***************************************************************************)
(* The jobs of the rows.                                                   *)
(***************************************************************************)
JobTyped(s) ==
  /\ s.kind \in {"daily", "weekly", "monthly"}
  /\ s.day \in Int
  /\ s.kind = "weekly" => s.day \in 0..6
  /\ s.at \in 0..(DayLen - 1)

LEMMA JobsTyped == \A j \in AllJobs : JobTyped(j)
<1> SUFFICES ASSUME NEW c \in Configs, NEW j \in JobsOf(c) PROVE JobTyped(j)
  BY DEF AllJobs
<1>1. c.at \in 0..(DayLen - 1) /\ c.days \in Seq(Int) BY ConfigAssumption
<1>2. CASE j \in Daily(c.at) BY <1>1, <1>2 DEF Daily, JobTyped
<1>3. CASE j \in {[kind |-> "weekly", day |-> d % 7, at |-> c.at] : d \in KnownDays(c.days)}
  <2>1. PICK d \in KnownDays(c.days) : j = [kind |-> "weekly", day |-> d % 7, at |-> c.at]
    BY <1>3
  <2>2. d \in Int BY <1>1, <2>1 DEF KnownDays
  <2>3. d % 7 \in 0..6 BY <2>2
  <2> QED BY <1>1, <2>1, <2>3 DEF JobTyped
<1>4. CASE j \in {[kind |-> "monthly", day |-> c.days[i], at |-> c.at] : i \in 1..Len(c.days)}
  <2>1. PICK i \in 1..Len(c.days) : j = [kind |-> "monthly", day |-> c.days[i], at |-> c.at]
    BY <1>4
  <2>2. c.days[i] \in Int BY <1>1, <2>1
  <2> QED BY <1>1, <2>1, <2>2 DEF JobTyped
<1> QED BY <1>2, <1>3, <1>4 DEF JobsOf

LEMMA TimeIsInt == ASSUME NEW s, JobTyped(s), NEW d \in Int PROVE Time(s, d) \in Int
BY DayAssumption DEF Time, JobTyped

LEMMA TimeOrder ==
  ASSUME NEW s, JobTyped(s), NEW d \in Int, NEW e \in Int, d < e
  PROVE  Time(s, d) + DayLen <= Time(s, e)
<1>1. DayLen * (d + 1) <= DayLen * e BY DayOrder, DayAssumption
<1>2. DayLen * (d + 1) = DayLen * d + DayLen BY DayAssumption
<1>3. DayLen * d \in Int /\ DayLen * e \in Int /\ s.at \in Int /\ DayLen \in Int
  BY DayAssumption DEF JobTyped
<1> QED BY <1>1, <1>2, <1>3 DEF Time

LEMMA InstantsAreNat == Instants \subseteq Nat
BY DEF Instants

LEMMA InstantInCalendar == ASSUME NEW t \in Instants PROVE DayOf(t) \in Days
<1> DEFINE q == t \div DayLen
           N == First[Len(First)]
<1>1. t \in Nat /\ DayLen \in Nat \ {0} /\ N \in Nat
  BY InstantsAreNat, DayAssumption, CalendarFacts, CalendarAssumption
<1>2. q \in Int /\ DayLen * q <= t /\ t < DayLen * q + DayLen BY <1>1, DayBounds
<1>3. t < DayLen * N
  <2>1. DayLen * N \in Nat BY <1>1
  <2> QED BY <2>1, <1>1 DEF Instants
<1> HIDE DEF q, N
<1>4. q < N
  <2>1. DayLen * q < DayLen * N
    <3>1. DayLen * q \in Int /\ DayLen * N \in Int BY <1>1, <1>2
    <3> QED BY <1>1, <1>2, <1>3, <3>1
  <2> QED BY <1>1, <1>2, <2>1, LaterDay
<1>5. q >= 0
  <2>1. DayLen * 0 < DayLen * (q + 1)
    <3>1. DayLen * (q + 1) = DayLen * q + DayLen BY <1>1, <1>2
    <3> QED BY <1>1, <1>2, <3>1
  <2>2. 0 < q + 1 BY <1>1, <1>2, <2>1, LaterDay
  <2> QED BY <1>2, <2>2
<1> QED BY <1>1, <1>2, <1>4, <1>5 DEF Days, CalendarDays, DayOf, q, N

-----------------------------------------------------------------------------
(***************************************************************************)
(* nextRun is the first of the job's instants that is later than now.      *)
(***************************************************************************)
\* A day of the month that every month has.
InEveryMonth(s) == \A m \in Months : 1 <= s.day /\ First[m] + s.day <= First[m + 1]

IsNext(s, now, D) ==
  /\ D \in Days => Due(s, D)
  /\ now < Time(s, D)
  /\ \A d \in Days : Due(s, d) /\ now < Time(s, d) => D <= d

\* Of the days whose instant is later than now, the first is today or tomorrow.
LEMMA FirstDay ==
  ASSUME NEW s, JobTyped(s), NEW now \in Nat
  PROVE  /\ DayOf(now) \in Int /\ Time(s, DayOf(now)) \in Int
         /\ now < Time(s, DayOf(now) + 1)
         /\ \A d \in Int : now < Time(s, d) => DayOf(now) <= d
         /\ now >= Time(s, DayOf(now)) => \A d \in Int : now < Time(s, d) => DayOf(now) < d
<1> DEFINE q == DayOf(now)
           at == s.at
<1>0. DayLen \in Nat \ {0} BY DayAssumption
<1>1. q \in Int /\ DayLen * q <= now /\ now < DayLen * q + DayLen
  BY <1>0, DayBounds DEF DayOf
<1>2. at \in Nat /\ at < DayLen BY <1>0 DEF JobTyped
<1>3. DayLen * (q + 1) = DayLen * q + DayLen BY <1>0, <1>1
<1> HIDE DEF q
<1>4. ASSUME NEW d \in Int, now < DayLen * d + at PROVE q <= d
  <2>1. DayLen * q < DayLen * (d + 1)
    <3>1. DayLen * (d + 1) = DayLen * d + DayLen BY <1>0
    <3> QED BY <1>0, <1>1, <1>2, <1>4, <3>1
  <2>2. q < d + 1 BY <1>0, <1>1, <2>1, LaterDay
  <2> QED BY <1>1, <2>2
<1>5. ASSUME now >= DayLen * q + at, NEW d \in Int, now < DayLen * d + at PROVE q < d
  <2>1. DayLen * q < DayLen * d BY <1>0, <1>1, <1>2, <1>5
  <2> QED BY <1>0, <1>1, <2>1, LaterDay
<1>6. now < DayLen * (q + 1) + at BY <1>0, <1>1, <1>2, <1>3
<1>7. DayLen * q + at \in Int BY <1>0, <1>1, <1>2
<1> QED BY <1>1, <1>4, <1>5, <1>6, <1>7 DEF Time, q

LEMMA DaysAreInt == Days \subseteq Int
BY CalendarFacts DEF Days

LEMMA DailyNext ==
  ASSUME NEW s, JobTyped(s), s.kind = "daily", NEW now \in Nat
  PROVE  \E D \in Int : nextRun(s, now) = Time(s, D) /\ IsNext(s, now, D)
<1> DEFINE q == DayOf(now)
<1>0. DayLen \in Nat \ {0} /\ s.at \in Int BY DayAssumption DEF JobTyped
<1>1. \A d \in Int : Due(s, d) BY DEF Due
<1>2. nextRun(s, now) = IF now < Time(s, q) THEN Time(s, q) ELSE Time(s, q) + DayLen
  <2>1. DayOf(now) * DayLen + s.at = Time(s, q) BY FirstDay, <1>0 DEF Time
  <2> QED BY <2>1 DEF nextRun, dailyNextRun
<1>3. Time(s, q + 1) = Time(s, q) + DayLen BY <1>0, FirstDay DEF Time
<1>4. CASE now < Time(s, q)
  BY <1>1, <1>2, <1>4, FirstDay, DaysAreInt DEF IsNext
<1>5. CASE ~(now < Time(s, q))
  <2>1. now >= Time(s, q) BY <1>5, FirstDay
  <2>2. q + 1 \in Int /\ \A d \in Int : now < Time(s, d) => q + 1 <= d BY <2>1, FirstDay
  <2> QED BY <1>1, <1>2, <1>3, <1>5, <2>2, FirstDay, DaysAreInt DEF IsNext
<1> QED BY <1>4, <1>5

LEMMA WeeklyNext ==
  ASSUME NEW s, JobTyped(s), s.kind = "weekly", NEW now \in Nat
  PROVE  \E D \in Int : nextRun(s, now) = Time(s, D) /\ IsNext(s, now, D)
<1> DEFINE q == DayOf(now)
           diff == s.day - Weekday(q)
           numDays == IF diff < 0 THEN diff + 7 ELSE diff
<1>0. DayLen \in Nat \ {0} /\ s.at \in Nat /\ s.day \in 0..6 BY DayAssumption DEF JobTyped
<1>1. q \in Int /\ \A d \in Int : Due(s, d) <=> d % 7 = s.day
  BY FirstDay DEF Due, Weekday
<1>2. numDays \in 0..6 /\ (q + numDays) % 7 = s.day /\ (q + 7) % 7 = q % 7
  BY <1>0, <1>1 DEF Weekday
<1>3. nextRun(s, now) = IF now >= Time(s, q + numDays) THEN Time(s, q + 7) ELSE Time(s, q + numDays)
  <2>1. (q + numDays) * DayLen + s.at = Time(s, q + numDays) BY <1>0, <1>1, <1>2 DEF Time
  <2>2. (q + 7) * DayLen + s.at = Time(s, q + 7) BY <1>0, <1>1 DEF Time
  <2> QED BY <2>1, <2>2 DEF nextRun, weeklyNextRun
<1>4. \A d \in Int : d >= q /\ d % 7 = s.day => q + numDays <= d
  BY <1>0, <1>1, <1>2 DEF Weekday
<1> HIDE DEF q, numDays
<1>5. CASE now < Time(s, q + numDays)
  <2>1. IsNext(s, now, q + numDays)
    BY <1>1, <1>2, <1>4, <1>5, FirstDay, DaysAreInt DEF IsNext, q
  <2>2. ~(now >= Time(s, q + numDays)) BY <1>0, <1>1, <1>2, <1>5 DEF Time
  <2> QED BY <1>1, <1>2, <1>3, <2>1, <2>2
<1>6. CASE ~(now < Time(s, q + numDays))
  <2>0. now >= Time(s, q + numDays) BY <1>0, <1>1, <1>2, <1>6 DEF Time
  <2>1. numDays = 0
    <3> SUFFICES ASSUME numDays # 0 PROVE FALSE OBVIOUS
    <3>1. q + 1 <= q + numDays /\ q + numDays \in Int /\ q + 1 \in Int BY <1>1, <1>2
    <3>2. DayLen * (q + 1) <= DayLen * (q + numDays) BY <3>1, DayOrder, DayAssumption
    <3>3. now < DayLen * (q + 1) + s.at BY FirstDay DEF Time, q
    <3>4. DayLen * (q + 1) \in Int /\ DayLen * (q + numDays) \in Int BY <1>0, <3>1
    <3> QED BY <1>0, <2>0, <3>2, <3>3, <3>4 DEF Time
  <2>2. q % 7 = s.day BY <1>1, <1>2, <2>1
  <2>3. now >= Time(s, q) BY <1>1, <2>0, <2>1
  <2>4. \A d \in Int : now < Time(s, d) => q < d BY <2>3, FirstDay DEF q
  <2>5. \A d \in Int : q < d /\ d % 7 = q % 7 => q + 7 <= d BY <1>1
  <2>6. now < Time(s, q + 7)
    <3>1. DayLen * (q + 1) <= DayLen * (q + 7) BY <1>0, <1>1, DayOrder
    <3>2. now < DayLen * (q + 1) + s.at BY FirstDay DEF Time, q
    <3>3. DayLen * (q + 7) \in Int /\ DayLen * (q + 1) \in Int BY <1>0, <1>1
    <3>4. now < DayLen * (q + 7) + s.at BY <1>0, <3>1, <3>2, <3>3
    <3> QED BY <3>4 DEF Time
  <2>7. IsNext(s, now, q + 7) BY <1>1, <1>2, <2>2, <2>4, <2>5, <2>6, DaysAreInt DEF IsNext
  <2> QED BY <1>1, <1>3, <2>0, <2>7
<1> QED BY <1>5, <1>6

\* A monthly job whose day is not past runs on that day of this month or the next.
LEMMA MonthlyNext ==
  ASSUME NEW s, JobTyped(s), s.kind = "monthly", InEveryMonth(s),
         NEW now \in Instants, DayInMonth(DayOf(now)) <= s.day
  PROVE  \E D \in Int : nextRun(s, now) = Time(s, D) /\ IsNext(s, now, D)
<1> DEFINE q  == DayOf(now)
           m  == MonthOf(q)
           D0 == First[m] + s.day - 1
           D1 == First[m + 1] + s.day - 1
<1>0. DayLen \in Nat \ {0} /\ s.at \in Nat /\ s.day \in Int BY DayAssumption DEF JobTyped
<1>1. /\ q \in Days /\ q \in Nat /\ m \in Months /\ m \in Int
      /\ First[m] \in Nat /\ First[m + 1] \in Nat
      /\ First[m] <= q /\ q < First[m + 1] /\ now \in Nat
  BY InstantInCalendar, InstantsAreNat, MonthOfDay, CalendarFacts DEF Days
<1>2. \A n \in Months : 1 <= s.day /\ First[n] + s.day <= First[n + 1] BY DEF InEveryMonth
<1>3. s.day - DayInMonth(q) >= 0
  <2>1. DayInMonth(q) = q - First[m] + 1 BY DEF DayInMonth
  <2> HIDE DEF q, m
  <2>2. DayInMonth(q) \in Int BY <1>1, <2>1
  <2> QED BY <1>0, <2>2 DEF q
<1>4. nextRun(s, now) = IF now >= Time(s, D0) THEN Time(s, D1) ELSE Time(s, D0)
  <2>1. Date(m, s.day, s.at) = Time(s, D0) /\ Date(m + 1, s.day, s.at) = Time(s, D1)
    <3> HIDE DEF m
    <3> QED BY <1>0, <1>1 DEF Date, Time
  <2> QED BY <1>3, <2>1 DEF nextRun, monthlyNextRun
<1> HIDE DEF q
<1>5. \A d \in Days : Due(s, d) <=> d = First[MonthOf(d)] + s.day - 1
  <2> SUFFICES ASSUME NEW d \in Days PROVE Due(s, d) <=> d = First[MonthOf(d)] + s.day - 1
    OBVIOUS
  <2>1. d \in Nat /\ First[MonthOf(d)] \in Nat
    BY MonthOfDay, CalendarFacts DEF Days
  <2>2. Due(s, d) <=> d - First[MonthOf(d)] + 1 = s.day BY DEF Due, DayInMonth
  <2> QED BY <1>0, <2>1, <2>2
\* The day of the job is in its month.
<1>6. ASSUME NEW n \in Months, First[n] + s.day - 1 \in Days
      PROVE  MonthOf(First[n] + s.day - 1) = n
  <2>1. First[n] \in Nat /\ First[n + 1] \in Nat BY CalendarFacts
  <2>2. First[n] <= First[n] + s.day - 1 /\ First[n] + s.day - 1 < First[n + 1]
    BY <1>0, <1>2, <2>1
  <2> QED BY <1>6, <2>2, MonthIsUnique DEF Days
<1> HIDE DEF m
<1>7. D0 \in Int /\ D1 \in Int /\ D0 < First[m + 1] /\ First[m + 1] <= D1 /\ q < D1
  BY <1>0, <1>1, <1>2
<1>8. D0 \in Days => Due(s, D0) BY <1>1, <1>5, <1>6
<1>9. D1 \in Days => Due(s, D1)
  <2> SUFFICES ASSUME D1 \in Days PROVE Due(s, D1) OBVIOUS
  <2>1. m + 1 \in Months
    <3> SUFFICES ASSUME m + 1 \notin Months PROVE FALSE OBVIOUS
    <3>1. m + 1 = Len(First) BY <1>1, CalendarFacts DEF Months
    <3>2. D1 < First[m + 1] BY <1>1, <3>1 DEF Days, CalendarDays
    <3> QED BY <1>1, <1>7, <3>2
  <2> QED BY <1>5, <1>6, <2>1
\* A due day of this month is D0, and of a later one no earlier than D1.
<1>10. ASSUME NEW d \in Days, Due(s, d), q <= d PROVE d = D0 \/ D1 <= d
  <2> DEFINE n == MonthOf(d)
  <2>1. n \in Months /\ n \in Int /\ m <= n /\ d = First[n] + s.day - 1 /\ First[n] \in Nat
    BY <1>1, <1>5, <1>10, MonthOfDay, MonthsInOrder, CalendarFacts DEF Days, m
  <2> HIDE DEF n
  <2>2. CASE m = n BY <2>1, <2>2
  <2>3. CASE m < n
    <3>1. First[m + 1] <= First[n] BY <1>1, <2>1, <2>3, CalendarFacts
    <3> QED BY <1>0, <1>1, <2>1, <3>1
  <2> QED BY <1>1, <2>1, <2>2, <2>3
<1>11. \A d \in Days : now < Time(s, d) => q <= d
  BY <1>1, FirstDay, DaysAreInt DEF q
<1>12. Time(s, D0) \in Int /\ Time(s, D1) \in Int BY <1>7, TimeIsInt
<1>13. now < Time(s, D1)
  <2>1. now < Time(s, q + 1) BY <1>1, FirstDay DEF q
  <2>2. CASE q + 1 = D1 BY <2>1, <2>2
  <2>3. CASE q + 1 < D1
    <3>1. Time(s, q + 1) + DayLen <= Time(s, D1) /\ Time(s, q + 1) \in Int
      BY <1>1, <1>7, <2>3, TimeOrder, TimeIsInt
    <3> QED BY <1>0, <1>1, <1>12, <2>1, <3>1
  <2> QED BY <1>1, <1>7, <2>2, <2>3
<1> HIDE DEF D0, D1
<1>14. CASE now < Time(s, D0)
  <2>1. D0 < D1 BY <1>1, <1>7
  <2>2. \A d \in Days : Due(s, d) /\ now < Time(s, d) => D0 <= d
    BY <1>7, <1>10, <1>11, <2>1, DaysAreInt
  <2>3. ~(now >= Time(s, D0)) BY <1>1, <1>12, <1>14
  <2> QED BY <1>4, <1>7, <1>8, <1>14, <2>2, <2>3 DEF IsNext
<1>15. CASE ~(now < Time(s, D0))
  <2>1. \A d \in Days : Due(s, d) /\ now < Time(s, d) => D1 <= d
    BY <1>7, <1>10, <1>11, <1>15
  <2>2. now >= Time(s, D0) BY <1>1, <1>12, <1>15
  <2> QED BY <1>4, <1>7, <1>9, <1>13, <2>1, <2>2 DEF IsNext
<1> QED BY <1>14, <1>15

\* Whatever its day, a monthly job is set for an instant to come.
LEMMA MonthlyLater ==
  ASSUME NEW s, JobTyped(s), s.kind = "monthly", NEW now \in Instants
  PROVE  nextRun(s, now) \in Int /\ now < nextRun(s, now)
<1> DEFINE q == DayOf(now)
           m == MonthOf(q)
           day == DayInMonth(q)
           diff == s.day - day
           numDays == IF diff >= 0 THEN s.day ELSE day + (-1 * diff)
           D0 == First[m] + numDays - 1
           D1 == First[m + 1] + numDays - 1
<1>0. DayLen \in Nat \ {0} /\ s.at \in Nat /\ s.day \in Int BY DayAssumption DEF JobTyped
<1>1. /\ q \in Nat /\ m \in Int /\ First[m] \in Nat /\ First[m + 1] \in Nat
      /\ First[m] <= q /\ q < First[m + 1] /\ now \in Nat /\ day = q - First[m] + 1
  BY InstantInCalendar, InstantsAreNat, MonthOfDay, CalendarFacts DEF Days, DayInMonth
<1> HIDE DEF q, m, day
<1>2. numDays \in Int /\ numDays >= day /\ day >= 1 BY <1>0, <1>1
<1> HIDE DEF numDays
<1>3. D0 \in Int /\ D1 \in Int /\ q < D1 BY <1>1, <1>2
<1>4. nextRun(s, now) = IF now >= Time(s, D0) THEN Time(s, D1) ELSE Time(s, D0)
  <2>1. Date(m, numDays, s.at) = Time(s, D0) /\ Date(m + 1, numDays, s.at) = Time(s, D1)
    BY <1>0, <1>1, <1>2 DEF Date, Time
  <2> QED BY <2>1 DEF nextRun, monthlyNextRun, q, m, day, numDays
<1> HIDE DEF D0, D1
<1>5. now < Time(s, D1)
  <2>1. now < Time(s, q + 1) BY <1>1, FirstDay DEF q
  <2>2. CASE q + 1 = D1 BY <2>1, <2>2
  <2>3. CASE q + 1 < D1
    <3>1. Time(s, q + 1) + DayLen <= Time(s, D1) /\ Time(s, q + 1) \in Int /\ Time(s, D1) \in Int
      BY <1>1, <1>3, <2>3, TimeOrder, TimeIsInt
    <3> QED BY <1>0, <1>1, <2>1, <3>1
  <2> QED BY <1>1, <1>3, <2>2, <2>3
<1>6. Time(s, D0) \in Int /\ Time(s, D1) \in Int BY <1>3, TimeIsInt
<1> QED BY <1>1, <1>4, <1>5, <1>6

LEMMA NextIsLater ==
  ASSUME NEW s, JobTyped(s), NEW now \in Instants
  PROVE  nextRun(s, now) \in Nat /\ now < nextRun(s, now)
<1>1. now \in Nat BY InstantsAreNat
<1>2. CASE s.kind = "monthly" BY <1>1, <1>2, MonthlyLater
<1>3. CASE s.kind \in {"daily", "weekly"}
  <2>1. PICK D \in Int : nextRun(s, now) = Time(s, D) /\ IsNext(s, now, D)
    BY <1>1, <1>3, DailyNext, WeeklyNext
  <2>2. Time(s, D) \in Int /\ now < Time(s, D) BY <2>1, TimeIsInt DEF IsNext
  <2> QED BY <1>1, <2>1, <2>2
<1> QED BY <1>2, <1>3 DEF JobTyped

-----------------------------------------------------------------------------
(***************************************************************************)
(* Types.                                                                  *)
(***************************************************************************)
LEMMA InitialInstants == Init => start \in Instants
<1> SUFFICES ASSUME NEW d \in StartDays, NEW t \in 0..(DayLen - 1)
             PROVE  DayLen * d + t \in Instants
  BY DEF Init
<1> DEFINE N == First[Len(First)]
<1>1. d \in Nat /\ d < N /\ N \in Nat /\ DayLen \in Nat \ {0}
  BY StartAssumption, DayAssumption, CalendarFacts, CalendarAssumption DEF Days, CalendarDays
<1> HIDE DEF N
<1>2. DayLen * (d + 1) <= DayLen * N BY <1>1, DayOrder
<1>3. DayLen * (d + 1) = DayLen * d + DayLen BY <1>1
<1>4. DayLen * d \in Nat /\ DayLen * N \in Nat BY <1>1
<1> QED BY <1>1, <1>2, <1>3, <1>4 DEF Instants, N

LEMMA TypeInit == Init => TypeOK
<1> SUFFICES ASSUME Init PROVE TypeOK OBVIOUS
<1>0. start \in Instants /\ start \in Nat BY InitialInstants, InstantsAreNat
<1>1. start \in Instants /\ clock = start /\ start \in Nat BY <1>0 DEF Init
<1>2. jobs \subseteq AllJobs BY DEF Init, AllJobs
<1>3. \A j \in jobs : nextRun(j, start) \in Nat /\ start < nextRun(j, start)
  BY <1>1, <1>2, NextIsLater, JobsTyped
<1> QED BY <1>1, <1>2, <1>3 DEF Init, TypeOK

LEMMA TypeStep == TypeOK /\ [Next]_vars => TypeOK'
<1> SUFFICES ASSUME TypeOK, [Next]_vars PROVE TypeOK' OBVIOUS
<1> USE DEF TypeOK
<1>0. clock \in Nat /\ start \in Nat BY InstantsAreNat
<1>1. CASE Tick BY <1>0, <1>1 DEF Tick
<1>2. ASSUME NEW j \in AllJobs, Fire(j) PROVE TypeOK'
  <2>1. nextRun(j, clock) \in Nat /\ start < nextRun(j, clock)
    BY <1>0, NextIsLater, JobsTyped
  <2>2. DayOf(clock) \in Days BY InstantInCalendar
  <2> QED BY <1>2, <2>1, <2>2 DEF Fire
<1>3. ASSUME NEW j \in AllJobs, RunJob(j) PROVE TypeOK' BY <1>3 DEF RunJob
<1>4. ASSUME NEW j \in AllJobs, TakeAlarm(j) PROVE TypeOK' BY <1>4 DEF TakeAlarm
<1>5. CASE Stop BY <1>5 DEF Stop
<1>6. CASE UNCHANGED vars BY <1>6 DEF vars
<1> QED BY <1>1, <1>2, <1>3, <1>4, <1>5, <1>6 DEF Next, JobStep

\* Every variable keeps its type, for any calendar and any rows of the schedule,
\* also those with days that no month has: a timer is always set for an instant
\* after the start, and only jobs of the schedule are started.
THEOREM TypeCorrect == Spec => []TypeOK
BY TypeInit, TypeStep, PTL DEF Spec

-----------------------------------------------------------------------------
(***************************************************************************)
(* The jobs.  Between start and its next wake-up a job has gone off on     *)
(* every due day, and the clock is never more than MaxLate past a wake-up; *)
(* so whoever fires still fires on the day the timer was set for.          *)
(***************************************************************************)
\* The time of a job plus the delay of its timer lies within the day; a monthly
\* job has a day that every month has and that is not past at the start.
Regular ==
  \A j \in AllJobs :
    /\ j.at + MaxLate < DayLen
    /\ j.kind = "monthly" =>
         InEveryMonth(j) /\ \A d \in StartDays : DayInMonth(d) <= j.day

OnTime(j) ==
  /\ \E D \in Int : wake[j] = Time(j, D) /\ (D \in Days => Due(j, D))
  /\ clock <= wake[j] + MaxLate
  /\ \A d \in FiredOn(j) : Due(j, d) /\ Time(j, d) < wake[j]
  /\ \A d \in Days : Due(j, d) /\ start < Time(j, d) /\ Time(j, d) < wake[j] => d \in FiredOn(j)

ScheduleInv == TypeOK /\ \A j \in jobs : OnTime(j)

LEMMA NextRun ==
  ASSUME Regular, NEW j \in AllJobs, NEW now \in Instants,
         j.kind = "monthly" => DayInMonth(DayOf(now)) <= j.day
  PROVE  \E D \in Int : nextRun(j, now) = Time(j, D) /\ IsNext(j, now, D)
BY JobsTyped, InstantsAreNat, DailyNext, WeeklyNext, MonthlyNext DEF JobTyped, Regular

LEMMA DueNow == ASSUME NEW s, s.kind = "monthly", NEW d, Due(s, d) PROVE DayInMonth(d) = s.day
BY DEF Due

\* The day of an instant between the time of a job and MaxLate ticks later.
LEMMA DayOfDelay ==
  ASSUME Regular, NEW j \in AllJobs, NEW D \in Int, NEW t \in Int,
         Time(j, D) <= t, t <= Time(j, D) + MaxLate
  PROVE  DayOf(t) = D
<1>1. DayLen * D \in Int /\ DayLen \in Nat \ {0} /\ MaxLate \in Nat BY DayAssumption
<1>2. j.at \in Nat /\ j.at + MaxLate < DayLen
  BY <1>1, JobsTyped DEF JobTyped, Regular
<1>3. t - DayLen * D \in Int /\ 0 <= t - DayLen * D /\ t - DayLen * D < DayLen
  BY <1>1, <1>2 DEF Time
<1>4. t = DayLen * D + (t - DayLen * D) BY <1>1
<1> QED BY <1>1, <1>3, <1>4, DayOfInstant DEF DayOf

LEMMA EarlierDay ==
  ASSUME NEW s, JobTyped(s), NEW d \in Int, NEW e \in Int, Time(s, d) < Time(s, e)
  PROVE  d < e
<1> SUFFICES ASSUME e <= d PROVE FALSE OBVIOUS
<1>1. Time(s, d) \in Int /\ Time(s, e) \in Int /\ DayLen \in Nat \ {0} BY TimeIsInt, DayAssumption
<1>2. CASE e = d BY <1>1, <1>2
<1>3. CASE e < d
  <2>1. Time(s, e) + DayLen <= Time(s, d) BY <1>3, TimeOrder
  <2> QED BY <1>1, <2>1
<1> QED BY <1>2, <1>3

LEMMA ScheduleInit == ASSUME Regular PROVE Init => ScheduleInv
<1> SUFFICES ASSUME Init PROVE ScheduleInv OBVIOUS
<1>1. TypeOK BY TypeInit
<1>2. ASSUME NEW j \in jobs PROVE OnTime(j)
  <2>1. JobTyped(j) /\ j \in AllJobs BY <1>1, JobsTyped DEF TypeOK
  <2>2. wake[j] = nextRun(j, start) /\ FiredOn(j) = {} /\ clock = start BY <2>1 DEF Init, FiredOn, Range
  <2>3. start \in Instants /\ start \in Nat BY <1>1, InstantsAreNat DEF TypeOK
  <2>4. j.kind = "monthly" => DayInMonth(DayOf(start)) <= j.day
    <3>1. PICK d \in StartDays, t \in 0..(DayLen - 1) : start = DayLen * d + t BY DEF Init
    <3>2. d \in Int BY StartAssumption, DaysAreInt
    <3>3. DayOf(start) = d BY <3>1, <3>2, DayOfInstant, DayAssumption DEF DayOf
    <3> QED BY <2>1, <3>3 DEF Regular
  <2>5. PICK D \in Int : wake[j] = Time(j, D) /\ IsNext(j, start, D)
    BY <2>1, <2>2, <2>3, <2>4, NextRun
  <2>6. wake[j] \in Int BY <2>1, <2>5, TimeIsInt
  <2>7. clock <= wake[j] + MaxLate BY <2>2, <2>3, <2>5, <2>6, DayAssumption DEF IsNext
  <2>8. ASSUME NEW d \in Days, Due(j, d), start < Time(j, d), Time(j, d) < wake[j] PROVE FALSE
    <3>1. d \in Int BY DaysAreInt
    <3>2. D <= d BY <2>5, <2>8 DEF IsNext
    <3>3. d < D BY <2>1, <2>5, <2>8, <3>1, EarlierDay
    <3> QED BY <3>1, <3>2, <3>3
  <2> QED BY <2>2, <2>5, <2>7, <2>8 DEF OnTime, IsNext
<1> QED BY <1>1, <1>2 DEF ScheduleInv

\* The timer of job j goes off: on the day it was set for, and the next one is
\* set for the next due day after the clock.
LEMMA FireStep ==
  ASSUME Regular, ScheduleInv, NEW j \in AllJobs, Fire(j)
  PROVE  /\ OnTime(j)'
         /\ DayOf(clock) \in Days /\ Due(j, DayOf(clock)) /\ wake[j] = Time(j, DayOf(clock))
<1>1. /\ j \in jobs /\ wake[j] <= clock /\ OnTime(j) /\ JobTyped(j)
      /\ wake'[j] = nextRun(j, clock) /\ fired'[j] = Append(fired[j], DayOf(clock))
      /\ UNCHANGED <<clock, start>>
      /\ clock \in Instants /\ clock \in Nat /\ wake[j] \in Int
      /\ fired[j] \in Seq(Days) /\ start \in Int /\ MaxLate \in Nat
  BY JobsTyped, InstantsAreNat, DayAssumption DEF Fire, ScheduleInv, TypeOK
<1>2. PICK D \in Int : wake[j] = Time(j, D) /\ (D \in Days => Due(j, D)) BY <1>1 DEF OnTime
<1>3. DayOf(clock) = D /\ D \in Days /\ Due(j, D)
  <2>1. Time(j, D) <= clock /\ clock <= Time(j, D) + MaxLate BY <1>1, <1>2 DEF OnTime
  <2> QED BY <1>1, <1>2, <2>1, DayOfDelay, InstantInCalendar
<1>9. FiredOn(j)' = FiredOn(j) \cup {D} /\ FiredOn(j) \subseteq Days
  BY <1>1, <1>3, Appended DEF FiredOn
<1>4. PICK E \in Int : wake'[j] = Time(j, E) /\ IsNext(j, clock, E)
  <2>1. j.kind = "monthly" => DayInMonth(DayOf(clock)) <= j.day
    <3> SUFFICES ASSUME j.kind = "monthly" PROVE DayInMonth(DayOf(clock)) <= j.day OBVIOUS
    <3>1. DayInMonth(DayOf(clock)) = j.day BY <1>3, DueNow
    <3> QED BY <1>1, <3>1 DEF JobTyped
  <2> QED BY <1>1, <2>1, NextRun
<1>5. Time(j, D) \in Int /\ Time(j, E) \in Int BY <1>1, TimeIsInt
<1>6. clock < wake'[j] /\ clock <= wake'[j] + MaxLate /\ Time(j, D) < wake'[j]
  BY <1>1, <1>2, <1>4, <1>5 DEF IsNext
<1>7. ASSUME NEW d \in FiredOn(j) PROVE Due(j, d) /\ Time(j, d) < wake'[j]
  <2>1. Due(j, d) /\ Time(j, d) < wake[j] BY <1>1, <1>7 DEF OnTime
  <2>2. Time(j, d) \in Int BY <1>1, <1>7, <1>9, DaysAreInt, TimeIsInt
  <2> QED BY <1>1, <1>2, <1>4, <1>5, <1>6, <2>1, <2>2
<1>8. ASSUME NEW d \in Days, Due(j, d), start < Time(j, d), Time(j, d) < wake'[j]
      PROVE  d \in FiredOn(j) \cup {D}
  <2>0. Time(j, d) \in Int /\ d \in Int BY <1>1, DaysAreInt, TimeIsInt
  <2>1. CASE Time(j, d) < Time(j, D) BY <1>1, <1>2, <1>8, <2>1 DEF OnTime
  <2>2. CASE Time(j, d) >= Time(j, D)
    <3>1. ~(clock < Time(j, d))
      <4> SUFFICES ASSUME clock < Time(j, d) PROVE FALSE BY <1>1, <2>0
      <4>1. E <= d BY <1>4, <1>8 DEF IsNext
      <4>2. d < E BY <1>1, <1>4, <1>8, <2>0, EarlierDay
      <4> QED BY <2>0, <4>1, <4>2
    <3>2. Time(j, d) <= clock /\ clock <= Time(j, d) + MaxLate
      BY <1>1, <1>2, <1>5, <2>0, <2>2, <3>1 DEF OnTime
    <3>3. DayOf(clock) = d BY <1>1, <2>0, <3>2, DayOfDelay
    <3> QED BY <1>3, <3>3
  <2> QED BY <1>5, <2>0, <2>1, <2>2
<1> QED BY <1>1, <1>2, <1>3, <1>4, <1>6, <1>7, <1>8, <1>9 DEF OnTime, IsNext

LEMMA ScheduleStep == ASSUME Regular PROVE ScheduleInv /\ [Next]_vars => ScheduleInv'
<1> SUFFICES ASSUME ScheduleInv, [Next]_vars PROVE ScheduleInv' OBVIOUS
<1>0. TypeOK /\ TypeOK' BY TypeStep DEF ScheduleInv
<1>1. CASE Tick
  <2>1. UNCHANGED <<start, jobs, wake, fired>> /\ clock' = clock + 1
        /\ \A j \in jobs : clock < wake[j] + MaxLate
    BY <1>1 DEF Tick
  <2>2. ASSUME NEW j \in jobs PROVE OnTime(j)'
    <3>1. OnTime(j) /\ clock \in Nat /\ wake[j] \in Int /\ MaxLate \in Nat
      BY <1>0, DayAssumption, InstantsAreNat DEF ScheduleInv, TypeOK
    <3>2. clock' <= wake[j] + MaxLate BY <2>1, <3>1
    <3> QED BY <2>1, <3>1, <3>2 DEF OnTime, FiredOn
  <2> QED BY <1>0, <2>1, <2>2 DEF ScheduleInv
<1>2. ASSUME NEW j \in AllJobs, Fire(j) PROVE ScheduleInv'
  <2>1. OnTime(j)' BY <1>2, FireStep
  <2>2. /\ wake' = [wake EXCEPT ![j] = nextRun(j, clock)]
        /\ fired' = [fired EXCEPT ![j] = Append(@, DayOf(clock))]
        /\ UNCHANGED <<clock, start, jobs>>
    BY <1>2 DEF Fire
  <2>3. ASSUME NEW i \in jobs, i # j PROVE OnTime(i)'
    <3>1. wake'[i] = wake[i] /\ fired'[i] = fired[i] /\ OnTime(i)
      BY <1>0, <2>2, <2>3 DEF ScheduleInv, TypeOK
    <3> QED BY <2>2, <3>1 DEF OnTime, FiredOn
  <2> QED BY <1>0, <2>1, <2>2, <2>3 DEF ScheduleInv
<1>3. CASE Stop \/ (\E j \in AllJobs : RunJob(j) \/ TakeAlarm(j)) \/ UNCHANGED vars
  BY <1>0, <1>3 DEF Stop, RunJob, TakeAlarm, vars, ScheduleInv, OnTime, FiredOn
<1> QED BY <1>1, <1>2, <1>3 DEF Next, JobStep

LEMMA ScheduleInvariant == ASSUME Regular PROVE Spec => []ScheduleInv
BY ScheduleInit, ScheduleStep, PTL DEF Spec

\* A job goes off on the days its schedule names and on no other, whatever the
\* calendar and whenever the dispatcher starts, as long as its timer is not so
\* late that the day has changed and a monthly job has a day that every month
\* has and that is not past at the start.
THEOREM JobsWhenDue == ASSUME Regular PROVE Spec => []FiresOnlyWhenDue
<1>1. ScheduleInv => FiresOnlyWhenDue
  BY DEF ScheduleInv, OnTime, FiresOnlyWhenDue
<1> QED BY <1>1, ScheduleInvariant, PTL

\* Such a job misses none of its days: each wake-up is the first due instant
\* after the clock, and the clock has not passed the next one when it is set.
THEOREM JobsMissNoDay == ASSUME Regular PROVE Spec => []NoDueDayMissed
<1>1. ScheduleInv => NoDueDayMissed
  <2> SUFFICES ASSUME ScheduleInv, NEW j \in jobs, NEW d \in Days, Due(j, d),
                      start < Time(j, d), Time(j, d) + MaxLate < clock
               PROVE  d \in FiredOn(j)
    BY DEF NoDueDayMissed
  <2>1. OnTime(j) /\ JobTyped(j) BY JobsTyped DEF ScheduleInv, TypeOK
  <2>2. d \in Int /\ Time(j, d) \in Int BY <2>1, TimeIsInt, DaysAreInt
  <2>3. clock \in Nat /\ wake[j] \in Int /\ MaxLate \in Nat
    BY DayAssumption, InstantsAreNat DEF ScheduleInv, TypeOK
  <2>4. Time(j, d) < wake[j] BY <2>1, <2>2, <2>3 DEF OnTime
  <2> QED BY <2>1, <2>2, <2>4 DEF OnTime
<1> QED BY <1>1, ScheduleInvariant, PTL

-----------------------------------------------------------------------------
(***************************************************************************)
(* The schedule implements AlarmClock.                                     *)
(***************************************************************************)
Rung     == [j \in AllJobs |-> [i \in DOMAIN fired[j] |-> Time(j, fired[j][i])]]
DueTimes == [j \in AllJobs |-> {Time(j, d) : d \in {e \in Days : Due(j, e)}}]

LEMMA AlarmInit == Init => Alarm!Init
<1> SUFFICES ASSUME Init PROVE Alarm!Init OBVIOUS
<1>1. clock = start /\ jobs \subseteq AllJobs BY TypeInit DEF Init, TypeOK
<1>2. \A j \in AllJobs : fired[j] = <<>> BY DEF Init
<1>3. \A j \in AllJobs : [i \in DOMAIN fired[j] |-> Time(j, fired[j][i])] = <<>> BY <1>2
<1>4. Rung = [j \in AllJobs |-> <<>>] BY <1>3 DEF Rung
<1> QED BY <1>1, <1>4 DEF Alarm!Init, Rung

\* An alarm of AlarmClock has rung for t when the job went off on a day of that time.
LEMMA HasRungOn ==
  ASSUME NEW j \in AllJobs, NEW t
  PROVE  Alarm!HasRung(j, t) <=> \E d \in FiredOn(j) : t = Time(j, d)
<1>1. Alarm!HasRung(j, t) <=> \E i \in DOMAIN Rung[j] : Rung[j][i] = t
  BY DEF Alarm!HasRung, Rung
<1>2. Rung[j] = [i \in DOMAIN fired[j] |-> Time(j, fired[j][i])] BY DEF Rung
<1> QED BY <1>1, <1>2 DEF FiredOn, Range

LEMMA MappedAppend ==
  ASSUME NEW j, NEW s \in Seq(Days), NEW e \in Days
  PROVE  [k \in DOMAIN Append(s, e) |-> Time(j, Append(s, e)[k])]
           = Append([k \in DOMAIN s |-> Time(j, s[k])], Time(j, e))
<1> DEFINE a == [k \in DOMAIN Append(s, e) |-> Time(j, Append(s, e)[k])]
           r == [k \in DOMAIN s |-> Time(j, s[k])]
           S == {Time(j, d) : d \in Days}
           n == Len(s)
<1>1. /\ n \in Nat /\ DOMAIN s = 1..n /\ DOMAIN Append(s, e) = 1..(n + 1)
      /\ Append(s, e)[n + 1] = e /\ \A k \in 1..n : Append(s, e)[k] = s[k] /\ s[k] \in Days
  OBVIOUS
<1>2. r = [k \in 1..n |-> Time(j, s[k])] BY <1>1
<1> HIDE DEF r, n
<1>3. r \in Seq(S) /\ Len(r) = n
  <2>1. \A k \in 1..n : Time(j, s[k]) \in S BY <1>1
  <2> HIDE DEF S
  <2>2. r \in [1..n -> S] BY <1>2, <2>1
  <2> QED BY <1>1, <2>2
<1>4. Time(j, e) \in S OBVIOUS
<1> HIDE DEF S
<1>5. /\ DOMAIN Append(r, Time(j, e)) = 1..(n + 1)
      /\ Append(r, Time(j, e))[n + 1] = Time(j, e)
      /\ \A k \in 1..n : Append(r, Time(j, e))[k] = r[k]
      /\ Append(r, Time(j, e)) \in Seq(S) /\ Len(Append(r, Time(j, e))) = n + 1
  BY <1>1, <1>3, <1>4
<1>6. \A k \in 1..(n + 1) : a[k] = Append(r, Time(j, e))[k]
  <2> SUFFICES ASSUME NEW k \in 1..(n + 1) PROVE a[k] = Append(r, Time(j, e))[k] OBVIOUS
  <2>1. a[k] = Time(j, Append(s, e)[k]) BY <1>1
  <2> HIDE DEF a
  <2>2. CASE k = n + 1 BY <1>1, <1>5, <2>1, <2>2
  <2>3. CASE k \in 1..n BY <1>1, <1>2, <1>5, <2>1, <2>3
  <2>4. k = n + 1 \/ k \in 1..n BY <1>1
  <2> QED BY <2>2, <2>3, <2>4
<1>7. DOMAIN a = 1..(n + 1) /\ a = [k \in DOMAIN a |-> a[k]] BY <1>1
<1>8. Append(r, Time(j, e)) = [k \in 1..(n + 1) |-> Append(r, Time(j, e))[k]]
  <2> DEFINE b == Append(r, Time(j, e))
  <2>1. b \in Seq(S) /\ Len(b) = n + 1 BY <1>5
  <2> HIDE DEF b
  <2>2. b \in [1..(n + 1) -> S] BY <2>1
  <2>3. b = [k \in 1..(n + 1) |-> b[k]] BY <2>2
  <2> QED BY <2>3 DEF b
<1> HIDE DEF a
<1>9. a = Append(r, Time(j, e)) BY <1>6, <1>7, <1>8
<1> QED BY <1>9 DEF a, r

\* Time passes: a due instant that is MaxLate ago is before the next wake-up,
\* and the job has gone off.
LEMMA AlarmTick == ASSUME ScheduleInv, Tick PROVE Alarm!Tick
<1>1. /\ serving /\ clock' = clock + 1
      /\ \A j \in jobs : clock < wake[j] + MaxLate
      /\ UNCHANGED <<start, jobs, fired, serving>>
  BY DEF Tick
<1>2. ASSUME NEW j \in jobs, NEW t \in DueTimes[j], start < t, t + MaxLate <= clock
      PROVE  Alarm!HasRung(j, t)
  <2>1. j \in AllJobs /\ OnTime(j) /\ JobTyped(j) /\ wake[j] \in Int /\ clock \in Int /\ MaxLate \in Int
    BY JobsTyped, InstantsAreNat, DayAssumption DEF ScheduleInv, TypeOK
  <2>2. PICK d \in Days : Due(j, d) /\ t = Time(j, d) BY <1>2, <2>1 DEF DueTimes
  <2>3. t \in Int BY <2>1, <2>2, DaysAreInt, TimeIsInt
  <2>4. t < wake[j] BY <1>1, <1>2, <2>1, <2>3
  <2>5. d \in FiredOn(j) BY <1>2, <2>1, <2>2, <2>4 DEF OnTime
  <2> QED BY <2>1, <2>2, <2>5, HasRungOn
<1> QED BY <1>1, <1>2 DEF Alarm!Tick, DueTimes

\* The timer goes off: for a due instant that the clock has just passed and for
\* which the job, whose earlier instants are all before its wake-up, has not.
LEMMA AlarmRings ==
  ASSUME Regular, ScheduleInv, NEW j \in AllJobs, Fire(j)
  PROVE  Alarm!Ring(j)
<1> DEFINE D == DayOf(clock)
           t == Time(j, D)
<1>1. D \in Days /\ Due(j, D) /\ wake[j] = t BY FireStep
<1>2. /\ j \in jobs /\ serving /\ t <= clock /\ start < t /\ clock <= t + MaxLate
      /\ \A d \in FiredOn(j) : Time(j, d) < t
      /\ fired' = [fired EXCEPT ![j] = Append(@, D)]
      /\ fired \in [AllJobs -> Seq(Days)]
      /\ UNCHANGED <<clock, start, jobs, serving>>
  BY <1>1 DEF Fire, ScheduleInv, TypeOK, OnTime
<1> HIDE DEF D
<1>3. t \in Int BY <1>1, DaysAreInt, JobsTyped, TimeIsInt
<1> HIDE DEF t
<1>4. t \in DueTimes[j] BY <1>1 DEF DueTimes, t
<1>5. ~Alarm!HasRung(j, t)
  <2> SUFFICES ASSUME NEW d \in FiredOn(j), t = Time(j, d) PROVE FALSE BY HasRungOn
  <2> QED BY <1>2, <1>3
<1>6. Rung' = [Rung EXCEPT ![j] = Append(@, t)]
  <2>1. ASSUME NEW i \in AllJobs
        PROVE  [k \in DOMAIN fired'[i] |-> Time(i, fired'[i][k])]
                 = IF i = j THEN Append(Rung[j], t) ELSE Rung[i]
    <3>1. fired'[i] = IF i = j THEN Append(fired[j], D) ELSE fired[i] BY <1>2
    <3>2. CASE i = j BY <1>1, <1>2, <3>1, <3>2, MappedAppend DEF Rung, t
    <3>3. CASE i # j BY <3>1, <3>3 DEF Rung
    <3> QED BY <3>2, <3>3
  <2>2. Rung' = [i \in AllJobs |-> [k \in DOMAIN fired'[i] |-> Time(i, fired'[i][k])]] BY DEF Rung
  <2>3. Rung = [i \in AllJobs |-> Rung[i]] BY DEF Rung
  <2> QED BY <2>1, <2>2, <2>3
<1> QED BY <1>2, <1>4, <1>5, <1>6 DEF Alarm!Ring, DueTimes, Rung

LEMMA AlarmStep ==
  ASSUME Regular PROVE ScheduleInv /\ [Next]_vars => [Alarm!Next]_(Alarm!vars)
<1> SUFFICES ASSUME ScheduleInv, [Next]_vars PROVE [Alarm!Next]_(Alarm!vars) OBVIOUS
<1>1. CASE Tick BY <1>1, AlarmTick DEF Alarm!Next
<1>2. ASSUME NEW j \in AllJobs, Fire(j) PROVE Alarm!Next
  BY <1>2, AlarmRings DEF Alarm!Next
<1>3. CASE Stop
  BY <1>3 DEF Stop, Alarm!Next, Alarm!SwitchOff
<1>4. CASE (\E j \in AllJobs : RunJob(j) \/ TakeAlarm(j)) \/ UNCHANGED vars
  BY <1>4 DEF RunJob, TakeAlarm, vars, Alarm!vars
<1> QED BY <1>1, <1>2, <1>3, <1>4 DEF Next, JobStep

\* Every behaviour of such a schedule is one of AlarmClock: each job goes off
\* once, and in time, for each day of its schedule.
THEOREM ScheduleKeepsTime == ASSUME Regular PROVE Spec => KeepsTime
BY AlarmInit, AlarmStep, ScheduleInvariant, PTL DEF Spec, KeepsTime, Alarm!Spec
=============================================================================
