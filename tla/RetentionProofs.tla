---------------------------- MODULE RetentionProofs ----------------------------
(***************************************************************************)
(* Theorems about Retention, for any calendar, any data types and terms    *)
(* and any days on which rows are written: rows leave the tables only when *)
(* they are due, none is lost before the term of its own type as long as   *)
(* its schema has no shorter one, the register offers only files that are  *)
(* there, and a backup without an error leaves nothing behind, whatever    *)
(* restores and cleanings run beside it.                                   *)
(***************************************************************************)
EXTENDS Retention, CalendarProofs, TLAPS

-----------------------------------------------------------------------------
(***************************************************************************)
(* The calendar.                                                           *)
(***************************************************************************)
LEMMA Calendar ==
  /\ LastDay \in Nat /\ Len(First) \in Nat /\ Days \subseteq CalendarDays
  /\ \A m \in Months : m \in Int /\ m + 1 \in 1..Len(First)
  /\ \A m \in 1..Len(First) : First[m] \in Nat
  /\ \A m, n \in 1..Len(First) : m < n => First[m] < First[n]
  /\ \A m, n \in 1..Len(First) : m <= n => First[m] <= First[n]
<1>1. First[Len(First)] \in Nat BY CalendarFacts, CalendarAssumption
<1>2. LastDay \in Nat /\ Days \subseteq CalendarDays
  BY <1>1, BoundsAssumption DEF Days, CalendarDays
<1> QED BY <1>2, CalendarFacts

LEMMA Month ==
  ASSUME NEW d \in Days
  PROVE  /\ d \in Nat
         /\ MonthOf(d) \in Months
         /\ First[MonthOf(d)] <= d /\ d < First[MonthOf(d) + 1]
BY MonthOfDay, Calendar

LEMMA MonthOrder ==
  ASSUME NEW d \in Days, NEW e \in Days, d <= e
  PROVE  MonthOf(d) <= MonthOf(e)
BY MonthsInOrder, Calendar

LEMMA FirstOfMonth ==
  ASSUME NEW d \in Days
  PROVE  /\ First[MonthOf(d)] \in Days
         /\ MonthOf(First[MonthOf(d)]) = MonthOf(d)
<1>1. MonthOf(d) \in Months /\ First[MonthOf(d)] <= d /\ First[MonthOf(d)] \in Nat
  BY Month, Calendar DEF Months
<1>2. First[MonthOf(d)] \in Days BY <1>1, Calendar DEF Days
<1> QED BY <1>1, <1>2, FirstIsInMonth

-----------------------------------------------------------------------------
(***************************************************************************)
(* Going back from a day.                                                  *)
(***************************************************************************)
\* The month k before that of d, if there is one, holds the day it leads to.
LEMMA BackIsInMonth ==
  ASSUME NEW d \in Days, NEW k \in Nat
  PROVE  LET m == MonthOf(d) - k
         IN  /\ MonthsBefore(d, k) \in Int
             /\ m \notin Months => MonthsBefore(d, k) = -1
             /\ m \in Months => /\ First[m] <= MonthsBefore(d, k)
                                /\ MonthsBefore(d, k) < First[m + 1]
<1> DEFINE m == MonthOf(d) - k
           f == First[MonthOf(d)]
           day == First[m] + (d - f)
<1>1. d \in Nat /\ MonthOf(d) \in Months /\ f <= d /\ f \in Nat
  BY Month, Calendar DEF Months
<1>2. CASE m \notin Months BY <1>2 DEF MonthsBefore
<1>3. CASE m \in Months
  <2>1. First[m] \in Nat /\ First[m + 1] \in Nat /\ First[m] < First[m + 1]
    BY <1>3, Calendar DEF Months
  <2>2. MonthsBefore(d, k) = IF day < First[m + 1] THEN day ELSE First[m + 1] - 1
    BY <1>3 DEF MonthsBefore
  <2> HIDE DEF m, f
  <2>3. day \in Int /\ First[m] <= day BY <1>1, <2>1
  <2> HIDE DEF day
  <2> QED BY <2>1, <2>2, <2>3, <1>3 DEF m
<1> QED BY <1>2, <1>3

LEMMA BackOrder ==
  ASSUME NEW d \in Days, NEW e \in Days, d <= e, NEW k \in Nat
  PROVE  MonthsBefore(d, k) <= MonthsBefore(e, k)
<1> DEFINE m == MonthOf(d) - k
           n == MonthOf(e) - k
           x == MonthsBefore(d, k)
           y == MonthsBefore(e, k)
<1>1. m \in Int /\ n \in Int /\ m <= n /\ n <= MonthOf(e) /\ MonthOf(e) \in Months
  BY Month, MonthOrder, Calendar
<1>2. /\ x \in Int /\ y \in Int
      /\ m \notin Months => x = -1
      /\ m \in Months => First[m] <= x /\ x < First[m + 1]
      /\ n \notin Months => y = -1
      /\ n \in Months => First[n] <= y /\ y < First[n + 1]
  BY BackIsInMonth
<1>3. CASE m \notin Months
  BY <1>2, <1>3, Calendar DEF Months
<1>4. CASE m \in Months /\ m < n
  <2>1. n \in Months BY <1>1, <1>4, Calendar DEF Months
  <2>2. First[m + 1] <= First[n] BY <1>1, <1>4, <2>1, Calendar DEF Months
  <2>3. First[m + 1] \in Nat /\ First[n] \in Nat BY <1>4, <2>1, Calendar DEF Months
  <2> HIDE DEF m, n
  <2> QED BY <1>2, <1>4, <2>1, <2>2, <2>3
<1>5. CASE m \in Months /\ m = n
  <2> DEFINE f == First[MonthOf(d)]
             u == First[m] + (d - f)
             v == First[m] + (e - f)
  <2>1. MonthOf(d) = MonthOf(e) BY <1>5, Month, Calendar
  <2>2. d \in Nat /\ e \in Nat /\ f \in Nat BY Month, Calendar DEF Months
  <2>3. First[m] \in Nat /\ First[m + 1] \in Nat BY <1>5, Calendar DEF Months
  <2>4. x = IF u < First[m + 1] THEN u ELSE First[m + 1] - 1 BY <1>5 DEF MonthsBefore
  <2>5. y = IF v < First[m + 1] THEN v ELSE First[m + 1] - 1 BY <1>5, <2>1 DEF MonthsBefore
  <2> HIDE DEF m, n, f
  <2> QED BY <2>2, <2>3, <2>4, <2>5
<1> QED BY <1>1, <1>3, <1>4, <1>5

LEMMA BackNotLater ==
  ASSUME NEW d \in Days, NEW k \in Nat
  PROVE  MonthsBefore(d, k) <= d
<1> DEFINE m == MonthOf(d) - k
           x == MonthsBefore(d, k)
           M == MonthOf(d)
<1>1. /\ x \in Int /\ d \in Nat /\ M \in Months /\ M \in Int /\ First[M] <= d
      /\ m \notin Months => x = -1
      /\ m \in Months => x < First[m + 1]
  BY Month, BackIsInMonth, Calendar
<1>2. CASE k = 0
  <2>1. x = IF First[M] + (d - First[M]) < First[M + 1] THEN First[M] + (d - First[M]) ELSE First[M + 1] - 1
    BY <1>1, <1>2 DEF MonthsBefore
  <2>2. First[M] \in Nat /\ First[M + 1] \in Nat /\ d < First[M + 1]
    BY <1>1, Month, Calendar DEF Months
  <2> HIDE DEF M
  <2> QED BY <1>1, <2>1, <2>2
<1>3. CASE k > 0 /\ m \in Months
  <2>1. m + 1 <= M BY <1>1, <1>3
  <2>2. First[m + 1] <= First[M] /\ First[m + 1] \in Nat /\ First[M] \in Nat
    BY <1>1, <1>3, <2>1, Calendar DEF Months
  <2> HIDE DEF M, m
  <2> QED BY <1>1, <1>3, <2>2
<1> QED BY <1>1, <1>2, <1>3

LEMMA BeforeFacts ==
  ASSUME NEW c \in ConfigType, NEW d \in Days
  PROVE  /\ Before(d, c) \in Int /\ Before(d, c) <= d
         /\ \A e \in Days : d <= e => Before(d, c) <= Before(e, c)
<1>1. c.after \in Nat BY DEF ConfigType
<1>2. d \in Nat /\ \A e \in Days : e \in Nat BY Month
<1>3. CASE c.unit = "DAY" BY <1>1, <1>2, <1>3 DEF Before
<1>4. CASE c.unit # "DAY"
  BY <1>1, <1>2, <1>4, BackOrder, BackNotLater, BackIsInMonth DEF Before
<1> QED BY <1>3, <1>4

-----------------------------------------------------------------------------
(***************************************************************************)
(* The tables that are selected.                                           *)
(***************************************************************************)
LEMMA TableFacts ==
  ASSUME NEW c \in ConfigType, NEW d \in Days
  PROVE  /\ TableOf(c, d) \in Days
         /\ c.entity = "table" => TableOf(c, d) <= d
<1>1. c.entity \in {"record", "table"} /\ c.format \in {"day", "month"} BY DEF ConfigType
<1>2. d \in Nat /\ First[MonthOf(d)] <= d /\ First[MonthOf(d)] \in Days /\ 0 \in Days
  BY Month, FirstOfMonth, Calendar DEF Days
<1> QED BY <1>1, <1>2 DEF TableOf

LEMMA RefDateFacts ==
  ASSUME NEW c \in ConfigType, NEW s \in Days
  PROVE  /\ RefDate(c, s) \in Int /\ RefDate(c, s) <= s
         /\ \A t \in Days : s <= t => RefDate(c, s) <= Before(t, c)
<1> DEFINE f == IF c.format = "month" THEN First[MonthOf(s)] ELSE s
<1>1. f \in Days /\ f <= s /\ s \in Nat /\ f \in Nat
  BY Month, FirstOfMonth
<1>2. RefDate(c, s) = Before(f, c) BY DEF RefDate
<1> HIDE DEF f
<1>3. Before(f, c) \in Int /\ Before(f, c) <= f BY <1>1, BeforeFacts
<1>4. ASSUME NEW t \in Days, s <= t PROVE Before(f, c) <= Before(t, c)
  <2>1. f <= t BY <1>1, <1>4, Month
  <2> QED BY <1>1, <2>1, BeforeFacts
<1> QED BY <1>1, <1>2, <1>3, <1>4

\* With whole months, every row of a table taken on day s is past the term then.
LEMMA SelectedIsPast ==
  ASSUME NEW c \in ConfigType, c.entity = "table", WholeTables(c),
         NEW s \in Days, NEW d \in Days, TableOf(c, d) < RefDate(c, s)
  PROVE  d < RefDate(c, s)
<1>1. c.format \in {"day", "month"} /\ c.unit \in {"DAY", "MONTH"} /\ c.after \in Nat BY DEF ConfigType
<1>2. CASE c.format = "day" BY <1>2 DEF TableOf
<1>3. CASE c.format = "month"
  <2> DEFINE m == MonthOf(d)
             M == MonthOf(s)
             n == M - c.after
  <2>1. /\ m \in Months /\ M \in Months /\ d < First[m + 1] /\ d \in Nat
        /\ First[M] \in Days /\ MonthOf(First[M]) = M
    BY Month, FirstOfMonth
  <2>2. TableOf(c, d) = First[m] BY <1>3 DEF TableOf
  <2>3. RefDate(c, s) = Before(First[M], c) BY <1>3 DEF RefDate
  <2>4. RefDate(c, s) = IF n \in Months THEN First[n] ELSE -1
    <3>1. CASE c.unit = "MONTH"
      <4>1. RefDate(c, s) = MonthsBefore(First[M], c.after) BY <3>1, <2>3 DEF Before
      <4>2. First[M] \in Nat BY <2>1, Month
      <4>3. ASSUME n \in Months
            PROVE  First[n] + (First[M] - First[M]) = First[n] /\ First[n] < First[n + 1]
        <5>1. First[n] \in Nat /\ First[n] < First[n + 1] BY <4>3, Calendar DEF Months
        <5> HIDE DEF n, M
        <5> QED BY <4>2, <5>1
      <4> QED BY <4>1, <4>3, <2>1 DEF MonthsBefore
    <3>2. CASE c.after = 0 /\ c.unit = "DAY"
      <4>1. First[M] \in Nat BY <2>1, Month
      <4>2. RefDate(c, s) = First[M] - 0 BY <3>2, <2>3 DEF Before
      <4>3. n = M BY <3>2, <2>1, Calendar
      <4> QED BY <4>1, <4>2, <4>3, <2>1
    <3> QED BY <1>1, <1>3, <3>1, <3>2 DEF WholeTables
  <2>5. First[m] \in Nat /\ First[m + 1] \in Nat BY <2>1, Calendar DEF Months
  <2>6. n \in Months /\ First[m] < First[n]
    <3> HIDE DEF m, n
    <3> QED BY <2>2, <2>4, <2>5
  <2>7. m < n
    <3>1. m \in 1..Len(First) /\ n \in 1..Len(First) /\ m \in Int /\ n \in Int
      BY <2>1, <2>6, Calendar DEF Months
    <3>2. n < m => First[n] < First[m] BY <3>1, Calendar
    <3> HIDE DEF m, n
    <3> QED BY <3>1, <3>2, <2>5, <2>6, Calendar
  <2>8. First[m + 1] <= First[n] /\ First[n] \in Nat
    <3>1. m + 1 \in 1..Len(First) /\ n \in 1..Len(First) /\ m + 1 <= n
      BY <2>1, <2>6, <2>7, Calendar DEF Months
    <3> HIDE DEF m, n
    <3> QED BY <3>1, Calendar
  <2> HIDE DEF m, n
  <2> QED BY <2>1, <2>4, <2>5, <2>6, <2>8
<1> QED BY <1>1, <1>2, <1>3

-----------------------------------------------------------------------------
(***************************************************************************)
(* Types.                                                                  *)
(***************************************************************************)
ConfigInv == config \in [Types -> ConfigType]

LEMMA ConfigTyped == TypeOK => ConfigInv
BY ConfigAssumption DEF TypeOK, ConfigInv

LEMMA TypesKept ==
  ASSUME TypeOK, [Next]_vars
  PROVE  TypeOK'
<1> USE DEF TypeOK
<1>0. ConfigInv /\ today \in Nat /\ 0 \in Days /\ Days \subseteq Nat
  BY ConfigTyped, Calendar DEF Days
<1>1. CASE NewDay
  <2>1. today + 1 \in Days BY <1>0, <1>1, Calendar DEF NewDay, Days
  <2>2. rows' \in [Types -> SUBSET Days]
    BY <1>1, RowsAssumption DEF NewDay
  <2> QED BY <1>1, <2>1, <2>2 DEF NewDay, register
<1>2. ASSUME NEW t \in Types, Select(t) PROVE TypeOK'
  <2>1. \A d \in Days : TableOf(config[t], d) \in Days
    BY <1>0, TableFacts DEF ConfigInv
  <2>2. /\ bak'.at = "tables" /\ bak'.type = t /\ bak'.since = today
        /\ bak'.todo \subseteq Days
    BY <1>2, <2>1 DEF Select, BackupIdle
  <2> QED BY <1>2, <2>2, <1>0, TypesAssumption DEF Select, BackupIdle, NoTable, register
<1>3. ASSUME NEW b \in Days, BeginTable(b) PROVE TypeOK'
  <2>1. DatesToBackup(bak.type, b) \subseteq Days
    BY <1>3 DEF BeginTable, DatesToBackup
  <2>2. b # NoTable BY <1>0 DEF NoTable
  <2> QED BY <1>3, <2>1, <2>2 DEF BeginTable, register
<1>4. ASSUME NEW d \in Days, ArchiveDay(d) PROVE TypeOK'
  BY <1>4 DEF ArchiveDay
<1>5. ASSUME NEW d \in Days, SkipDay(d) PROVE TypeOK'
  BY <1>5 DEF SkipDay, register
<1>6. CASE LeaveTable
  BY <1>6 DEF LeaveTable, register
<1>7. ASSUME FailTable \/ \E d \in Days : FailDay(d) PROVE TypeOK'
  <2>1. CASE FailTable BY <2>1 DEF FailTable, register
  <2>2. ASSUME NEW d \in Days, FailDay(d) PROVE TypeOK'
    <3>1. bak.type \in Types /\ d \in Days BY <2>2 DEF FailDay
    <3>2. file' \in [Types -> SUBSET Days] BY <2>2, <3>1 DEF FailDay
    <3>3. known' \in [Types -> SUBSET Days] BY <2>2, <3>1 DEF FailDay
    <3> QED BY <2>2, <3>1, <3>2, <3>3 DEF FailDay, register
  <2> QED BY <1>7, <2>1, <2>2
<1>8. CASE EndBackup
  BY <1>8, <1>0 DEF EndBackup, BackupIdle, NoTable, register
<1>9. ASSUME NEW t \in Types, NEW d \in Days, Restore(t, d) PROVE TypeOK'
  BY <1>9, RestoresAssumption DEF Restore
<1>10. ASSUME NEW t \in Types, NEW d \in Days, ListFolder(t, d) PROVE TypeOK'
  <2>1. config[t].schema \in {"s1", "s2"} BY <1>0 DEF ConfigInv, ConfigType
  <2> QED BY <1>10, <2>1 DEF ListFolder, register
<1>11. ASSUME NEW u \in Types, RemoveFile(u) PROVE TypeOK'
  BY <1>11, TypesAssumption DEF RemoveFile, register
<1>12. CASE MarkDeleted
  BY <1>12, TypesAssumption DEF MarkDeleted
<1>13. CASE EndFolder
  BY <1>13, <1>0 DEF EndFolder, CleanerIdle, register
<1>14. CASE UNCHANGED vars
  BY <1>14 DEF vars, register
<1> QED
  BY <1>1, <1>2, <1>3, <1>4, <1>5, <1>6, <1>7, <1>8, <1>9, <1>10, <1>11, <1>12, <1>13, <1>14
  DEF Next, Backup, Clean

\* Every variable keeps its type, for any calendar, types and rows: the names of
\* tables that Select collects are days, and the cleaner has a file in hand
\* exactly between its removal and its line of the register.
THEOREM TypeCorrect == Spec => []TypeOK
<1>1. Init => TypeOK
  <2> SUFFICES ASSUME Init PROVE TypeOK OBVIOUS
  <2>1. today \in Days /\ 0 \in Days BY BoundsAssumption, Calendar DEF Init, Days
  <2> QED BY <2>1, RowsAssumption, RestoresAssumption
          DEF Init, TypeOK, BackupIdle, CleanerIdle, NoTable
<1> QED BY <1>1, TypesKept, PTL DEF Spec

-----------------------------------------------------------------------------
(***************************************************************************)
(* The tables of a backup stay past their term while the calendar moves    *)
(* on, and so do the dates it has in hand.                                 *)
(***************************************************************************)
Config == config[bak.type]

BackupInv ==
  /\ bak.at # "idle" =>
       /\ bak.since <= today
       /\ Config.entity = "table" => \A b \in bak.todo : b < RefDate(Config, bak.since)
  /\ bak.at = "days" =>
       /\ Config.entity = "table" => bak.table < RefDate(Config, bak.since)
       /\ \A d \in bak.dates : d < CutOff(Config)

LEMMA BackupKept ==
  ASSUME TypeOK, BackupInv, [Next]_vars
  PROVE  BackupInv'
<1>0. /\ TypeOK' /\ ConfigInv /\ config' = config
      /\ today \in Days /\ today' \in Days /\ today \in Nat /\ today' \in Nat /\ Days \subseteq Nat
  <2>1. today \in Days /\ TypeOK' /\ today' \in Days BY TypesKept DEF TypeOK
  <2>2. config' = config
    BY DEF Next, Backup, Clean, NewDay, Select, BeginTable, ArchiveDay, SkipDay, LeaveTable, FailTable, FailDay,
           EndBackup, Restore, ListFolder, RemoveFile, MarkDeleted, EndFolder, vars
  <2> QED BY <2>1, <2>2, ConfigTyped, Calendar DEF Days
<1>1. CASE NewDay
  <2>1. bak' = bak /\ today' = today + 1 BY <1>1 DEF NewDay
  <2>2. ASSUME bak.at = "days", NEW d \in bak.dates PROVE d < CutOff(Config)'
    <3>1. bak.type \in Types /\ Config \in ConfigType /\ d \in Nat BY <2>2, <1>0 DEF TypeOK, ConfigInv, Config
    <3>2. d < Before(today, Config) BY <2>2 DEF BackupInv, CutOff
    <3>3. /\ Before(today, Config) <= Before(today', Config)
          /\ Before(today, Config) \in Int /\ Before(today', Config) \in Int
      BY <3>1, <1>0, <2>1, BeforeFacts
    <3>4. Config' = Config BY <1>0, <2>1 DEF Config
    <3>5. CutOff(Config)' = Before(today', Config) BY <1>0, <3>4 DEF CutOff, Before, MonthsBefore
    <3> QED BY <3>1, <3>2, <3>3, <3>5
  <2>3. bak.at # "idle" => bak.since <= today'
    <3>1. bak.since \in Nat BY <1>0 DEF TypeOK
    <3> QED BY <3>1, <1>0, <2>1 DEF BackupInv
  <2>4. Config' = Config BY <1>0, <2>1 DEF Config
  <2> QED BY <2>1, <2>2, <2>3, <2>4 DEF BackupInv
<1>2. ASSUME NEW t \in Types, Select(t) PROVE BackupInv'
  <2>1. /\ bak'.at = "tables" /\ bak'.type = t /\ bak'.since = today /\ today' = today
        /\ bak'.todo = {b \in {TableOf(config[t], d) : d \in rows[t]} : Selected(config[t], b, today)}
    BY <1>2 DEF Select, BackupIdle
  <2>2. Config' = config[t] BY <1>0, <2>1 DEF Config
  <2> QED BY <2>1, <2>2, <1>0 DEF BackupInv, Selected
<1>3. ASSUME NEW b \in Days, BeginTable(b) PROVE BackupInv'
  <2>1. /\ bak.at = "tables" /\ b \in bak.todo /\ today' = today
        /\ bak'.type = bak.type /\ bak'.since = bak.since /\ bak'.todo \subseteq bak.todo
        /\ bak'.at = "days" => bak'.table = b /\ bak'.dates = DatesToBackup(bak.type, b)
    BY <1>3 DEF BeginTable, TypeOK
  <2>2. Config' = Config BY <1>0, <2>1 DEF Config
  <2>3. \A d \in DatesToBackup(bak.type, b) : d < CutOff(Config) BY DEF DatesToBackup, Config
  <2>4. CutOff(Config)' = CutOff(Config) BY <2>1, <2>2 DEF CutOff
  <2> QED BY <2>1, <2>2, <2>3, <2>4 DEF BackupInv
<1>4. ASSUME \/ \E d \in Days : ArchiveDay(d) \/ SkipDay(d) \/ FailDay(d)
             \/ LeaveTable \/ FailTable \/ EndBackup
      PROVE  BackupInv'
  <2> DEFINE Same ==
        /\ today' = today /\ bak'.dates \subseteq bak.dates
        /\ bak'.at # "idle" => /\ bak.at # "idle" /\ bak'.type = bak.type /\ bak'.since = bak.since
                              /\ bak'.todo = bak.todo
        /\ bak'.at = "days" => bak.at = "days" /\ bak'.table = bak.table
  <2>1. Same
    <3> USE DEF TypeOK
    <3>1. ASSUME NEW d \in Days, ArchiveDay(d) \/ SkipDay(d) \/ FailDay(d) PROVE Same
      BY <3>1 DEF ArchiveDay, SkipDay, FailDay
    <3>2. CASE LeaveTable BY <3>2 DEF LeaveTable
    <3>3. CASE FailTable BY <3>3 DEF FailTable
    <3>4. CASE EndBackup BY <3>4 DEF EndBackup, BackupIdle
    <3> QED BY <1>4, <3>1, <3>2, <3>3, <3>4
  <2>2. bak'.at # "idle" => Config' = Config BY <1>0, <2>1 DEF Config
  <2>3. bak'.at # "idle" => CutOff(Config)' = CutOff(Config) BY <2>1, <2>2 DEF CutOff
  <2> QED BY <2>1, <2>2, <2>3 DEF BackupInv
<1>5. ASSUME \/ \E t \in Types, d \in Days : Restore(t, d)
             \/ Clean \/ UNCHANGED vars
      PROVE  BackupInv'
  <2>1. UNCHANGED <<bak, today, config>>
    BY <1>5 DEF Restore, Clean, ListFolder, RemoveFile, MarkDeleted, EndFolder, vars
  <2> QED BY <2>1 DEF BackupInv, Config, CutOff
<1> QED BY <1>1, <1>2, <1>3, <1>4, <1>5 DEF Next, Backup

\* What the tables of a backup hold is past its term.
LEMMA TablePast ==
  ASSUME TypeOK, BackupInv, bak.at = "days", Config.entity = "table", WholeTables(Config),
         NEW d \in Days, TableOf(Config, d) = bak.table
  PROVE  d < CutOff(Config)
<1>1. bak.type \in Types /\ Config \in ConfigType /\ bak.since \in Days /\ today \in Days /\ d \in Nat
  BY ConfigTyped, Calendar DEF TypeOK, Config, ConfigInv, Days
<1>2. bak.since <= today /\ TableOf(Config, d) < RefDate(Config, bak.since) BY DEF BackupInv
<1>3. d < RefDate(Config, bak.since) BY <1>1, <1>2, SelectedIsPast
<1>4. /\ RefDate(Config, bak.since) \in Int /\ RefDate(Config, bak.since) <= CutOff(Config)
      /\ CutOff(Config) \in Int
  BY <1>1, <1>2, RefDateFacts, BeforeFacts DEF CutOff
<1> QED BY <1>1, <1>3, <1>4

LEMMA InitBackup == Init => BackupInv
BY DEF Init, BackupInv, BackupIdle

LEMMA YoungStay ==
  ASSUME TypeOK, BackupInv, Next,
         NEW t \in Types, WholeTables(config[t]), NEW d \in rows[t] \ rows'[t]
  PROVE  d < CutOff(config[t])
<1>0. d \in Days BY DEF TypeOK
<1>1. CASE \E e \in Days : ArchiveDay(e)
  <2>1. bak.type = t /\ d \in bak.dates /\ bak.at = "days" BY <1>1 DEF ArchiveDay, TypeOK
  <2> QED BY <2>1 DEF BackupInv, Config
<1>2. CASE LeaveTable
  <2>1. /\ bak.type = t /\ bak.at = "days" /\ config[t].entity # "record"
        /\ TableOf(config[t], d) = bak.table
    BY <1>2 DEF LeaveTable, TypeOK
  <2>2. config[t].entity = "table" BY <2>1, ConfigTyped DEF ConfigInv, ConfigType
  <2> QED BY <1>0, <2>1, <2>2, TablePast DEF Config
<1>3. CASE \/ NewDay \/ Clean
           \/ \E u \in Types : Select(u)
           \/ \E b \in Days : BeginTable(b)
           \/ \E e \in Days : SkipDay(e) \/ FailDay(e)
           \/ FailTable \/ EndBackup
           \/ \E u \in Types, e \in Days : Restore(u, e)
  <2>1. CASE UNCHANGED rows BY <2>1
  <2>2. CASE NewDay BY <2>2 DEF NewDay
  <2>3. ASSUME NEW u \in Types, NEW e \in Days, Restore(u, e) PROVE rows[t] \subseteq rows'[t]
    BY <2>3 DEF Restore, TypeOK
  <2>4. UNCHANGED rows \/ NewDay \/ \E u \in Types, e \in Days : Restore(u, e)
    BY <1>3 DEF Clean, ListFolder, RemoveFile, MarkDeleted, EndFolder, Select, BeginTable,
                SkipDay, FailTable, FailDay, EndBackup
  <2> QED BY <2>1, <2>2, <2>3, <2>4
<1> QED BY <1>1, <1>2, <1>3 DEF Next, Backup

\* Rows leave the tables only when arch_data_after has passed since their date,
\* deleted or dropped, for every calendar and every interval of whole months:
\* also when midnight comes between the selection and the drop.
THEOREM OnlyDueRowsLeave == Spec => NothingTooYoung
<1>1. TypeOK /\ BackupInv /\ [Next]_vars
      => [\A t \in Types : WholeTables(config[t]) =>
            \A d \in rows[t] \ rows'[t] : d < CutOff(config[t])]_vars
  BY YoungStay
<1> QED BY <1>1, TypeCorrect, InitBackup, BackupKept, PTL DEF Spec, NothingTooYoung

-----------------------------------------------------------------------------
(***************************************************************************)
(* The cleaner removes, and marks, only what is in a folder that is past   *)
(* the shortest term of its schema; so a day that is in a file and on      *)
(* offer stays so until then.                                              *)
(***************************************************************************)
\* The term of some type of the schema of t is over.
FolderOver(t, d) ==
  \E u \in Types : /\ config[u].schema = config[t].schema
                  /\ config[u].keep > 0 /\ d + config[u].keep <= today

\* For a type that keeps its term that is its own.
LEMMA OwnTerm ==
  ASSUME ConfigInv, TypeOK, NEW t \in Types, KeepsItsTerm(t), NEW d \in Days, FolderOver(t, d)
  PROVE  Expired(t, d)
<1>1. PICK u \in Types : /\ config[u].schema = config[t].schema
                         /\ config[u].keep > 0 /\ d + config[u].keep <= today
  BY DEF FolderOver
<1>2. config[t].keep > 0 /\ config[t].keep <= config[u].keep BY <1>1 DEF KeepsItsTerm
<1>3. config[u].keep \in Nat /\ config[t].keep \in Nat /\ d \in Nat /\ today \in Nat
  BY Calendar DEF ConfigInv, ConfigType, Days, TypeOK
<1> QED BY <1>1, <1>2, <1>3 DEF Expired

Safe(t, d) == (d \in file[t] /\ Offered(t, d)) \/ FolderOver(t, d)

CleanerInv ==
  cln.at # "idle" =>
    /\ \A u \in Types : config[u].schema = cln.schema => FolderOver(u, cln.day)
    /\ \A u \in cln.files : config[u].schema = cln.schema
    /\ cln.at = "mark" => config[cln.file].schema = cln.schema

RegisterInv ==
  \A t \in Types, d \in Days :
    /\ d \in marked[t] => FolderOver(t, d)
    /\ restored[<<t, d>>] # Never => Safe(t, d)

LEMMA ConfigStays == [Next]_vars => config' = config
BY DEF Next, Backup, Clean, NewDay, Select, BeginTable, ArchiveDay, SkipDay, LeaveTable, FailTable, FailDay,
       EndBackup, Restore, ListFolder, RemoveFile, MarkDeleted, EndFolder, vars

LEMMA ClockGoesOn ==
  ASSUME TypeOK, [Next]_vars
  PROVE  today \in Nat /\ today' \in Nat /\ today <= today'
<1>1. today' = today \/ today' = today + 1
  BY DEF Next, Backup, Clean, NewDay, Select, BeginTable, ArchiveDay, SkipDay, LeaveTable, FailTable, FailDay,
         EndBackup, Restore, ListFolder, RemoveFile, MarkDeleted, EndFolder, vars
<1> QED BY <1>1, Calendar DEF TypeOK, Days

LEMMA FolderOverStays ==
  ASSUME TypeOK, [Next]_vars, NEW t \in Types, NEW d \in Days, FolderOver(t, d)
  PROVE  FolderOver(t, d)'
<1>1. PICK u \in Types : /\ config[u].schema = config[t].schema
                         /\ config[u].keep > 0 /\ d + config[u].keep <= today
  BY DEF FolderOver
<1>2. config[u].keep \in Nat /\ d \in Nat
  BY ConfigTyped, Calendar DEF ConfigInv, ConfigType, Days
<1>3. d + config[u].keep <= today' BY <1>1, <1>2, ClockGoesOn
<1> QED BY <1>1, <1>3, ConfigStays DEF FolderOver

LEMMA CleanerKept ==
  ASSUME TypeOK, CleanerInv, [Next]_vars
  PROVE  CleanerInv'
<1>0. config' = config BY ConfigStays
<1>1. ASSUME NEW t \in Types, NEW d \in Days, ListFolder(t, d) PROVE CleanerInv'
  <2>1. /\ cln'.schema = config[t].schema /\ cln'.day = d /\ cln'.at = "remove"
        /\ \A u \in cln'.files : config[u].schema = config[t].schema
        /\ FolderExpired(config[t], d) /\ today' = today
    BY <1>1 DEF ListFolder
  <2>2. config[t].keep \in Nat /\ today \in Nat /\ d \in Nat
    BY ConfigTyped, Calendar DEF ConfigInv, ConfigType, Days, TypeOK
  <2>3. config[t].keep > 0 /\ d + config[t].keep <= today BY <2>1, <2>2 DEF FolderExpired
  <2> QED BY <1>0, <2>1, <2>3 DEF CleanerInv, FolderOver
<1>2. ASSUME NEW u \in Types, RemoveFile(u) PROVE CleanerInv'
  BY <1>0, <1>2 DEF RemoveFile, CleanerInv, FolderOver, TypeOK
<1>3. CASE MarkDeleted
  BY <1>0, <1>3 DEF MarkDeleted, CleanerInv, FolderOver, TypeOK
<1>4. CASE EndFolder
  BY <1>4 DEF EndFolder, CleanerInv, CleanerIdle
<1>5. CASE UNCHANGED cln
  BY <1>0, <1>5, FolderOverStays DEF CleanerInv, TypeOK
<1> QED
  BY <1>1, <1>2, <1>3, <1>4, <1>5
  DEF Next, Backup, Clean, NewDay, Select, BeginTable, ArchiveDay, SkipDay, LeaveTable, FailTable, FailDay,
      EndBackup, Restore, vars

\* What may become of a day's file and of its line.
LEMMA FileMoves ==
  ASSUME TypeOK, CleanerInv, [Next]_vars, NEW t \in Types, NEW d \in Days
  PROVE  /\ d \in known[t] => d \in known'[t]
         /\ d \in file[t] => d \in file'[t] \/ FolderOver(t, d)
         /\ d \in marked'[t] => d \in marked[t] \/ FolderOver(t, d)
<1> USE DEF TypeOK
<1>1. ASSUME NEW e \in Days, ArchiveDay(e) \/ FailDay(e)
      PROVE  /\ d \in known[t] => d \in known'[t]
             /\ d \in file[t] => d \in file'[t]
             /\ marked' = marked
  BY <1>1 DEF ArchiveDay, FailDay
<1>2. ASSUME NEW u \in Types, RemoveFile(u)
      PROVE  /\ d \in file[t] => d \in file'[t] \/ FolderOver(t, d)
             /\ known' = known /\ marked' = marked
  <2>1. config[u].schema = cln.schema BY <1>2 DEF RemoveFile, CleanerInv
  <2>2. (u # t \/ d # cln.day) /\ d \in file[t] => d \in file'[t] BY <1>2 DEF RemoveFile
  <2>3. u = t /\ d = cln.day => FolderOver(t, d) BY <1>2, <2>1 DEF RemoveFile, CleanerInv
  <2> QED BY <1>2, <2>2, <2>3 DEF RemoveFile, register
<1>3. ASSUME MarkDeleted
      PROVE  /\ d \in marked'[t] => d \in marked[t] \/ FolderOver(t, d)
             /\ known' = known /\ file' = file
  <2>1. cln.file \in Types /\ config[cln.file].schema = cln.schema BY <1>3 DEF MarkDeleted, CleanerInv
  <2>2. (cln.file # t \/ d # cln.day) /\ d \in marked'[t] => d \in marked[t]
    BY <1>3, <2>1 DEF MarkDeleted
  <2>3. cln.file = t /\ d = cln.day => FolderOver(t, d) BY <1>3, <2>1 DEF MarkDeleted, CleanerInv
  <2> QED BY <1>3, <2>2, <2>3 DEF MarkDeleted
<1>4. \/ \E e \in Days : ArchiveDay(e) \/ FailDay(e)
      \/ \E u \in Types : RemoveFile(u)
      \/ MarkDeleted
      \/ UNCHANGED <<known, marked, file>>
  BY DEF Next, Backup, Clean, NewDay, Select, BeginTable, SkipDay, LeaveTable, FailTable,
         EndBackup, Restore, ListFolder, EndFolder, vars, register
<1> QED BY <1>1, <1>2, <1>3, <1>4

LEMMA SafeStays ==
  ASSUME TypeOK, CleanerInv, [Next]_vars, NEW t \in Types, NEW d \in Days, Safe(t, d)
  PROVE  Safe(t, d)'
<1>1. FolderOver(t, d) => FolderOver(t, d)' BY FolderOverStays
<1>2. d \in file[t] /\ Offered(t, d) => Safe(t, d)'
  BY FileMoves, FolderOverStays DEF Safe, Offered
<1> QED BY <1>1, <1>2 DEF Safe

LEMMA RegisterKept ==
  ASSUME TypeOK, CleanerInv, RegisterInv, [Next]_vars
  PROVE  RegisterInv'
<1> SUFFICES ASSUME NEW t \in Types, NEW d \in Days
             PROVE  /\ d \in marked'[t] => FolderOver(t, d)'
                    /\ restored'[<<t, d>>] # Never => Safe(t, d)'
  BY DEF RegisterInv
<1>1. d \in marked'[t] => FolderOver(t, d)'
  BY FileMoves, FolderOverStays DEF RegisterInv
<1>2. restored[<<t, d>>] # Never => Safe(t, d)'
  BY SafeStays DEF RegisterInv
<1>3. restored'[<<t, d>>] = restored[<<t, d>>] \/ Restore(t, d)
  <2>1. ASSUME NEW u \in Types, NEW e \in Days, Restore(u, e), <<u, e>> # <<t, d>>
        PROVE  restored'[<<t, d>>] = restored[<<t, d>>]
    BY <2>1 DEF Restore, TypeOK
  <2>2. UNCHANGED restored \/ \E u \in Types, e \in Days : Restore(u, e)
    BY DEF Next, Backup, Clean, NewDay, Select, BeginTable, ArchiveDay, SkipDay, LeaveTable, FailTable, FailDay,
           EndBackup, ListFolder, RemoveFile, MarkDeleted, EndFolder, vars, register
  <2> QED BY <2>1, <2>2
<1>4. Restore(t, d) => Safe(t, d)'
  BY SafeStays DEF Restore, Safe
<1> QED BY <1>1, <1>2, <1>3, <1>4

LEMMA InitRegister == Init => CleanerInv /\ RegisterInv
BY DEF Init, CleanerInv, RegisterInv, CleanerIdle, Never

-----------------------------------------------------------------------------
OfferInv == \A t \in Types, d \in Days : Offered(t, d) => d \in file[t] \/ FolderOver(t, d)

LEMMA OfferKept ==
  ASSUME TypeOK, CleanerInv, OfferInv, [Next]_vars
  PROVE  OfferInv'
<1> SUFFICES ASSUME NEW t \in Types, NEW d \in Days, Offered(t, d)'
             PROVE  d \in file'[t] \/ FolderOver(t, d)'
  BY DEF OfferInv
<1>1. CASE Offered(t, d)
  BY <1>1, FileMoves, FolderOverStays DEF OfferInv
<1>2. CASE d \in known'[t] \ known[t]
  <2>1. PICK e \in Days : ArchiveDay(e) \/ FailDay(e)
    BY <1>2 DEF Next, Backup, Clean, NewDay, Select, BeginTable, SkipDay, LeaveTable, FailTable,
                EndBackup, Restore, ListFolder, RemoveFile, MarkDeleted, EndFolder, vars, register
  <2>2. e = d /\ t = bak.type BY <1>2, <2>1 DEF ArchiveDay, FailDay, TypeOK
  <2> QED BY <2>1, <2>2 DEF ArchiveDay, FailDay, TypeOK
<1>3. Offered(t, d) \/ d \in known'[t] \ known[t]
  <2>1. marked[t] \subseteq marked'[t]
    <3>1. CASE MarkDeleted BY <3>1 DEF MarkDeleted, TypeOK
    <3>2. MarkDeleted \/ UNCHANGED marked
      BY DEF Next, Backup, Clean, NewDay, Select, BeginTable, ArchiveDay, SkipDay, LeaveTable, FailTable, FailDay,
             EndBackup, Restore, ListFolder, RemoveFile, EndFolder, vars, register
    <3> QED BY <3>1, <3>2
  <2> QED BY <2>1 DEF Offered
<1> QED BY <1>1, <1>2, <1>3

\* A line that is offered for restoring has its file until the term of its own
\* type is over, if no other type of its schema has a shorter one; whatever
\* backups, restores, failures and the cleaner do in between.
THEOREM OfferIsKept == Spec => []OfferedHaveFile
<1>1. Init => OfferInv BY DEF Init, OfferInv, Offered
<1>2. TypeOK /\ OfferInv => OfferedHaveFile
  BY ConfigTyped, OwnTerm DEF OfferInv, OfferedHaveFile
<1> QED BY <1>1, <1>2, TypeCorrect, InitRegister, CleanerKept, OfferKept, PTL DEF Spec

-----------------------------------------------------------------------------
(***************************************************************************)
(* The rows of a table that is going to be dropped are in hand, or safe.   *)
(***************************************************************************)
DropInv ==
  bak.at = "days" /\ Config.entity = "table" /\ WholeTables(Config) =>
    \A d \in rows[bak.type] :
      TableOf(Config, d) = bak.table => d \in bak.dates \/ Safe(bak.type, d)

LEMMA DropKept ==
  ASSUME TypeOK, BackupInv, CleanerInv, RegisterInv, DropInv, [Next]_vars
  PROVE  DropInv'
<1>0. TypeOK' /\ config' = config /\ ConfigInv BY TypesKept, ConfigStays, ConfigTyped
<1> SUFFICES ASSUME NEW t \in Types, bak'.at = "days", bak'.type = t,
                    Config'.entity = "table", WholeTables(Config)',
                    NEW d \in rows'[t], TableOf(Config, d)' = bak'.table
             PROVE  d \in bak'.dates \/ Safe(t, d)'
  BY <1>0 DEF DropInv, Safe, FolderOver, Offered, TypeOK
<1>a. d \in Days BY <1>0 DEF TypeOK
<1>b. Safe(t, d) => Safe(t, d)' BY <1>a, SafeStays
<1>c. bak'.type = bak.type
      => /\ Config' = Config /\ WholeTables(Config)
         /\ TableOf(Config, d) = bak'.table
  BY <1>0 DEF Config, WholeTables, TableOf, MonthOf
<1>1. CASE NewDay
  <2>1. bak' = bak BY <1>1 DEF NewDay
  <2>2. d < CutOff(Config) BY <1>a, <1>c, <2>1, TablePast
  <2>3. /\ Config \in ConfigType /\ today \in Days
        /\ today \in Nat /\ d \in Nat
    BY <1>0, <1>a, <2>1, Calendar DEF TypeOK, Days, Config, ConfigInv
  <2>4. CutOff(Config) \in Int /\ CutOff(Config) <= today BY <2>3, BeforeFacts DEF CutOff
  <2>5. d # today + 1 BY <2>2, <2>3, <2>4
  <2>6. d \in rows[bak.type] BY <1>1, <1>a, <2>1, <2>5 DEF NewDay
  <2> QED BY <1>a, <1>b, <1>c, <2>1, <2>6 DEF DropInv
<1>2. ASSUME NEW b \in Days, BeginTable(b) PROVE d \in bak'.dates
  <2>1. /\ bak.at = "tables" /\ b \in bak.todo /\ bak'.type = bak.type /\ bak'.table = b
        /\ bak'.dates = DatesToBackup(bak.type, b) /\ rows' = rows
    BY <1>2 DEF BeginTable, TypeOK
  <2>2. /\ Config \in ConfigType /\ bak.since \in Days /\ today \in Days /\ bak.since <= today
        /\ Config.entity = "table" /\ TableOf(Config, d) < RefDate(Config, bak.since)
        /\ d \in Nat
    BY <1>0, <1>a, <1>c, <2>1, Calendar DEF TypeOK, Days, Config, ConfigInv, BackupInv
  <2>3. d < RefDate(Config, bak.since) BY <1>a, <1>c, <2>1, <2>2, SelectedIsPast
  <2>4. /\ RefDate(Config, bak.since) \in Int /\ RefDate(Config, bak.since) <= CutOff(Config)
        /\ CutOff(Config) \in Int
    BY <2>2, RefDateFacts, BeforeFacts DEF CutOff
  <2>5. d < CutOff(Config) BY <2>2, <2>3, <2>4
  <2> QED BY <1>c, <2>1, <2>5 DEF DatesToBackup, Config
<1>3. ASSUME NEW e \in Days, ArchiveDay(e) PROVE d \in bak'.dates \/ Safe(t, d)'
  <2>1. /\ bak.at = "days" /\ bak'.type = bak.type /\ bak'.table = bak.table
        /\ bak'.dates = bak.dates \ {e} /\ rows'[bak.type] = rows[bak.type] \ {e}
    BY <1>3, <1>a DEF ArchiveDay, TypeOK
  <2> QED BY <1>a, <1>b, <1>c, <2>1 DEF DropInv
<1>4. ASSUME NEW e \in Days, SkipDay(e) PROVE d \in bak'.dates \/ Safe(t, d)'
  <2>1. /\ bak.at = "days" /\ bak'.type = bak.type /\ bak'.table = bak.table
        /\ bak'.dates = bak.dates \ {e} /\ rows' = rows /\ KeptRestored(bak.type, e)
    BY <1>4 DEF SkipDay, TypeOK
  <2>2. Safe(bak.type, e) BY <1>a, <2>1 DEF KeptRestored, RegisterInv
  <2> QED BY <1>a, <1>b, <1>c, <2>1, <2>2 DEF DropInv
<1>5. ~ (LeaveTable \/ FailTable \/ EndBackup \/ (\E e \in Days : FailDay(e)) \/ \E u \in Types : Select(u))
  <2> USE DEF TypeOK
  <2>1. ~ LeaveTable BY DEF LeaveTable
  <2>2. ~ FailTable /\ ~ \E e \in Days : FailDay(e) BY DEF FailTable, FailDay
  <2>3. ~ EndBackup BY DEF EndBackup, BackupIdle
  <2>4. ~ \E u \in Types : Select(u) BY DEF Select, BackupIdle
  <2> QED BY <2>1, <2>2, <2>3, <2>4
<1>6. ASSUME NEW u \in Types, NEW e \in Days, Restore(u, e) PROVE d \in bak'.dates \/ Safe(t, d)'
  <2>1. /\ bak' = bak /\ e \in file[u] /\ Offered(u, e)
        /\ d \in rows[t] \/ (u = t /\ e = d)
    BY <1>6 DEF Restore, TypeOK
  <2>2. CASE d \in rows[t]
    BY <1>a, <1>b, <1>c, <2>1, <2>2 DEF DropInv
  <2>3. CASE u = t /\ e = d
    BY <1>b, <2>1, <2>3 DEF Safe
  <2> QED BY <2>1, <2>2, <2>3
<1>7. CASE Clean \/ UNCHANGED vars
  <2>1. UNCHANGED <<bak, rows>>
    BY <1>7 DEF Clean, ListFolder, RemoveFile, MarkDeleted, EndFolder, vars
  <2> QED BY <1>a, <1>b, <1>c, <2>1 DEF DropInv
<1> QED BY <1>1, <1>2, <1>3, <1>4, <1>5, <1>6, <1>7 DEF Next, Backup

RecoverInv ==
  \A t \in Types : WholeTables(config[t]) =>
    \A d \in RowDays : d <= today => d \in rows[t] \/ Safe(t, d)

LEMMA RecoverableKept ==
  ASSUME TypeOK, RegisterInv, CleanerInv, DropInv, RecoverInv, [Next]_vars
  PROVE  RecoverInv'
<1>0. TypeOK' /\ config' = config /\ ConfigInv BY TypesKept, ConfigStays, ConfigTyped
<1> SUFFICES ASSUME NEW t \in Types, WholeTables(config[t]), NEW d \in RowDays, d <= today'
             PROVE  d \in rows'[t] \/ Safe(t, d)'
  BY <1>0 DEF RecoverInv, Safe, WholeTables
<1>a. d \in Days /\ d \in Nat /\ today \in Nat BY RowsAssumption, Calendar DEF Days, TypeOK
<1>b. Safe(t, d) => Safe(t, d)' BY <1>a, SafeStays
<1>1. CASE NewDay
  <2>1. d <= today \/ d = today + 1 BY <1>1, <1>a DEF NewDay
  <2>2. rows'[t] = rows[t] \cup ({today + 1} \cap RowDays) BY <1>1 DEF NewDay
  <2> QED BY <1>b, <2>1, <2>2 DEF RecoverInv, Safe
<1>2. ASSUME ~NewDay PROVE d \in rows[t] \/ Safe(t, d)
  <2>1. today' = today
    BY <1>2 DEF Next, Backup, Clean, Select, BeginTable, ArchiveDay, SkipDay, LeaveTable, FailTable, FailDay,
                EndBackup, Restore, ListFolder, RemoveFile, MarkDeleted, EndFolder, vars
  <2> QED BY <2>1 DEF RecoverInv, Safe
<1>3. ASSUME NEW e \in Days, ArchiveDay(e), d \in rows[t]
      PROVE  d \in rows'[t] \/ Safe(t, d)'
  <2>1. CASE t = bak.type /\ d = e
    <3>1. d \in file'[t] /\ d \in known'[t] /\ marked' = marked
      BY <1>3, <2>1, <1>a DEF ArchiveDay, TypeOK
    <3>2. d \in marked[t] => FolderOver(t, d)' BY <1>a, FolderOverStays DEF RegisterInv
    <3> QED BY <3>1, <3>2 DEF Safe, Offered
  <2>2. CASE t # bak.type \/ d # e
    BY <1>3, <2>2 DEF ArchiveDay, TypeOK
  <2> QED BY <2>1, <2>2
<1>4. ASSUME LeaveTable, d \in rows[t]
      PROVE  d \in rows'[t] \/ Safe(t, d)
  <2>1. d \in rows'[t] \/ /\ t = bak.type /\ config[t].entity # "record"
                          /\ TableOf(config[t], d) = bak.table
    BY <1>4, <1>a DEF LeaveTable, TypeOK
  <2>2. config[t].entity # "record" => config[t].entity = "table" BY <1>0 DEF ConfigInv, ConfigType
  <2>3. bak.at = "days" /\ bak.dates = {} BY <1>4 DEF LeaveTable
  <2> QED BY <1>4, <2>1, <2>2, <2>3 DEF DropInv, Config
<1>5. ASSUME NEW u \in Types, NEW e \in Days, Restore(u, e), d \in rows[t] PROVE d \in rows'[t]
  BY <1>5 DEF Restore, TypeOK
<1>6. NewDay \/ LeaveTable \/ UNCHANGED rows
      \/ (\E e \in Days : ArchiveDay(e)) \/ (\E u \in Types, e \in Days : Restore(u, e))
  BY DEF Next, Backup, Clean, Select, BeginTable, SkipDay, FailTable, FailDay,
         EndBackup, ListFolder, RemoveFile, MarkDeleted, EndFolder, vars
<1> QED BY <1>b, <1>1, <1>2, <1>3, <1>4, <1>5, <1>6

\* Every row the application has written is in its table or in a file that can be
\* restored until keep_arch_days of its own type are over, and for ever if that
\* is 0; for every calendar and any number of backups, restores, failures and
\* cleanings, and for the types whose tables hold whole terms (WholeTables) and
\* whose schema has no type of a shorter term (KeepsItsTerm).
THEOREM NothingLost == Spec => []RecoverableUntilExpired
<1>1. Init => DropInv /\ RecoverInv
  BY DEF Init, DropInv, BackupIdle, RecoverInv
<1>2. TypeOK /\ RecoverInv => RecoverableUntilExpired
  BY ConfigTyped, OwnTerm, RowsAssumption DEF RecoverInv, RecoverableUntilExpired, Sound, Safe
<1> QED BY <1>1, <1>2, TypeCorrect, InitBackup, BackupKept, InitRegister, CleanerKept, RegisterKept,
           DropKept, RecoverableKept, PTL DEF Spec

-----------------------------------------------------------------------------
(***************************************************************************)
(* A row that was due when the tables were selected is in a table that is  *)
(* still to come, or in hand.                                              *)
(***************************************************************************)
OverdueInv ==
  bak.at # "idle" /\ ~bak.failed =>
    \A d \in rows[bak.type] :
      d < RefDate(Config, bak.since) =>
        \/ restored[<<bak.type, d>>] # Never
        \/ TableOf(Config, d) \in bak.todo
        \/ bak.at = "days" /\ TableOf(Config, d) = bak.table /\ d \in bak.dates

LEMMA OverdueKept ==
  ASSUME TypeOK, BackupInv, OverdueInv, [Next]_vars
  PROVE  OverdueInv'
<1>0. TypeOK' /\ config' = config /\ ConfigInv BY TypesKept, ConfigStays, ConfigTyped
<1> SUFFICES ASSUME bak'.at # "idle", ~bak'.failed, NEW d \in rows'[bak'.type],
                    d < RefDate(Config', bak'.since), restored'[<<bak'.type, d>>] = Never
             PROVE  \/ TableOf(Config', d) \in bak'.todo
                    \/ bak'.at = "days" /\ TableOf(Config', d) = bak'.table /\ d \in bak'.dates
  BY DEF OverdueInv, RefDate, TableOf, Before, MonthOf, MonthsBefore
<1> DEFINE type == bak'.type
           In(x) == /\ bak.at # "idle" /\ ~bak.failed /\ x \in rows[bak.type]
                    /\ restored[<<bak.type, x>>] = Never
                    /\ bak'.type = bak.type /\ bak'.since = bak.since
<1>a. d \in Days /\ d \in Nat /\ type \in Types /\ Config' = config[type] /\ Config' \in ConfigType
  BY <1>0, Calendar DEF TypeOK, ConfigInv, Config, Days
<1>b. In(d) => \/ TableOf(Config', d) \in bak.todo
               \/ bak.at = "days" /\ TableOf(Config', d) = bak.table /\ d \in bak.dates
  BY <1>0 DEF OverdueInv, Config
<1>1. CASE NewDay
  <2>1. /\ bak' = bak /\ restored' = restored
        /\ rows'[type] = rows[type] \cup ({today + 1} \cap RowDays)
    BY <1>1, <1>a DEF NewDay, register
  <2>2. bak.since \in Days /\ bak.since \in Nat /\ today \in Nat /\ bak.since <= today
    BY <2>1, Calendar DEF TypeOK, Days, BackupInv
  <2>3. RefDate(Config', bak.since) \in Int /\ RefDate(Config', bak.since) <= bak.since
    BY <1>a, <2>2, RefDateFacts
  <2>4. d # today + 1 BY <1>a, <2>1, <2>2, <2>3
  <2> QED BY <1>b, <2>1, <2>4
<1>2. ASSUME NEW t \in Types, Select(t) PROVE TableOf(Config', d) \in bak'.todo
  <2>1. /\ bak'.type = t /\ bak'.since = today /\ rows' = rows
        /\ bak'.todo = {b \in {TableOf(config[t], e) : e \in rows[t]} : Selected(config[t], b, today)}
    BY <1>2 DEF Select, BackupIdle
  <2>2. RefDate(Config', today) \in Int BY <1>a, RefDateFacts DEF TypeOK
  <2>3. Selected(config[t], TableOf(config[t], d), today)
    <3>1. config[t].entity = "record" \/ config[t].entity = "table" BY <1>a, <2>1 DEF ConfigType
    <3>2. CASE config[t].entity = "table"
      <4>1. TableOf(config[t], d) \in Days /\ TableOf(config[t], d) <= d BY <1>a, <2>1, <3>2, TableFacts
      <4>2. TableOf(config[t], d) \in Nat BY <4>1, Calendar DEF Days
      <4> QED BY <1>a, <2>1, <2>2, <4>1, <4>2 DEF Selected
    <3> QED BY <3>1, <3>2 DEF Selected
  <2> QED BY <1>a, <2>1, <2>3
<1>3. ASSUME NEW b \in Days, BeginTable(b)
      PROVE  \/ TableOf(Config', d) \in bak'.todo
             \/ bak'.at = "days" /\ TableOf(Config', d) = bak'.table /\ d \in bak'.dates
  <2> DEFINE dates == DatesToBackup(bak.type, b)
  <2>1. /\ bak.at = "tables" /\ bak'.type = bak.type /\ bak'.since = bak.since
        /\ rows' = rows /\ restored' = restored /\ bak'.failed = bak.failed
        /\ bak'.todo = bak.todo \ {b}
        /\ dates # {} => bak'.at = "days" /\ bak'.table = b /\ bak'.dates = dates
    BY <1>3 DEF BeginTable, TypeOK, register
  <2>2. TableOf(Config', d) \in bak.todo BY <1>b, <2>1
  <2>3. ASSUME TableOf(Config', d) = b PROVE d \in dates
    <3>1. bak.since \in Days /\ today \in Days /\ bak.since <= today
      BY <2>1 DEF TypeOK, BackupInv
    <3>2. /\ RefDate(Config', bak.since) \in Int /\ Before(today, Config') \in Int
          /\ RefDate(Config', bak.since) <= Before(today, Config')
      BY <1>a, <3>1, RefDateFacts, BeforeFacts
    <3>3. d < Before(today, Config') BY <1>a, <2>1, <3>2
    <3> QED BY <1>a, <2>1, <2>3, <3>3 DEF DatesToBackup, CutOff
  <2> HIDE DEF dates
  <2> QED BY <2>1, <2>2, <2>3
<1>4. ASSUME NEW e \in Days, ArchiveDay(e)
      PROVE  \/ TableOf(Config', d) \in bak'.todo
             \/ bak'.at = "days" /\ TableOf(Config', d) = bak'.table /\ d \in bak'.dates
  <2>1. /\ bak.at = "days" /\ bak'.at = "days" /\ bak'.type = bak.type /\ bak'.since = bak.since
        /\ restored' = restored /\ bak'.failed = bak.failed /\ bak'.todo = bak.todo
        /\ bak'.table = bak.table /\ bak'.dates = bak.dates \ {e}
        /\ rows'[bak.type] = rows[bak.type] \ {e}
    BY <1>4, <1>a DEF ArchiveDay, TypeOK
  <2> QED BY <1>b, <2>1
<1>5. ASSUME NEW e \in Days, SkipDay(e)
      PROVE  \/ TableOf(Config', d) \in bak'.todo
             \/ bak'.at = "days" /\ TableOf(Config', d) = bak'.table /\ d \in bak'.dates
  <2>1. /\ bak.at = "days" /\ bak'.at = "days" /\ bak'.type = bak.type /\ bak'.since = bak.since
        /\ restored' = restored /\ bak'.failed = bak.failed /\ bak'.todo = bak.todo
        /\ bak'.table = bak.table /\ bak'.dates = bak.dates \ {e} /\ rows' = rows
        /\ restored[<<bak.type, e>>] # Never
    BY <1>5 DEF SkipDay, KeptRestored, TypeOK, register
  <2> QED BY <1>b, <2>1
<1>6. CASE LeaveTable
  <2>1. /\ bak.at = "days" /\ bak.dates = {} /\ bak'.type = bak.type /\ bak'.since = bak.since
        /\ restored' = restored /\ bak'.failed = bak.failed /\ bak'.todo = bak.todo
        /\ rows'[bak.type] \subseteq rows[bak.type]
    BY <1>6, <1>a DEF LeaveTable, TypeOK, register
  <2> QED BY <1>b, <2>1
<1>7. ~FailTable /\ ~(\E e \in Days : FailDay(e)) /\ ~EndBackup
  <2>1. ~FailTable /\ ~\E e \in Days : FailDay(e) BY DEF FailTable, FailDay, TypeOK
  <2>2. ~EndBackup BY DEF EndBackup, BackupIdle
  <2> QED BY <2>1, <2>2
<1>8. ASSUME NEW t \in Types, NEW e \in Days, Restore(t, e)
      PROVE  \/ TableOf(Config', d) \in bak'.todo
             \/ bak'.at = "days" /\ TableOf(Config', d) = bak'.table /\ d \in bak'.dates
  <2>1. /\ bak' = bak /\ today \in Days
        /\ rows' = [rows EXCEPT ![t] = @ \cup {e}]
        /\ restored' = [restored EXCEPT ![<<t, e>>] = today]
    BY <1>8 DEF Restore, TypeOK
  <2>2. <<t, e>> # <<type, d>>
    <3>1. today # Never BY <2>1, Calendar DEF Days, Never
    <3> QED BY <1>a, <2>1, <3>1 DEF TypeOK
  <2>3. d \in rows[type] /\ restored[<<type, d>>] = Never
    BY <1>a, <2>1, <2>2 DEF TypeOK
  <2> QED BY <1>b, <2>1, <2>3
<1>9. CASE Clean \/ UNCHANGED vars
  <2>1. UNCHANGED <<bak, rows, restored>>
    BY <1>9 DEF Clean, ListFolder, RemoveFile, MarkDeleted, EndFolder, vars, register
  <2> QED BY <1>b, <2>1
<1> QED BY <1>1, <1>2, <1>3, <1>4, <1>5, <1>6, <1>7, <1>8, <1>9 DEF Next, Backup

\* A backup that comes to its end without an error has archived every row that
\* was due when it began, for every calendar and any interval.
THEOREM NothingForgotten == Spec => []NothingOverdue
<1>1. Init => OverdueInv BY DEF Init, OverdueInv, BackupIdle
<1>2. OverdueInv => NothingOverdue BY DEF OverdueInv, NothingOverdue, Config
<1> QED BY <1>1, <1>2, TypeCorrect, InitBackup, BackupKept, OverdueKept, PTL DEF Spec

-----------------------------------------------------------------------------
(***************************************************************************)
(* Module RowLife is implemented.  What a worker has in hand is in the     *)
(* tables, so nothing that is gone comes back by a backup.                 *)
(***************************************************************************)
HandInv == bak.at = "days" => bak.dates \subseteq rows[bak.type]

LEMMA HandKept ==
  ASSUME TypeOK, HandInv, [Next]_vars
  PROVE  HandInv'
<1> USE DEF TypeOK
<1>1. CASE NewDay
  BY <1>1 DEF NewDay, HandInv
<1>2. ASSUME NEW b \in Days, BeginTable(b) PROVE HandInv'
  BY <1>2 DEF BeginTable, HandInv, DatesToBackup
<1>3. ASSUME NEW e \in Days, ArchiveDay(e) PROVE HandInv'
  BY <1>3 DEF ArchiveDay, HandInv
<1>4. ASSUME NEW e \in Days, SkipDay(e) PROVE HandInv'
  BY <1>4 DEF SkipDay, HandInv
<1>5. ASSUME \/ \E t \in Types : Select(t)
             \/ LeaveTable \/ FailTable \/ (\E e \in Days : FailDay(e)) \/ EndBackup
      PROVE  bak'.at # "days"
  <2>1. ASSUME NEW t \in Types, Select(t) PROVE bak'.at # "days" BY <2>1 DEF Select, BackupIdle
  <2>2. LeaveTable => bak'.at # "days" BY DEF LeaveTable
  <2>3. FailTable => bak'.at # "days" BY DEF FailTable
  <2>4. ASSUME NEW e \in Days, FailDay(e) PROVE bak'.at # "days" BY <2>4 DEF FailDay
  <2>5. EndBackup => bak'.at # "days" BY DEF EndBackup, BackupIdle
  <2> QED BY <1>5, <2>1, <2>2, <2>3, <2>4, <2>5
<1>6. ASSUME NEW t \in Types, NEW e \in Days, Restore(t, e) PROVE HandInv'
  BY <1>6 DEF Restore, HandInv
<1>7. CASE Clean \/ UNCHANGED vars
  <2>1. UNCHANGED <<bak, rows>>
    BY <1>7 DEF Clean, ListFolder, RemoveFile, MarkDeleted, EndFolder, vars
  <2> QED BY <2>1 DEF HandInv
<1> QED BY <1>1, <1>2, <1>3, <1>4, <1>5, <1>6, <1>7 DEF Next, Backup, HandInv

\* What is neither in the tables nor on offer stays so, but for the day that comes.
LEMMA GoneStays ==
  ASSUME TypeOK, HandInv, [Next]_vars, ~NewDay, NEW t \in Types, NEW d \in Days,
         d \notin rows[t], ~(d \in file[t] /\ Offered(t, d))
  PROVE  d \notin rows'[t] /\ ~(d \in file'[t] /\ Offered(t, d)')
<1> USE DEF TypeOK
<1>1. ASSUME NEW e \in Days, ArchiveDay(e) \/ FailDay(e)
      PROVE  /\ rows'[t] \subseteq rows[t] /\ marked' = marked
             /\ d \in file'[t] => d \in file[t]
             /\ d \in known'[t] => d \in known[t]
  <2>1. bak.at = "days" /\ e \in bak.dates /\ e \in rows[bak.type]
    BY <1>1 DEF ArchiveDay, FailDay, HandInv
  <2>2. t # bak.type \/ d # e BY <2>1
  <2>3. CASE ArchiveDay(e) BY <2>2, <2>3 DEF ArchiveDay
  <2>4. CASE FailDay(e) BY <2>2, <2>4 DEF FailDay
  <2> QED BY <1>1, <2>3, <2>4
<1>2. CASE LeaveTable
  <2>1. rows'[t] \subseteq rows[t] BY <1>2 DEF LeaveTable
  <2> QED BY <1>2, <2>1 DEF LeaveTable, register, Offered
<1>3. ASSUME NEW u \in Types, NEW e \in Days, Restore(u, e)
      PROVE  d \notin rows'[t] /\ UNCHANGED <<file, known, marked>>
  <2>1. e \in file[u] /\ Offered(u, e) BY <1>3 DEF Restore
  <2>2. u # t \/ e # d BY <2>1
  <2> QED BY <1>3, <2>2 DEF Restore
<1>4. ASSUME NEW u \in Types, RemoveFile(u)
      PROVE  file'[t] \subseteq file[t] /\ UNCHANGED <<rows, known, marked>>
  BY <1>4 DEF RemoveFile, register
<1>5. ASSUME MarkDeleted
      PROVE  marked[t] \subseteq marked'[t] /\ UNCHANGED <<rows, file, known>>
  BY <1>5 DEF MarkDeleted
<1>6. \/ (\E e \in Days : ArchiveDay(e) \/ FailDay(e)) \/ LeaveTable
      \/ (\E u \in Types, e \in Days : Restore(u, e))
      \/ (\E u \in Types : RemoveFile(u)) \/ MarkDeleted
      \/ UNCHANGED <<rows, file, known, marked>>
  BY DEF Next, Backup, Clean, Select, BeginTable, SkipDay, FailTable, EndBackup, ListFolder,
         EndFolder, vars, register
<1> QED BY <1>1, <1>2, <1>3, <1>4, <1>5, <1>6 DEF Offered

\* A step that is no midnight takes the rows of a day from one place to the next.
LEMMA PlaceMoves ==
  ASSUME TypeOK, BackupInv, HandInv, CleanerInv, RegisterInv, DropInv, RecoverInv,
         [Next]_vars, ~NewDay,
         NEW t \in Types, Sound(t), NEW d \in RowDays, Place(t, d)' # Place(t, d)
  PROVE  \/ /\ Place(t, d) = "table" /\ d < CutOff(config[t])
            /\ \/ Place(t, d)' = "archive"
               \/ Place(t, d)' = "gone" /\ Expired(t, d)
         \/ /\ Place(t, d) = "archive"
            /\ \/ Place(t, d)' = "table"
               \/ Place(t, d)' = "gone" /\ Expired(t, d)
<1> DEFINE arch == d \in file[t] /\ Offered(t, d)
<1>0. d \in Days /\ d \in Int /\ today \in Int BY RowsAssumption, Calendar DEF Days, TypeOK
<1>1. today' = today /\ config' = config /\ (FolderOver(t, d)' <=> FolderOver(t, d))
  <2>1. today' = today
    BY DEF Next, Backup, Clean, Select, BeginTable, ArchiveDay, SkipDay, LeaveTable, FailTable,
           FailDay, EndBackup, Restore, ListFolder, RemoveFile, MarkDeleted, EndFolder, vars
  <2> QED BY <2>1, ConfigStays DEF FolderOver
<1>2. d <= today BY <1>0, <1>1 DEF Place
<1>3. /\ Place(t, d) = IF d \in rows[t] THEN "table" ELSE IF arch THEN "archive" ELSE "gone"
      /\ Place(t, d)' = IF d \in rows'[t] THEN "table" ELSE IF arch' THEN "archive" ELSE "gone"
  BY <1>0, <1>1, <1>2 DEF Place
<1>4. CASE d \in rows[t]
  <2>1. d \notin rows'[t] BY <1>3, <1>4
  <2>2. d < CutOff(config[t])
    <3>1. rows' # rows BY <1>4, <2>1
    <3>2. Next BY <3>1 DEF vars
    <3> QED BY <1>4, <2>1, <3>2, YoungStay DEF Sound
  <2>3. arch' \/ FolderOver(t, d)
    BY <1>1, <1>2, <2>1, RecoverableKept DEF RecoverInv, Safe, Sound, WholeTables
  <2>4. FolderOver(t, d) => Expired(t, d) BY <1>0, ConfigTyped, OwnTerm DEF Sound
  <2> QED BY <1>3, <1>4, <2>1, <2>2, <2>3, <2>4
<1>5. CASE d \notin rows[t] /\ arch
  <2>1. arch' \/ FolderOver(t, d) BY <1>0, <1>5, FileMoves DEF Offered
  <2>2. FolderOver(t, d) => Expired(t, d) BY <1>0, ConfigTyped, OwnTerm DEF Sound
  <2> QED BY <1>3, <1>5, <2>1, <2>2
<1>6. CASE d \notin rows[t] /\ ~arch
  BY <1>0, <1>3, <1>6, GoneStays
<1> QED BY <1>4, <1>5, <1>6

LEMMA RowsStep ==
  ASSUME TypeOK, BackupInv, HandInv, CleanerInv, RegisterInv, DropInv, RecoverInv,
         [Next]_vars
  PROVE  Life!Next
<1>0. TypeOK' /\ config' = config /\ ConfigInv /\ RowDays \subseteq Days /\ Days \subseteq Nat
  BY TypesKept, ConfigStays, ConfigTyped, RowsAssumption, Calendar DEF Days
<1> DEFINE Due  == {x \in Followed : x[2] < CutOff(config[x[1]])}
           Over == {x \in Followed : Expired(x[1], x[2])}
           Pl   == [x \in Followed |-> Place(x[1], x[2])]
<1>a. Followed' = Followed
  BY <1>0 DEF Followed, Sound, WholeTables, KeepsItsTerm
<1>b. \A x \in Followed : x[1] \in Types /\ x[2] \in RowDays /\ Sound(x[1]) BY DEF Followed
<1>1. Due \subseteq Due'
  <2>1. SUFFICES ASSUME NEW t \in Types, NEW d \in RowDays, d < CutOff(config[t])
                 PROVE  d < CutOff(config[t])'
    BY <1>0, <1>a, <1>b
  <2>2. config[t] \in ConfigType /\ today \in Days /\ today' \in Days /\ today <= today' /\ d \in Nat
    BY <1>0, ClockGoesOn DEF ConfigInv, TypeOK
  <2>3. Before(today, config[t]) <= Before(today', config[t])
        /\ Before(today, config[t]) \in Int /\ Before(today', config[t]) \in Int
    BY <2>2, BeforeFacts
  <2>4. CutOff(config[t])' = Before(today', config[t]) /\ CutOff(config[t]) = Before(today, config[t])
    BY <1>0 DEF CutOff, Before, MonthsBefore, MonthOf
  <2> QED BY <2>1, <2>2, <2>3, <2>4
<1>2. Over \subseteq Over'
  <2>1. SUFFICES ASSUME NEW t \in Types, NEW d \in RowDays, Expired(t, d)
                 PROVE  Expired(t, d)'
    BY <1>a, <1>b
  <2>2. config[t].keep \in Nat /\ d \in Nat BY <1>0 DEF ConfigInv, ConfigType
  <2> QED BY <1>0, <2>1, <2>2, ClockGoesOn DEF Expired
<1>3. ASSUME NEW x \in Followed
      PROVE  \/ Pl'[x] = Pl[x]
             \/ Pl[x] = "unwritten" /\ Pl'[x] = "table"
             \/ Pl[x] = "table" /\ x \in Due /\ Pl'[x] = "archive"
             \/ Pl[x] = "table" /\ x \in Due /\ x \in Over /\ Pl'[x] = "gone"
             \/ Pl[x] = "archive" /\ Pl'[x] = "table"
             \/ Pl[x] = "archive" /\ x \in Over /\ Pl'[x] = "gone"
  <2>1. PICK t \in Types, d \in RowDays : x = <<t, d>> /\ Sound(t) BY DEF Followed
  <2>2. Pl[x] = Place(t, d) /\ Pl'[x] = Place(t, d)' BY <1>a, <2>1
  <2>3. CASE NewDay
    <3>1. /\ today' = today + 1 /\ UNCHANGED <<file, known, marked>>
          /\ d \in rows'[t] <=> d \in rows[t] \/ d = today + 1
      BY <2>3 DEF NewDay, register
    <3>2. d \in Int /\ today \in Int BY <1>0 DEF TypeOK
    <3>3. CASE d > today + 1 BY <2>2, <3>1, <3>2, <3>3 DEF Place
    <3>4. CASE d = today + 1 BY <2>2, <3>1, <3>2, <3>4 DEF Place
    <3>5. CASE d <= today
      <4>1. Place(t, d)' = Place(t, d) BY <3>1, <3>2, <3>5 DEF Place, Offered
      <4> QED BY <2>2, <4>1
    <3> QED BY <3>2, <3>3, <3>4, <3>5
  <2>4. CASE ~NewDay
    <3>1. x \in Due <=> d < CutOff(config[t]) BY <2>1
    <3>2. x \in Over <=> Expired(t, d) BY <2>1
    <3> HIDE DEF Due, Over, Pl
    <3> QED BY <2>1, <2>2, <2>4, <3>1, <3>2, PlaceMoves
  <2> QED BY <2>3, <2>4
<1> QED BY <1>a, <1>1, <1>2, <1>3
        DEF Life!Next, Life!Write, Life!Archive, Life!Discard, Life!Return, Life!Expire

\* The service keeps what module RowLife promises for the rows of every day of the
\* types that Sound names: they wait in their table until they are due, are then
\* in the table or on offer, are given up only at the end of the term of their
\* own type, never if it has none, and then for good.
THEOREM RowsLiveOn == Spec => RowsLive
<1>1. Init => Life!Init
  <2> SUFFICES ASSUME Init, NEW t \in Types, NEW d \in RowDays
               PROVE  Place(t, d) \in {"unwritten", "table"}
    BY DEF Life!Init, Followed
  <2>1. d \in Nat /\ today \in Nat /\ (d \in rows[t] <=> d <= today)
    BY RowsAssumption, BoundsAssumption, Calendar DEF Init, Days
  <2> QED BY <2>1 DEF Place
<1>2. Init => DropInv /\ RecoverInv /\ HandInv
  BY DEF Init, DropInv, HandInv, BackupIdle, RecoverInv
<1>3. TypeOK /\ BackupInv /\ HandInv /\ CleanerInv /\ RegisterInv /\ DropInv
      /\ RecoverInv /\ [Next]_vars => [Life!Next]_(Life!vars)
  BY RowsStep
<1> QED BY <1>1, <1>2, <1>3, TypeCorrect, InitBackup, BackupKept, InitRegister, CleanerKept,
           RegisterKept, DropKept, RecoverableKept, HandKept, PTL DEF Spec, RowsLive, Life!Spec
=============================================================================
