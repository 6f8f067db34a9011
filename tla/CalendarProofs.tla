---------------------------- MODULE CalendarProofs ----------------------------
(***************************************************************************)
(* Lemmas about Calendar: every day is in one month, and later days are in *)
(* no earlier one.                                                         *)
(***************************************************************************)
EXTENDS Calendar, TLAPS

LEMMA CalendarFacts ==
  /\ Len(First) \in Nat /\ CalendarDays \subseteq Nat
  /\ \A m \in Months : m \in Int /\ m >= 1 /\ m \in 1..Len(First) /\ m + 1 \in 1..Len(First)
  /\ \A m \in 1..Len(First) : First[m] \in Nat
  /\ \A m, n \in 1..Len(First) : m < n => First[m] < First[n]
  /\ \A m, n \in 1..Len(First) : m <= n => First[m] <= First[n]
<1>1. Len(First) \in Nat /\ \A m \in 1..Len(First) : First[m] \in Nat
  BY CalendarAssumption
<1>2. \A m, n \in 1..Len(First) : m = n \/ m < n \/ n < m
  BY CalendarAssumption
<1>3. \A m \in Months : m \in Int /\ m >= 1 /\ m \in 1..Len(First) /\ m + 1 \in 1..Len(First)
  BY <1>1 DEF Months
<1>4. CalendarDays \subseteq Nat BY DEF CalendarDays
<1> QED BY <1>1, <1>2, <1>3, <1>4, CalendarAssumption

LEMMA MonthOfDay ==
  ASSUME NEW d \in CalendarDays
  PROVE  /\ d \in Nat
         /\ MonthOf(d) \in Months
         /\ First[MonthOf(d)] <= d /\ d < First[MonthOf(d) + 1]
<1>1. \E m \in Months : First[m] <= d /\ d < First[m + 1]
  BY CalendarAssumption
<1> QED BY <1>1, CalendarFacts DEF MonthOf

LEMMA MonthsInOrder ==
  ASSUME NEW d \in CalendarDays, NEW e \in CalendarDays, d <= e
  PROVE  MonthOf(d) <= MonthOf(e)
<1> DEFINE m == MonthOf(d)
           n == MonthOf(e)
<1>1. m \in Months /\ n \in Months /\ First[m] <= d /\ e < First[n + 1] /\ d \in Nat /\ e \in Nat
  BY MonthOfDay
<1> HIDE DEF m, n
<1>2. SUFFICES ASSUME n < m PROVE FALSE BY <1>1, CalendarFacts DEF m, n
<1>3. n + 1 <= m /\ m \in 1..Len(First) /\ n + 1 \in 1..Len(First)
  BY <1>1, <1>2, CalendarFacts
<1>4. First[n + 1] <= First[m] /\ First[m] \in Nat /\ First[n + 1] \in Nat
  BY <1>3, CalendarFacts
<1> QED BY <1>1, <1>4

\* The month of a day is the one it lies in.
LEMMA MonthIsUnique ==
  ASSUME NEW d \in CalendarDays, NEW m \in Months, First[m] <= d, d < First[m + 1]
  PROVE  MonthOf(d) = m
<1> DEFINE n == MonthOf(d)
<1>1. /\ n \in Months /\ First[n] <= d /\ d < First[n + 1] /\ d \in Nat
      /\ First[m] \in Nat /\ First[m + 1] \in Nat /\ First[n] \in Nat /\ First[n + 1] \in Nat
  BY MonthOfDay, CalendarFacts
<1> HIDE DEF n
<1>2. ~ n < m
  <2> SUFFICES ASSUME n < m PROVE FALSE OBVIOUS
  <2>1. First[n + 1] <= First[m] BY <1>1, CalendarFacts
  <2> QED BY <1>1, <2>1
<1>3. ~ m < n
  <2> SUFFICES ASSUME m < n PROVE FALSE OBVIOUS
  <2>1. First[m + 1] <= First[n] BY <1>1, CalendarFacts
  <2> QED BY <1>1, <2>1
<1> QED BY <1>1, <1>2, <1>3, CalendarFacts DEF n

\* The first of a month is in it.
LEMMA FirstIsInMonth ==
  ASSUME NEW m \in Months
  PROVE  First[m] \in CalendarDays /\ MonthOf(First[m]) = m
<1>1. /\ First[m] \in Nat /\ First[m] < First[m + 1] /\ First[m + 1] <= First[Len(First)]
      /\ First[Len(First)] \in Nat /\ First[m + 1] \in Nat
  BY CalendarFacts DEF Months
<1>2. First[m] \in CalendarDays BY <1>1 DEF CalendarDays
<1> QED BY <1>1, <1>2, MonthIsUnique
=============================================================================
