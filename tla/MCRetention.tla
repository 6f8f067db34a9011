---------------------------- MODULE MCRetention -----------------------------
(* The instance of Retention that TLC checks: months of 1, 2, 2 and 3 days,   *)
(* so that a month back from a day meets the same day or a shorter month.    *)
EXTENDS Retention, TLC

CONSTANTS a, b

FourMonths == <<0, 1, 3, 5, 8>>
TwoDays    == {1, 2}

Row(entity, format, unit, after, keep, schema, quoted) ==
  [entity |-> entity, format |-> format, unit |-> unit, after |-> after, keep |-> keep,
   keepRestore |-> 1, schema |-> schema, quoted |-> quoted]

\* One type of each kind, with and without a term,
Kinds ==
  {Row("record", "day", "DAY", 1, 3, "s1", TRUE),
   Row("record", "day", "MONTH", 1, 0, "s1", FALSE),
   Row("table", "day", "MONTH", 1, 4, "s1", FALSE),
   Row("table", "month", "MONTH", 1, 4, "s1", FALSE),
   Row("table", "month", "DAY", 1, 0, "s1", FALSE)}

\* beside a type whose rows do not become due, of its schema or of another,
Quiet(schema) == Row("table", "month", "MONTH", 4, 4, schema, FALSE)

\* and two types whose files come to the same folders.
Neighbour(keep) == Row("table", "month", "MONTH", 1, keep, "s1", FALSE)

Shared == {a :> Neighbour(4) @@ b :> Neighbour(0)}

Lists ==
  {(a :> kind @@ b :> Quiet(schema)) : kind \in Kinds, schema \in {"s1", "s2"}}
    \cup Shared
=============================================================================
