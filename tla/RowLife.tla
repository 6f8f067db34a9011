------------------------------- MODULE RowLife --------------------------------
(***************************************************************************)
(* What the service promises for the rows of a day: they stay in their     *)
(* table until they are due, are then in the table or in an archive, and   *)
(* leave the archive for good only when its term is over.                  *)
(***************************************************************************)
VARIABLES
  rows,   \* what is followed
  place,  \* where each of them is
  due,    \* those that may leave their table
  over    \* those whose archive may be given up

vars == <<rows, place, due, over>>

Init == place \in [rows -> {"unwritten", "table"}]

Write(x)    == place[x] = "unwritten" /\ place'[x] = "table"
Archive(x)  == place[x] = "table" /\ x \in due /\ place'[x] = "archive"
Discard(x)  == place[x] = "table" /\ x \in due /\ x \in over /\ place'[x] = "gone"
Return(x)   == place[x] = "archive" /\ place'[x] = "table"
Expire(x)   == place[x] = "archive" /\ x \in over /\ place'[x] = "gone"

\* A day that has come stays past.
Next ==
  /\ rows' = rows
  /\ due \subseteq due' /\ over \subseteq over'
  /\ \A x \in rows :
       \/ place'[x] = place[x]
       \/ Write(x) \/ Archive(x) \/ Discard(x) \/ Return(x) \/ Expire(x)

Spec == Init /\ [][Next]_vars
=============================================================================
