----------------------------- MODULE MCArchive ------------------------------
(* The instances of Archive that TLC checks. *)
EXTENDS Archive, TLC

CONSTANTS day1, day2, r1, r2

OneDay   == {day1}
TwoDays  == {day1, day2}
OneRow   == {r1}
TwoRows  == {r1, r2}
NoRows   == {}
LateRow  == {r2}
Saving   == {TRUE}
Deleting == {FALSE}
Both     == {TRUE, FALSE}
Records  == {"record"}
Tables   == {"table"}
Orderly  == {"orderly"}
LateOnly == {"late"}
AnyApp   == {"orderly", "free"}
NoTemplate   == {"none"}
OldTemplate  == {"old"}
AnyTemplate  == {"none", "old"}
EitherEntity == {"record", "table"}
Symmetry == Permutations(TwoDays)

\* Bound: the template is edited only beside an orderly application.  What is said
\* of the others, SavedBeforeDeleted, says nothing of templates.
BoundedNext ==
  \/ Backup \/ Restore
  \/ \E d \in Days, n \in Late : Insert(d, n)
  \/ \E d \in Days : Expire(d) \/ \E x \in db[d] : Remove(d, x)
  \/ app = "orderly" /\ EditTemplate

BoundedSpec == Init /\ [][BoundedNext]_vars
=============================================================================
