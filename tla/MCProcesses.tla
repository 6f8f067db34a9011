---------------------------- MODULE MCProcesses ----------------------------
(* The instances of Processes that TLC checks. *)
EXTENDS Processes, TLC

CONSTANTS p1, p2, p3, all, d1

TwoProcs   == {p1, p2}
ThreeProcs == {p1, p2, p3}
TwoIds     == {all, d1}
AllStarts  == Jobs
\* Every pair of kinds, on one data type and on two, but for two restores of
\* different data types.
ThreeStarts == {[kind |-> "BACKUP", id |-> all], [kind |-> "BACKUP", id |-> d1],
                [kind |-> "RESTORE", id |-> d1]}
Symmetry2  == Permutations(TwoProcs)
Symmetry3  == Permutations(ThreeProcs)
============================================================================
