---------------------------- MODULE MCCommands -----------------------------
(* The instances of Commands that TLC checks. *)
EXTENDS Commands

CONSTANTS all, d1

TwoIds    == {all, d1}
EachOnce  == [recovery |-> 1, manual |-> 1, reload |-> 1]
AnyJobs   == BOOLEAN
============================================================================
