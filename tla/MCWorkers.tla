----------------------------- MODULE MCWorkers ------------------------------
(* The instance of Workers that TLC checks. *)
EXTENDS Workers

CONSTANTS p1, p2

TwoProcs   == {p1, p2}
UpToTwo    == {0, 1, 2}
AnyNetwork == {"local", "remote"}
=============================================================================
