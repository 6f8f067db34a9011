------------------------------ MODULE AlarmClock ------------------------------
(***************************************************************************)
(* What a schedule promises, whatever it is made of: every alarm that is   *)
(* set rings once for each of its times, at that time or at most Late      *)
(* instants after it, and never otherwise.                                 *)
(***************************************************************************)
EXTENDS Sequences, Integers

CONSTANTS
  Alarms,   \* all alarms there may be
  Times,    \* the instants for which each is meant to ring
  Late      \* how late it may ring

VARIABLES
  clock,
  start,    \* the instant at which the alarms were set
  set,      \* the alarms that were
  rung,     \* the times for which each has rung, in the order in which it did
  on        \* FALSE when the alarms have been switched off

vars == <<clock, start, set, rung, on>>

HasRung(a, t) == \E i \in DOMAIN rung[a] : rung[a][i] = t

Init ==
  /\ clock = start
  /\ set \subseteq Alarms
  /\ rung = [a \in Alarms |-> <<>>]

\* Time does not pass an alarm that has not rung.
Tick ==
  /\ on
  /\ \A a \in set : \A t \in Times[a] : start < t /\ t + Late <= clock => HasRung(a, t)
  /\ clock' = clock + 1
  /\ UNCHANGED <<start, set, rung, on>>

Ring(a) ==
  /\ on /\ a \in set
  /\ \E t \in Times[a] :
       /\ ~HasRung(a, t)
       /\ start < t /\ t <= clock /\ clock <= t + Late
       /\ rung' = [rung EXCEPT ![a] = Append(@, t)]
  /\ UNCHANGED <<clock, start, set, on>>

SwitchOff ==
  /\ on
  /\ on' = FALSE
  /\ UNCHANGED <<clock, start, set, rung>>

Next == Tick \/ SwitchOff \/ \E a \in Alarms : Ring(a)

Spec == Init /\ [][Next]_vars
=============================================================================
