---------------------------- MODULE CommandsProofs ----------------------------
(***************************************************************************)
(* Theorems about Commands, for any number of data types, orders, reloads  *)
(* and alarms: its types, that nothing runs when the wait for the          *)
(* dispatchers is over but what a late dispatcher has started, and that no *)
(* kind of order is carried out more often than it was given and could not *)
(* be cleared.                                                             *)
(***************************************************************************)
EXTENDS Commands, TLAPS

-----------------------------------------------------------------------------
(***************************************************************************)
(* Type correctness.  A generation of the backup dispatcher is counted at  *)
(* Reschedule and spawned at Renew, so until then it is off.               *)
(***************************************************************************)
GenInv ==
  /\ main = "reload" => gen < MaxAsks["reload"]
  /\ \A g \in Gens : g > gen \/ (main = "renew" /\ g = gen) => disp[<<"backup", g>>] = "off"

TypeInv == TypeOK /\ GenInv

LEMMA BackupIsDispatcher == \A g \in Gens : <<"backup", g>> \in Dispatchers
BY DEF Dispatchers

LEMMA TypeInit == Init => TypeInv
<1> SUFFICES ASSUME Init PROVE TypeInv OBVIOUS
<1>1. MaxAsks["reload"] \in Nat BY BoundsAssumption DEF Orders
<1>2. TypeOK
  <2>1. mon \in MonSteps BY DEF Init, Idle, MonSteps
  <2>2. disp \in [Dispatchers -> DispSteps] BY DEF Init, DispSteps
  <2>3. chan \in [Commands -> Ids \cup {Nobody, "full"}] BY DEF Init
  <2>4. asked \in [Orders -> Nat] /\ \A c \in Orders : asked[c] <= MaxAsks[c]
    BY BoundsAssumption DEF Init
  <2>5. owed \in [Orders -> Int] /\ late \subseteq Dispatchers BY DEF Init
  <2>6. running \in [Dispatchers -> Nat] /\ \A d \in Dispatchers : running[d] = 0 BY DEF Init
  <2>7. gen \in Gens BY <1>1 DEF Init, Gens
  <2>8. jobs \in BOOLEAN BY ScheduleAssumption DEF Init
  <2>9. /\ flags \subseteq Commands /\ archive \in Ids \cup {Nobody}
        /\ sig \in {"none", "raised", "send", "gone"} /\ ended \in BOOLEAN
        /\ main \in {"loop", "reload", "renew", "stop", "waiting", "ending"}
    BY DEF Init
  <2>10. \A d \in Dispatchers : running[d] > 0 => disp[d] \in {"loop", "draining"} BY <2>6
  <2> QED BY ONLY <2>1, <2>2, <2>3, <2>4, <2>5, <2>6, <2>7, <2>8, <2>9, <2>10 DEF TypeOK
<1>3. GenInv
  BY <1>1, BackupIsDispatcher DEF Init, GenInv, Gens
<1> QED BY <1>2, <1>3 DEF TypeInv

LEMMA TypeStep == TypeInv /\ [Next]_vars => TypeInv'
<1> SUFFICES ASSUME TypeInv, [Next]_vars PROVE TypeInv' OBVIOUS
<1> USE DEF TypeInv, TypeOK, GenInv, row, monitors, loop, work, ghosts
<1>0. MaxAsks["reload"] \in Nat /\ \A c \in Orders : MaxAsks[c] \in Nat
  BY BoundsAssumption DEF Orders
<1>1. ASSUME NEW c \in Starts, NEW k \in Ids, AskStart(c, k) PROVE TypeInv'
  <2>1. asked' \in [Orders -> Nat] /\ \A n \in Orders : asked'[n] <= MaxAsks[n]
    BY <1>0, <1>1 DEF AskStart, MayAsk, Orders
  <2>2. owed' \in [Orders -> Int]
    BY <1>1 DEF AskStart, Orders
  <2> QED BY <1>1, <2>1, <2>2 DEF AskStart, Starts, Orders, Commands
<1>2. CASE AskStop BY <1>2 DEF AskStop, Commands
<1>3. CASE AskReload
  <2>1. asked' \in [Orders -> Nat] /\ \A n \in Orders : asked'[n] <= MaxAsks[n]
    BY <1>0, <1>3 DEF AskReload, MayAsk, Orders
  <2>2. owed' \in [Orders -> Int]
    BY <1>3 DEF AskReload, Orders
  <2> QED BY <1>3, <2>1, <2>2 DEF AskReload, Orders, Commands
<1>4. CASE Kill BY <1>4 DEF Kill
<1>5. CASE Monitor
  <2>1. owed' \in [Orders -> Int]
    BY <1>5 DEF Monitor, ReadPanel, MonitorGone, SendCommand, ResetPanel
  <2> QED BY <1>5, <2>1
          DEF Monitor, ReadPanel, Chosen, MonitorGone, SendCommand, ResetPanel, MonSteps, Idle
<1>6. CASE SignalMonitor
  BY <1>6 DEF SignalMonitor, SignalRead, SignalStop, SignalGone
<1>7. CASE ReceiveStop \/ ReceiveReload \/ CancelAll \/ WaitOver
  BY <1>0, <1>7 DEF ReceiveStop, ReceiveReload, CancelAll, WaitOver, Gens
<1>8. CASE Reschedule
  <2>1. gen' \in Gens /\ gen' = gen + 1 BY <1>0, <1>8 DEF Reschedule, Gens
  <2>2. jobs' \in BOOLEAN BY <1>8, ScheduleAssumption DEF Reschedule
  <2>3. owed' \in [Orders -> Int] BY <1>8 DEF Reschedule, Orders
  <2>4. GenInv' BY <1>8, <2>1 DEF Reschedule, Gens
  <2> QED BY <1>8, <2>1, <2>2, <2>3, <2>4 DEF Reschedule
<1>9. CASE Renew
  <2>1. <<"backup", gen>> \in Dispatchers BY BackupIsDispatcher
  <2>2. running[<<"backup", gen>>] = 0 BY <1>9, <2>1 DEF Renew
  <2>3. disp' \in [Dispatchers -> DispSteps] BY <1>9 DEF Renew, DispSteps
  <2>4. \A d \in Dispatchers : running[d] > 0 => disp'[d] \in {"loop", "draining"}
    BY <1>9, <2>1, <2>2 DEF Renew
  <2>5. GenInv' BY <1>9 DEF Renew, Gens
  <2> QED BY <1>9, <2>3, <2>4, <2>5 DEF Renew
<1>10. ASSUME NEW d \in Dispatchers, Enter(d) \/ SeeDone(d) \/ Leave(d) PROVE TypeInv'
  <2>1. disp' \in [Dispatchers -> DispSteps] /\ disp[d] # "off"
    BY <1>10 DEF Enter, SeeDone, Leave, At, DispSteps
  <2>2. \A e \in Dispatchers : running[e] > 0 => disp'[e] \in {"loop", "draining"}
    BY <1>10 DEF Enter, SeeDone, Leave, At
  <2>3. \A e \in Dispatchers : disp[e] = "off" => disp'[e] = "off"
    BY <1>10, <2>1 DEF Enter, SeeDone, Leave, At
  <2>4. UNCHANGED <<row, monitors, chan, loop, running, asked, owed>> /\ late' \subseteq Dispatchers
    BY <1>10 DEF Enter, SeeDone, Leave
  <2>5. GenInv' BY <2>3, <2>4, BackupIsDispatcher
  <2> QED BY <2>1, <2>2, <2>4, <2>5
<1>11. ASSUME NEW d \in Dispatchers, NEW c \in Starts, TakeStart(d, c) PROVE TypeInv'
  <2>1. running' \in [Dispatchers -> Nat]
        /\ \A e \in Dispatchers : running'[e] > 0 => disp[e] \in {"loop", "draining"}
    BY <1>11 DEF TakeStart
  <2>2. chan' \in [Commands -> Ids \cup {Nobody, "full"}] BY <1>11 DEF TakeStart
  <2>3. owed' \in [Orders -> Int] BY <1>11 DEF TakeStart, Orders
  <2> QED BY <1>11, <2>1, <2>2, <2>3 DEF TakeStart
<1>12. ASSUME NEW d \in Dispatchers, TakeAlarm(d) \/ EndProcess(d) PROVE TypeInv'
  <2>1. running' \in [Dispatchers -> Nat]
        /\ \A e \in Dispatchers : running'[e] > 0 => disp[e] \in {"loop", "draining"}
    BY <1>12, BoundsAssumption DEF TakeAlarm, EndProcess
  <2> QED BY <1>12, <2>1 DEF TakeAlarm, EndProcess
<1>13. CASE UNCHANGED vars BY <1>13 DEF vars
<1> QED BY <1>1, <1>2, <1>3, <1>4, <1>5, <1>6, <1>7, <1>8, <1>9, <1>10, <1>11, <1>12, <1>13
        DEF Next, User, Control, Dispatcher, Ending

\* Every variable keeps its type; in particular nothing runs under a dispatcher
\* that has not started, or that has returned.
THEOREM TypeCorrect == Spec => []TypeOK
<1>1. TypeInv => TypeOK BY DEF TypeInv
<1> QED BY <1>1, TypeInit, TypeStep, PTL DEF Spec

-----------------------------------------------------------------------------
(***************************************************************************)
(* When the wait is over nobody is counted but who has come since.         *)
(***************************************************************************)
WaitInv == main = "ending" => \A d \in Dispatchers \ late : ~Counted(d)

LEMMA WaitStep == TypeOK /\ WaitInv /\ [Next]_vars => WaitInv'
<1> SUFFICES ASSUME TypeOK, WaitInv, [Next]_vars PROVE WaitInv' OBVIOUS
<1> USE DEF WaitInv, Counted, TypeOK, row, monitors, loop, work, ghosts
<1>1. CASE main # "ending" /\ (User \/ Monitor \/ SignalMonitor)
  BY <1>1 DEF User, AskStart, AskStop, AskReload, Kill, Monitor, ReadPanel, MonitorGone,
       SendCommand, ResetPanel, SignalMonitor, SignalRead, SignalStop, SignalGone
<1>2. CASE main # "ending" /\ Control
  BY <1>2 DEF Control, ReceiveStop, ReceiveReload, Reschedule, Renew, CancelAll, WaitOver
<1>3. ASSUME NEW d \in Dispatchers, Enter(d) PROVE WaitInv'
  BY <1>3 DEF Enter, At
<1>4. ASSUME NEW d \in Dispatchers, SeeDone(d) \/ Leave(d) PROVE WaitInv'
  BY <1>4 DEF SeeDone, Leave, At
<1>5. ASSUME NEW d \in Dispatchers, TakeAlarm(d) \/ EndProcess(d) \/ \E c \in Starts : TakeStart(d, c)
      PROVE  WaitInv'
  BY <1>5 DEF TakeAlarm, EndProcess, TakeStart
<1>6. CASE UNCHANGED vars BY <1>6 DEF vars
<1> QED BY <1>1, <1>2, <1>3, <1>4, <1>5, <1>6 DEF Next, Dispatcher, Ending

\* From the return of the wait to the end of the program nothing runs that a
\* dispatcher started which had counted itself in time, however many reloads
\* have retired dispatchers before: only a dispatcher whose own Add(1) comes
\* after the wait can still start something.
THEOREM NothingLeftRunning == Spec => []DrainedAtExit
<1>1. Init => WaitInv BY DEF Init, WaitInv
<1>2. TypeOK /\ WaitInv => DrainedAtExit
  BY DEF TypeOK, WaitInv, DrainedAtExit, Counted
<1> QED BY <1>1, <1>2, WaitStep, TypeCorrect, PTL DEF Spec

-----------------------------------------------------------------------------
(***************************************************************************)
(* At most once.  An order on its way is a flag of the row that the        *)
(* monitor has not taken in hand, the command in the monitor's hand, the   *)
(* one in the channel, or a reload the loop has taken.  A flag that goes   *)
(* up again while its command is in the monitor's hand is cleared with it, *)
(* or stays up when clearing fails, which is counted; so each of the four  *)
(* stands for an order of its own.  Once everything is cancelled the row   *)
(* is no longer read, and what it shows counts no more.                    *)
(***************************************************************************)
InHand(c) == mon.at \in {"send", "reset"} /\ mon.cmd = c
One(b)    == IF b THEN 1 ELSE 0

Flagged(c) == One(c \in flags /\ ~ended /\ ~InHand(c))
Sending(c) == One(mon.at = "send" /\ mon.cmd = c)
Queued(c)  == One(chan[c] # Nobody)
Taken(c)   == One(c = "reload" /\ main = "reload")

WithinOwed(c) == Flagged(c) + Sending(c) + Queued(c) + Taken(c) <= owed[c]

\* What an order's count depends on: the steps that only clear a flag or leave
\* everything alone keep it.
LEMMA CountKept ==
  ASSUME TypeOK, NEW c \in Orders, WithinOwed(c),
         UNCHANGED <<mon, main, owed>>,
         flags' \subseteq flags, ended => ended', chan'[c] = chan[c]
  PROVE  WithinOwed(c)'
<1>1. owed[c] \in Int BY DEF TypeOK
<1> QED BY <1>1 DEF WithinOwed, Flagged, Sending, Queued, Taken, InHand, One

LEMMA CountStep ==
  ASSUME TypeInv, [Next]_vars, NEW c \in Orders, WithinOwed(c)
  PROVE  WithinOwed(c)'
<1> USE DEF TypeInv, TypeOK, row, monitors, loop, work, ghosts
<1>0. owed[c] \in Int /\ c \in Commands /\ c # "stop"
  BY DEF Orders, Starts, Commands
<1>1. ASSUME NEW x \in Starts, NEW k \in Ids, AskStart(x, k) PROVE WithinOwed(c)'
  <2>1. owed'[c] = IF c = x THEN owed[c] + 1 ELSE owed[c]
    BY <1>1 DEF AskStart
  <2>2. flags' = flags \cup {x} /\ UNCHANGED <<mon, chan, main, ended>>
    BY <1>1 DEF AskStart
  <2> HIDE DEF TypeInv, TypeOK
  <2> QED BY <1>0, <2>1, <2>2 DEF WithinOwed, Flagged, Sending, Queued, Taken, InHand, One
<1>2. CASE AskReload
  <2>1. owed'[c] = IF c = "reload" THEN owed[c] + 1 ELSE owed[c]
    BY <1>2 DEF AskReload
  <2>2. flags' = flags \cup {"reload"} /\ UNCHANGED <<mon, chan, main, ended>>
    BY <1>2 DEF AskReload
  <2> HIDE DEF TypeInv, TypeOK
  <2> QED BY <1>0, <2>1, <2>2 DEF WithinOwed, Flagged, Sending, Queued, Taken, InHand, One
<1>3. CASE AskStop \/ Kill
  BY <1>0, <1>3 DEF AskStop, Kill, WithinOwed, Flagged, Sending, Queued, Taken, InHand, One
<1>4. ASSUME NEW x \in Commands, ReadPanel(x) PROVE WithinOwed(c)'
  <2>1. /\ mon.at = "read" /\ ~ended /\ x \in flags
        /\ mon'.at = "send" /\ mon'.cmd = x
        /\ UNCHANGED <<flags, chan, main, ended, owed>>
    BY <1>4 DEF ReadPanel, Chosen
  <2> HIDE DEF TypeInv, TypeOK
  <2> QED BY <1>0, <2>1 DEF WithinOwed, Flagged, Sending, Queued, Taken, InHand, One
<1>5. CASE MonitorGone
  <2>1. /\ mon.at = "read" /\ mon'.at \in {"gone", "dead"}
        /\ UNCHANGED <<flags, chan, main, ended, owed>>
    BY <1>5 DEF MonitorGone, Idle
  <2> HIDE DEF TypeInv, TypeOK
  <2> QED BY <1>0, <2>1 DEF WithinOwed, Flagged, Sending, Queued, Taken, InHand, One
<1>6. CASE SendCommand
  <2>1. mon.at = "send" /\ chan[mon.cmd] = Nobody /\ UNCHANGED <<flags, main, ended, owed>>
    BY <1>6 DEF SendCommand
  <2>2. c # mon.cmd => chan'[c] = chan[c] BY <1>6, <1>0 DEF SendCommand
  <2>3. IF mon.cmd = "stop" THEN mon'.at = "gone" ELSE mon'.at = "reset" /\ mon'.cmd = mon.cmd
    BY <1>6 DEF SendCommand, Idle, MonSteps
  <2> HIDE DEF TypeInv, TypeOK
  <2> QED BY <1>0, <2>1, <2>2, <2>3 DEF WithinOwed, Flagged, Sending, Queued, Taken, InHand, One
<1>7. CASE ResetPanel
  <2>1. /\ mon.at = "reset" /\ mon'.at = "read" /\ UNCHANGED <<chan, main, ended>>
        /\ flags' \subseteq flags
    BY <1>7 DEF ResetPanel, Idle
  <2>2. CASE owed'[c] = owed[c]
    <3>1. flags' = {} \/ ended \/ mon.cmd # c
      BY <1>7, <2>2, <1>0 DEF ResetPanel
    <3> HIDE DEF TypeInv, TypeOK
    <3> QED BY <1>0, <2>1, <2>2, <3>1 DEF WithinOwed, Flagged, Sending, Queued, Taken, InHand, One
  <2>3. CASE owed'[c] # owed[c]
    <3>1. owed'[c] = owed[c] + 1 /\ mon.cmd = c
      BY <1>7, <2>3 DEF ResetPanel
    <3> HIDE DEF TypeInv, TypeOK
    <3> QED BY <1>0, <2>1, <3>1 DEF WithinOwed, Flagged, Sending, Queued, Taken, InHand, One
  <2> QED BY <2>2, <2>3
<1>8. CASE SignalMonitor
  <2>1. chan'[c] = chan[c]
    BY <1>0, <1>8 DEF SignalMonitor, SignalRead, SignalStop, SignalGone
  <2> QED BY <1>8, <2>1, CountKept DEF SignalMonitor, SignalRead, SignalStop, SignalGone
<1>9. CASE ReceiveStop
  <2>1. chan'[c] = chan[c] /\ main = "loop" /\ main' = "stop"
        /\ UNCHANGED <<flags, mon, ended, owed>>
    BY <1>0, <1>9 DEF ReceiveStop
  <2> HIDE DEF TypeInv, TypeOK
  <2> QED BY <1>0, <2>1 DEF WithinOwed, Flagged, Sending, Queued, Taken, InHand, One
<1>10. CASE ReceiveReload
  <2>1. chan'[c] = IF c = "reload" THEN Nobody ELSE chan[c]
    BY <1>0, <1>10 DEF ReceiveReload
  <2>2. chan["reload"] # Nobody /\ main = "loop" /\ main' = "reload"
        /\ UNCHANGED <<flags, mon, ended, owed>>
    BY <1>10 DEF ReceiveReload
  <2> HIDE DEF TypeInv, TypeOK
  <2> QED BY <1>0, <2>1, <2>2 DEF WithinOwed, Flagged, Sending, Queued, Taken, InHand, One
<1>11. CASE Reschedule
  <2>1. owed'[c] = IF c = "reload" THEN owed[c] - 1 ELSE owed[c]
    BY <1>11 DEF Reschedule
  <2>2. main = "reload" /\ main' = "renew" /\ UNCHANGED <<flags, mon, chan, ended>>
    BY <1>11 DEF Reschedule
  <2> HIDE DEF TypeInv, TypeOK
  <2> QED BY <1>0, <2>1, <2>2 DEF WithinOwed, Flagged, Sending, Queued, Taken, InHand, One
<1>12. CASE Renew \/ CancelAll \/ WaitOver
  <2>1. main # "reload" /\ main' # "reload" /\ (ended => ended')
        /\ UNCHANGED <<flags, mon, chan, owed>>
    BY <1>12 DEF Renew, CancelAll, WaitOver
  <2> HIDE DEF TypeInv, TypeOK
  <2> QED BY <1>0, <2>1 DEF WithinOwed, Flagged, Sending, Queued, Taken, InHand, One
<1>13. ASSUME NEW d \in Dispatchers, NEW x \in Starts, TakeStart(d, x) PROVE WithinOwed(c)'
  <2>1. owed'[c] = IF c = x THEN owed[c] - 1 ELSE owed[c]
    BY <1>13 DEF TakeStart
  <2>2. chan'[c] = IF c = x THEN Nobody ELSE chan[c] BY <1>0, <1>13 DEF TakeStart
  <2>3. chan[x] # Nobody /\ UNCHANGED <<flags, mon, main, ended>>
    BY <1>13 DEF TakeStart
  <2> HIDE DEF TypeInv, TypeOK
  <2> QED BY <1>0, <2>1, <2>2, <2>3 DEF WithinOwed, Flagged, Sending, Queued, Taken, InHand, One
<1>14. ASSUME NEW d \in Dispatchers, Enter(d) \/ SeeDone(d) \/ Leave(d) \/ TakeAlarm(d) \/ EndProcess(d)
       PROVE  WithinOwed(c)'
  BY <1>14, CountKept DEF Enter, SeeDone, Leave, TakeAlarm, EndProcess
<1>15. CASE UNCHANGED vars BY <1>15, CountKept DEF vars
<1> QED BY <1>1, <1>2, <1>3, <1>4, <1>5, <1>6, <1>7, <1>8, <1>9, <1>10, <1>11, <1>12, <1>13, <1>14, <1>15
        DEF Next, User, Monitor, Control, Dispatcher, Ending

\* However the panel, the monitor, the loop, reloads and dispatchers interleave,
\* whatever data types the orders name, no kind of order is carried out more
\* often than the user gave it and the row failed to be cleared after it.
THEOREM AtMostAsAsked == Spec => []AsAsked
<1> DEFINE Inv == \A c \in Orders : WithinOwed(c)
<1>1. ASSUME Init PROVE Inv
  <2> SUFFICES ASSUME NEW c \in Orders PROVE WithinOwed(c) OBVIOUS
  <2>1. owed[c] = 0 /\ c \in Commands
    BY <1>1 DEF Init, Commands
  <2>2. chan[c] = Nobody /\ flags = {} /\ mon.at = "read" /\ main = "loop"
    BY <1>1, <2>1 DEF Init, Idle
  <2> QED BY <2>1, <2>2 DEF WithinOwed, Flagged, Sending, Queued, Taken, One
<1>2. TypeInv /\ Inv /\ [Next]_vars => Inv'
  BY CountStep
<1>3. TypeOK /\ Inv => AsAsked
  <2> SUFFICES ASSUME TypeOK, Inv, NEW c \in Orders PROVE owed[c] >= 0
    BY DEF AsAsked
  <2>1. owed[c] \in Int /\ WithinOwed(c)
    BY DEF TypeOK
  <2> QED BY <2>1 DEF WithinOwed, Flagged, Sending, Queued, Taken, One
<1>4. TypeInv => TypeOK BY DEF TypeInv
<1> HIDE DEF Inv
<1> QED BY <1>1, <1>2, <1>3, <1>4, TypeInit, TypeStep, PTL DEF Spec
===============================================================================
