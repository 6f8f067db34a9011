------------------------------ MODULE Commands ------------------------------
(***************************************************************************)
(* How the service is told what to do (internal/service/control.go,        *)
(* dispatchers.go): the user interface raises flags in the only row of the *)
(* control table, monitorEventUI polls them and passes each on through a   *)
(* channel of capacity one, monitorSignalOS does the same for the signals  *)
(* of the operating system, the control loop of Start serves stop and      *)
(* reload, and the dispatchers serve the starts.  A reload cancels the     *)
(* backup dispatcher and starts the next generation of it.                 *)
(*                                                                         *)
(* What a started process does is module Processes; here it only counts as *)
(* running under its dispatcher, which waits for it.                       *)
(***************************************************************************)
EXTENDS Integers, FiniteSets

CONSTANTS
  Ids,        \* what a command can name: ids of config_table_list, and 0 for "all"
  MaxAsks,    \* bounds: how often the user gives each order
  MaxKinds,   \* bound: how many different orders a behaviour contains
  MaxOwed,    \* bound: clearing the row fails only while an order is owed less often
  MaxAuto,    \* bound: an alarm starts a process when fewer run, an order when no more do
  Schedules   \* may the schedule give jobs (TRUE), none (FALSE)?

Nobody   == "nobody"

ASSUME IdsAssumption      == Nobody \notin Ids

Starts   == {"recovery", "manual"}     \* commands that name a data type
Orders   == Starts \cup {"reload"}     \* what is counted
Commands == Orders \cup {"stop"}

ASSUME BoundsAssumption   == /\ MaxAsks \in [Orders -> Nat]
                             /\ MaxAuto \in Nat /\ MaxKinds \in Nat /\ MaxOwed \in Nat
ASSUME ScheduleAssumption == Schedules \subseteq BOOLEAN /\ Schedules # {}

\* The dispatchers: one for restores, and one generation of the backup dispatcher
\* per schedule.  dispatcherCleaning, which is counted like them, is left out: its
\* select has a default, so its timer of 24 hours never fires, and it starts
\* nothing.
Gens        == 0..MaxAsks["reload"]
Dispatchers == {<<"restore", 0>>} \cup ({"backup"} \X Gens)
DispSteps   == {"off", "spawned", "loop", "draining", "done"}

VARIABLES
  flags,    \* control: the commands whose flag is raised
  archive,  \* control.type_archive, one column for both starts
  mon,      \* monitorEventUI: its step, and the command it is passing on
  sig,      \* the signal of the operating system and its monitor
  chan,     \* s.stop, s.reloadCfg, s.startManualBackup, s.startRestoreData
  main,     \* where Start is
  gen,      \* the generation of ctxWithSchedule that is not cancelled
  jobs,     \* did the schedule last read give any job?
  ended,    \* globCancel has been called
  disp,     \* where each dispatcher is
  running,  \* processes each dispatcher has started that have not ended
  asked,    \* history: how often the user has given each order
  owed,     \* history: that, and how often the row could not be cleared after it,
            \* less how often it has been carried out on the panel's command
  late      \* history: dispatchers that have counted themselves after the wait was over

row      == <<flags, archive>>
monitors == <<mon, sig>>
loop     == <<main, gen, jobs, ended>>
work     == <<disp, running>>
ghosts   == <<asked, owed, late>>
vars     == <<row, monitors, chan, loop, work, ghosts>>

Idle     == [at |-> "read", cmd |-> Nobody, id |-> Nobody]
MonSteps == [at : {"read", "send", "reset", "gone", "dead"},
             cmd : Commands \cup {Nobody}, id : Ids \cup {Nobody}]

TypeOK ==
  /\ flags \subseteq Commands
  /\ archive \in Ids \cup {Nobody}
  /\ mon \in MonSteps
  /\ sig \in {"none", "raised", "send", "gone"}
  /\ chan \in [Commands -> Ids \cup {Nobody, "full"}]
  /\ main \in {"loop", "reload", "renew", "stop", "waiting", "ending"}
  /\ gen \in Gens
  /\ jobs \in BOOLEAN
  /\ ended \in BOOLEAN
  /\ disp \in [Dispatchers -> DispSteps]
  /\ running \in [Dispatchers -> Nat]
  /\ asked \in [Orders -> Nat] /\ \A c \in Orders : asked[c] <= MaxAsks[c]
  /\ owed \in [Orders -> Int]
  /\ late \subseteq Dispatchers
  /\ \A d \in Dispatchers : running[d] > 0 => disp[d] \in {"loop", "draining"}

\* Start has reset the control row, read the schedule and started everything.
Init ==
  /\ flags = {} /\ archive = Nobody
  /\ mon = Idle
  /\ sig = "none"
  /\ chan = [c \in Commands |-> Nobody]
  /\ main = "loop" /\ gen = 0 /\ ended = FALSE
  /\ jobs \in Schedules
  /\ disp = [d \in Dispatchers |->
               IF d[1] = "backup" /\ d[2] > 0 THEN "off" ELSE "spawned"]
  /\ running = [d \in Dispatchers |-> 0]
  /\ asked = [c \in Orders |-> 0]
  /\ owed = [c \in Orders |-> 0]
  /\ late = {}

-----------------------------------------------------------------------------
(***************************************************************************)
(* The user: the functions of web_backend.sql, and kill(1).                *)
(***************************************************************************)
\* The bounds on what the user does.
MayAsk(c) ==
  /\ asked[c] < MaxAsks[c]
  /\ Cardinality({n \in Orders : n = c \/ asked[n] > 0}) <= MaxKinds

\* f_start_manual_backup and f_start_recovery.  The latter names a column,
\* this_date, that the control table does not have; the order is taken here as
\* StateControl reads it, whoever has written the row.
AskStart(c, k) ==
  /\ MayAsk(c)
  /\ flags' = flags \cup {c}
  /\ archive' = k
  /\ asked' = [asked EXCEPT ![c] = @ + 1]
  /\ owed' = [owed EXCEPT ![c] = @ + 1]
  /\ UNCHANGED <<monitors, chan, loop, work, late>>

\* Bound: a behaviour contains one way of stopping.
AskStop ==
  /\ sig = "none"
  /\ flags' = flags \cup {"stop"}
  /\ UNCHANGED <<archive, monitors, chan, loop, work, ghosts>>

AskReload ==
  /\ MayAsk("reload")
  /\ flags' = flags \cup {"reload"}
  /\ asked' = [asked EXCEPT !["reload"] = @ + 1]
  /\ owed' = [owed EXCEPT !["reload"] = @ + 1]
  /\ UNCHANGED <<archive, monitors, chan, loop, work, late>>

Kill ==
  /\ sig = "none" /\ "stop" \notin flags /\ mon.cmd # "stop"
  /\ sig' = "raised"
  /\ UNCHANGED <<row, mon, chan, loop, work, ghosts>>

\* Once everything is cancelled nobody reads the row or the signals any more, and
\* what the user does then is left out.
User ==
  /\ ~ended
  /\ (\E c \in Starts, k \in Ids : AskStart(c, k)) \/ AskStop \/ AskReload \/ Kill

-----------------------------------------------------------------------------
(***************************************************************************)
(* monitorEventUI.                                                         *)
(***************************************************************************)
\* Mutant: the switch asks for stop last.
ChosenBroken(c) ==
  /\ c \in flags
  /\ \/ c = "recovery"
     \/ c = "reload" /\ "recovery" \notin flags
     \/ c = "manual" /\ flags \cap {"recovery", "reload"} = {}
     \/ c = "stop"   /\ flags = {"stop"}

\* The switch on the row it has read, in the order of its cases.
Chosen(c) ==
  /\ c \in flags
  /\ \/ c = "stop"
     \/ c = "recovery" /\ "stop" \notin flags
     \/ c = "reload"   /\ flags \cap {"stop", "recovery"} = {}
     \/ c = "manual"   /\ flags = {"manual"}

ReadPanel(c) ==
  /\ mon.at = "read" /\ ~ended
  /\ Chosen(c)
  /\ mon' = [at |-> "send", cmd |-> c, id |-> IF c \in Starts THEN archive ELSE Nobody]
  /\ UNCHANGED <<row, sig, chan, loop, work, ghosts>>

\* The context is cancelled and the monitor returns; or StateControl fails, on
\* which it returns as well ("dead"), and nobody reads the panel any more.
MonitorGone ==
  /\ mon.at = "read"
  /\ mon' = [Idle EXCEPT !.at = IF ended THEN "gone" ELSE "dead"]
  /\ UNCHANGED <<row, sig, chan, loop, work, ghosts>>

\* The send blocks while the channel holds a command.
SendCommand ==
  /\ mon.at = "send" /\ chan[mon.cmd] = Nobody
  /\ chan' = [chan EXCEPT ![mon.cmd] = IF mon.cmd \in Starts THEN mon.id ELSE "full"]
  /\ mon' = IF mon.cmd = "stop" THEN [Idle EXCEPT !.at = "gone"]
                                ELSE [mon EXCEPT !.at = "reset"]
  /\ UNCHANGED <<row, sig, loop, work, ghosts>>

\* Mutant: the command is passed on and its flag stays up.
ResetPanelBroken ==
  /\ mon.at = "reset"
  /\ mon' = Idle
  /\ UNCHANGED <<row, sig, chan, loop, work, ghosts>>

\* ResetStateControl clears every flag of the row.  An error is only logged: the
\* flags stay up and are read again, unless the error is that all has ended.
ResetPanel ==
  /\ mon.at = "reset"
  /\ \/ ~ended /\ flags' = {} /\ archive' = Nobody /\ UNCHANGED owed
     \/ /\ ~ended /\ owed[mon.cmd] < MaxOwed               \* bound
        /\ owed' = [owed EXCEPT ![mon.cmd] = @ + 1] /\ UNCHANGED row
     \/ ended /\ UNCHANGED <<row, owed>>
  /\ mon' = Idle
  /\ UNCHANGED <<sig, chan, loop, work, asked, late>>

Monitor == (\E c \in Commands : ReadPanel(c)) \/ MonitorGone \/ SendCommand \/ ResetPanel

(***************************************************************************)
(* monitorSignalOS.                                                        *)
(***************************************************************************)
SignalRead ==
  /\ sig = "raised" /\ ~ended
  /\ sig' = "send"
  /\ UNCHANGED <<row, mon, chan, loop, work, ghosts>>

SignalStop ==
  /\ sig = "send" /\ chan["stop"] = Nobody
  /\ chan' = [chan EXCEPT !["stop"] = "full"]
  /\ sig' = "gone"
  /\ UNCHANGED <<row, mon, loop, work, ghosts>>

SignalGone ==
  /\ sig \in {"none", "raised"} /\ ended
  /\ sig' = "gone"
  /\ UNCHANGED <<row, mon, chan, loop, work, ghosts>>

SignalMonitor == SignalRead \/ SignalStop \/ SignalGone

-----------------------------------------------------------------------------
(***************************************************************************)
(* The control loop of Start; module Processes follows the state word.     *)
(***************************************************************************)
ReceiveStop ==
  /\ main = "loop" /\ chan["stop"] # Nobody
  /\ chan' = [chan EXCEPT !["stop"] = Nobody]
  /\ main' = "stop"
  /\ UNCHANGED <<row, monitors, gen, jobs, ended, work, ghosts>>

ReceiveReload ==
  /\ main = "loop" /\ chan["reload"] # Nobody
  /\ gen < MaxAsks["reload"]                                \* bound
  /\ chan' = [chan EXCEPT !["reload"] = Nobody]
  /\ main' = "reload"
  /\ UNCHANGED <<row, monitors, gen, jobs, ended, work, ghosts>>

\* cancelSchedul(), the new context, newScheduler()
Reschedule ==
  /\ main = "reload"
  /\ gen' = gen + 1
  /\ jobs' \in Schedules
  /\ main' = "renew"
  /\ owed' = [owed EXCEPT !["reload"] = @ - 1]
  /\ UNCHANGED <<row, monitors, chan, ended, work, asked, late>>

\* Mutant: the reload ends without a new backup dispatcher.
RenewBroken ==
  /\ main = "renew"
  /\ main' = "loop"
  /\ UNCHANGED <<row, monitors, chan, gen, jobs, ended, work, ghosts>>

\* go s.dispatcherBackup(ctxWithSchedule, &wgDispatchers)
Renew ==
  /\ main = "renew"
  /\ disp' = [disp EXCEPT ![<<"backup", gen>>] = "spawned"]
  /\ main' = "loop"
  /\ UNCHANGED <<row, monitors, chan, gen, jobs, ended, running, ghosts>>

\* cancelSchedul(); globCancel()
CancelAll ==
  /\ main = "stop"
  /\ ended' = TRUE
  /\ main' = "waiting"
  /\ UNCHANGED <<row, monitors, chan, gen, jobs, work, ghosts>>

\* wgDispatchers counts a dispatcher from its own Add(1) to its Done().
Counted(d) == disp[d] \in {"loop", "draining"}

\* wgDispatchers.Wait() returns and Start comes to its end: it logs, on a stop
\* from the panel has systemctl stop the daemon, and returns.  The program ends
\* at some moment of this, with whatever has come up meanwhile.
WaitOver ==
  /\ main = "waiting" /\ \A d \in Dispatchers : ~Counted(d)
  /\ main' = "ending"
  /\ UNCHANGED <<row, monitors, chan, gen, jobs, ended, work, ghosts>>

Control == ReceiveStop \/ ReceiveReload \/ Reschedule \/ Renew \/ CancelAll \/ WaitOver

-----------------------------------------------------------------------------
(***************************************************************************)
(* The dispatchers.                                                        *)
(***************************************************************************)
CtxDone(d) == ended \/ (d[1] = "backup" /\ d[2] < gen)

At(d, from, to) == disp[d] = from /\ disp' = [disp EXCEPT ![d] = to]

\* The goroutine's own wg.Add(1), which may come when the wait is over; the
\* backup dispatcher returns at once when the schedule it reads, s.scheduler,
\* has no job.
Enter(d) ==
  /\ \/ At(d, "spawned", "loop") /\ (d[1] = "backup" => jobs)
     \/ At(d, "spawned", "done") /\ d[1] = "backup" /\ ~jobs
  /\ late' = IF main = "ending" THEN late \cup {d} ELSE late
  /\ UNCHANGED <<row, monitors, chan, loop, running, asked, owed>>

\* A case of the select is ready: a command of the panel, or for backups an
\* alarm of the schedule.  The select may take it even when ctx.Done() is ready.
TakeStart(d, c) ==
  /\ disp[d] = "loop"
  /\ <<d[1], c>> \in {<<"backup", "manual">>, <<"restore", "recovery">>}
  /\ chan[c] # Nobody
  /\ running[d] <= MaxAuto                                   \* bound
  /\ chan' = [chan EXCEPT ![c] = Nobody]
  /\ running' = [running EXCEPT ![d] = @ + 1]
  /\ owed' = [owed EXCEPT ![c] = @ - 1]
  /\ UNCHANGED <<row, monitors, loop, disp, asked, late>>

TakeAlarm(d) ==
  /\ disp[d] = "loop" /\ d[1] = "backup"
  /\ running[d] < MaxAuto
  /\ running' = [running EXCEPT ![d] = @ + 1]
  /\ UNCHANGED <<row, monitors, chan, loop, disp, ghosts>>

SeeDone(d) ==
  /\ CtxDone(d) /\ At(d, "loop", "draining")
  /\ UNCHANGED <<row, monitors, chan, loop, running, ghosts>>

EndProcess(d) ==
  /\ running[d] > 0
  /\ running' = [running EXCEPT ![d] = @ - 1]
  /\ UNCHANGED <<row, monitors, chan, loop, disp, ghosts>>

\* Mutant: the dispatcher returns without wgProcess.Wait().
LeaveBroken(d) ==
  /\ At(d, "draining", "done")
  /\ UNCHANGED <<row, monitors, chan, loop, running, ghosts>>

\* wgProcess.Wait(), and the deferred wgDispatchers.Done()
Leave(d) ==
  /\ running[d] = 0 /\ At(d, "draining", "done")
  /\ UNCHANGED <<row, monitors, chan, loop, running, ghosts>>

Dispatcher(d) ==
  \/ Enter(d) \/ SeeDone(d) \/ Leave(d)
  \/ \E c \in Starts : TakeStart(d, c)

-----------------------------------------------------------------------------
Ending == main = "ending" /\ UNCHANGED vars

\* While Start ends, what the monitors may still do is left out: they could have
\* done it, with the same effect, before the wait was over.
Next ==
  \/ main # "ending" /\ (User \/ Monitor \/ SignalMonitor \/ Control)
  \/ \E d \in Dispatchers : Dispatcher(d) \/ TakeAlarm(d) \/ EndProcess(d)
  \/ Ending

Running(A) == main # "ending" /\ A

\* Goroutines are scheduled, polls repeat, every process ends (Processes,
\* ProcessesEnd), and a select with a ready case takes one: alarms, which have
\* cases of their own, do not keep a dispatcher from the others for ever.
\* Users, signals and alarms owe nothing.
Fairness ==
  /\ WF_vars(Running(Monitor))
  /\ WF_vars(Running(SignalMonitor))
  /\ WF_vars(Running(Control))
  /\ \A d \in Dispatchers :
       /\ WF_vars(Running(Enter(d) \/ Leave(d) \/ EndProcess(d)))
       /\ WF_vars(Running(SeeDone(d) \/ \E c \in Starts : TakeStart(d, c)))

Spec == Init /\ [][Next]_vars /\ Fairness
-----------------------------------------------------------------------------
(***************************************************************************)
(* Properties.                                                             *)
(***************************************************************************)

\* From the return of wgDispatchers.Wait() on, no backup or restore is running
\* but those of a dispatcher that had not yet counted itself: whoever has, has
\* been waited for with all it has started, whatever reloads created and retired
\* dispatchers before the stop.
DrainedAtExit ==
  main = "ending" => \A d \in Dispatchers \ late : running[d] = 0

\* No kind of order is carried out more often than the user gave it and the row
\* could not be cleared after it: a command passed on is taken off the row
\* before the row is read again, and one that comes meanwhile may be lost with
\* it, never doubled.
AsAsked == \A c \in Orders : owed[c] >= 0

\* The service can be stopped: by a signal of the operating system, whatever
\* the panel commands in the channels and whatever runs, and by a stop flag that
\* is up when the monitor comes to read the row, for it goes first in the
\* switch, unless that read fails and the monitor dies of it; a retired
\* dispatcher or a running process cannot hold it up.
StopServed ==
  /\ sig = "raised" ~> main = "ending"
  /\ "stop" \in flags /\ mon.at = "read" ~> main = "ending" \/ mon.at = "dead"

\* A manual backup that the monitor has put into the channel is taken by some
\* generation of the backup dispatcher, unless a schedule without jobs has left
\* the service without one, or the service stops.
ManualTaken == chan["manual"] # Nobody ~> chan["manual"] = Nobody \/ ~jobs \/ main = "ending"
=============================================================================
