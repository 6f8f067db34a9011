------------------------------ MODULE Processes ------------------------------
(***************************************************************************)
(* The life of a backup or restore process inside the service              *)
(* (internal/service/backuper.go, restorer.go), the state word s.state and *)
(* the table s.processes those goroutines share without a lock, and the    *)
(* control loop of Start (control.go) that reloads the configuration and   *)
(* stops the service around them.                                          *)
(*                                                                         *)
(* The goroutines run their steps one shared access at a time: a Load, a   *)
(* Store or a Delete of the table, a read or a write of s.state, one       *)
(* statement sent to the database.  What a process does between            *)
(* registering and unregistering (its table workers) takes one step; the   *)
(* other modules open it up.                                               *)
(***************************************************************************)
EXTENDS Naturals

CONSTANTS
  Ids,         \* keys of the process table: ids of config_table_list, and 0 for "all"
  Starts,      \* the processes asked for: a kind and an id each
  Procs,       \* goroutines that can run backupProcess or restoreProcess
  Main,        \* the goroutine of Start
  MaxReloads   \* bound: how many RELOAD commands a behaviour contains

ASSUME MainAssumption    == Main \notin Procs
ASSUME ReloadsAssumption == MaxReloads \in Nat

None    == "NONE"
Kinds   == {"BACKUP", "RESTORE"}
NoJob   == [kind |-> None, id |-> None]
Jobs    == [kind : Kinds, id : Ids]
Threads == Procs \cup {Main}

ASSUME StartsAssumption  == Starts \subseteq Jobs
ASSUME NoneAssumption    == None \notin Procs

ServiceStates == {"UNKNOWN", "ACTIVE", "INACTIVE", "RELOAD", "STOPPED"}

\* The process holds its entry of the table, from Store to Delete.
InProgress  == {"active", "work"}
\* The process has started and is neither registered nor turned away.
InAdmission == {"load", "wait", "check", "store"}
ProcSteps   == {"idle"} \cup InAdmission \cup InProgress \cup {"leave"}

\* The dispatchers that start processes; "oldBackup" stands for those whose
\* context a reload has cancelled and that have not noticed it yet.
Dispatchers == {"backup", "oldBackup", "restore"}

Reloading == {"reload", "resched", "resume"}
MainSteps == {"boot", "start", "loop"} \cup Reloading \cup {"restart"}
               \cup {"stop", "cancel", "waiting", "exited"}

VARIABLES
  state,      \* s.state
  processes,  \* s.processes: the goroutine whose *process is stored under each id
  pc,         \* where each goroutine is
  job,        \* the *process each backup/restore goroutine was started with
  oldState,   \* the state the control loop restores after a reload
  reloads,    \* RELOAD commands received
  accepting,  \* the dispatchers in their select loop
  clearer,    \* has the goroutine of clearProcesses begun its Range?
  toClear,    \* the keys its Range has still to visit
  seen        \* history: the goroutines in the table when this one was started, and ever since

vars == <<state, processes, pc, job, oldState, reloads,
          accepting, clearer, toClear, seen>>

TypeOK ==
  /\ state \in ServiceStates
  /\ processes \in [Ids -> Procs \cup {None}]
  /\ pc \in [Threads -> ProcSteps \cup MainSteps]
  /\ pc[Main] \in MainSteps
  /\ \A p \in Procs : pc[p] \in ProcSteps
  /\ job \in [Procs -> Jobs \cup {NoJob}]
  /\ \A p \in Procs : job[p] = NoJob <=> pc[p] = "idle"
  /\ oldState \in ServiceStates
  /\ reloads \in 0..MaxReloads
  /\ accepting \in SUBSET Dispatchers
  /\ clearer \in {"start", "range"}
  /\ toClear \in SUBSET Ids
  /\ seen \in [Procs -> SUBSET Procs]

Init ==
  /\ state = "UNKNOWN"
  /\ processes = [k \in Ids |-> None]
  /\ pc = [t \in Threads |-> IF t = Main THEN "boot" ELSE "idle"]
  /\ job = [p \in Procs |-> NoJob]
  /\ oldState = "UNKNOWN"
  /\ reloads = 0
  /\ accepting = {}
  /\ clearer = "start"
  /\ toClear = {}
  /\ seen = [p \in Procs |-> {}]

-----------------------------------------------------------------------------
Goto(t, from, to) == pc[t] = from /\ pc' = [pc EXCEPT ![t] = to]

\* The variables that most steps leave alone.
Table    == <<processes, job, seen>>
Clearing == <<clearer, toClear>>

(***************************************************************************)
(* stateAndMessage: the assignment of s.state; then currentState() reads   *)
(* s.state again, which another goroutine may have changed, and an UPDATE  *)
(* sends the text to the panel or fails, and the error is only logged.     *)
(* Nobody in the service reads the panel, and as the UPDATEs of two        *)
(* goroutines may cross on their way, it may keep the text of a state that *)
(* is over; the panel is not a variable here, and what is left of the call *)
(* is its write of s.state.  The steps of others come before and after it. *)
(***************************************************************************)
Assign(t, st, from, to) ==
  /\ Goto(t, from, to)
  /\ state' = st
  /\ UNCHANGED <<reloads, accepting, Table, Clearing>>

StepOnly == UNCHANGED <<state, oldState, reloads, accepting, Table, Clearing>>

-----------------------------------------------------------------------------
(***************************************************************************)
(* backupProcess and restoreProcess, which differ only in their kind.  The *)
(* Range of isActiveProcess is one step: what it says of an entry that     *)
(* comes or goes while it runs is true of one of the two moments.          *)
(***************************************************************************)
isActiveProcess(kind) == \E k \in Ids : processes[k] # None /\ job[processes[k]].kind = kind

Registered == {p \in Procs : \E k \in Ids : processes[k] = p}

\* History: who has left the table is no longer there "ever since".
Follow == seen' = [q \in Procs |-> seen[q] \cap Registered']

Rival(kind) == IF kind = "BACKUP" THEN "RESTORE" ELSE "BACKUP"

\* Mutant: the restore dispatcher is started with a context nobody cancels.
CancelledBroken(d) == d = "oldBackup" \/ (pc[Main] = "waiting" /\ d = "backup")

\* Has the context of dispatcher d been cancelled?
Cancelled(d) == d = "oldBackup" \/ pc[Main] = "waiting"

Serves(d, kind) == IF kind = "RESTORE" THEN d = "restore" ELSE d # "restore"

\* Dispatcher d takes a command or an alarm of the schedule and starts the
\* goroutine.  Its select may do so even when ctx.Done() is ready too: Go picks
\* one of the ready cases.  The process gets the dispatcher's context; once
\* that is cancelled its body ends early, which is one of the ways it may end.
Spawn(d, p, j) ==
  /\ d \in accepting /\ Serves(d, j.kind)
  /\ pc[p] = "idle"
  /\ pc' = [pc EXCEPT ![p] = "load"]
  /\ job' = [job EXCEPT ![p] = j]
  /\ seen' = [seen EXCEPT ![p] = Registered]
  /\ UNCHANGED <<state, processes, oldState, reloads, accepting, Clearing>>

\* A dispatcher sees ctx.Done and leaves its loop; it still waits for its processes.
Quit(d) ==
  /\ d \in accepting /\ Cancelled(d)
  /\ accepting' = accepting \ {d}
  /\ UNCHANGED <<state, pc, oldState, reloads, Table, Clearing>>

\* s.processes.Load(prc.DataID)
Load(p) ==
  /\ \/ Goto(p, "load", "wait")  /\ processes[job[p].id] = None
     \/ Goto(p, "load", "leave") /\ processes[job[p].id] # None
  /\ StepOnly

\* for s.state == STATE_RELOAD { sleep }
WaitReload(p) ==
  /\ state # "RELOAD"
  /\ Goto(p, "wait", "check")
  /\ StepOnly

\* Mutant: the check looks at the process's own data type only.
CheckBroken(p) ==
  /\ \/ Goto(p, "check", "leave") /\ processes[job[p].id] # None
     \/ Goto(p, "check", "store") /\ processes[job[p].id] = None
  /\ StepOnly

\* if s.isActiveProcess(the other kind) { return }
Check(p) ==
  /\ \/ Goto(p, "check", "leave") /\ isActiveProcess(Rival(job[p].kind))
     \/ Goto(p, "check", "store") /\ ~isActiveProcess(Rival(job[p].kind))
  /\ StepOnly

Register(p) ==
  /\ Goto(p, "store", "active")
  /\ processes' = [processes EXCEPT ![job[p].id] = p]
  /\ seen' = [q \in Procs |-> IF q = p THEN seen[p] ELSE seen[q] \cap Registered']
  /\ UNCHANGED <<state, job, oldState, reloads, accepting, Clearing>>

\* Mutant: the Delete is not deferred and an error return skips it.
UnregisterBroken(p) == Goto(p, "work", "leave") /\ StepOnly

\* The body between Store and Delete, which ends by an error, for lack of data,
\* on a cancelled context or when the workers are done, and the deferred Delete.
Unregister(p) ==
  /\ Goto(p, "work", "leave")
  /\ processes' = [processes EXCEPT ![job[p].id] = None]
  /\ Follow
  /\ UNCHANGED <<state, job, oldState, reloads, accepting, Clearing>>

\* Mutant: the goroutine ends without having dropped its *process.
FinishBroken(p) ==
  /\ Goto(p, "leave", "idle")
  /\ state' = "INACTIVE"
  /\ seen' = [seen EXCEPT ![p] = {}]
  /\ UNCHANGED <<processes, job, oldState, reloads, accepting, Clearing>>

\* Mutant: stateAndMessage is not deferred and an error return skips it.
FinishUnsaid(p) ==
  /\ Goto(p, "leave", "idle")
  /\ state' \in {state, "INACTIVE"}
  /\ job' = [job EXCEPT ![p] = NoJob]
  /\ seen' = [seen EXCEPT ![p] = {}]
  /\ UNCHANGED <<processes, oldState, reloads, accepting, Clearing>>

\* The deferred function: stateAndMessage(STATE_INACTIVE), then wgProcess.Done().
Finish(p) ==
  /\ Goto(p, "leave", "idle")
  /\ state' = "INACTIVE"
  /\ job' = [job EXCEPT ![p] = NoJob]
  /\ seen' = [seen EXCEPT ![p] = {}]
  /\ UNCHANGED <<processes, oldState, reloads, accepting, Clearing>>

SayActive(p) == Assign(p, "ACTIVE", "active", "work") /\ UNCHANGED oldState

ProcStep(p) ==
  \/ Load(p) \/ WaitReload(p) \/ Check(p) \/ Register(p)
  \/ SayActive(p) \/ Unregister(p) \/ Finish(p)

-----------------------------------------------------------------------------
(***************************************************************************)
(* The control loop of Start.                                              *)
(***************************************************************************)
Boot == Assign(Main, "INACTIVE", "boot", "start") /\ UNCHANGED oldState

\* go dispatcherBackup, dispatcherRestore.  The backup dispatcher leaves at
\* once when no job of the schedule can be set up.
StartDispatchers ==
  /\ Goto(Main, "start", "loop")
  /\ accepting' \in {{"restore"}, {"restore", "backup"}}
  /\ UNCHANGED <<state, oldState, reloads, Table, Clearing>>

\* oldState := s.state
ReceiveReload ==
  /\ reloads < MaxReloads
  /\ Goto(Main, "loop", "reload")
  /\ oldState' = state
  /\ reloads' = reloads + 1
  /\ UNCHANGED <<state, accepting, Table, Clearing>>

\* Mutant: oldState is read after stateAndMessage(STATE_RELOAD).
SayReloadBroken == Assign(Main, "RELOAD", "reload", "resched") /\ oldState' = "RELOAD"

SayReload == Assign(Main, "RELOAD", "reload", "resched") /\ UNCHANGED oldState

\* cancelSchedul() ends the context of the backup dispatcher; newScheduler
\* reads the schedule.
Reschedule ==
  /\ Goto(Main, "resched", "resume")
  /\ accepting' = {IF d = "backup" THEN "oldBackup" ELSE d : d \in accepting}
  /\ UNCHANGED <<state, oldState, reloads, Table, Clearing>>

\* Mutant: the state before the reload is not restored.
SayOldStateBroken == Goto(Main, "resume", "restart") /\ StepOnly

SayOldState == Assign(Main, oldState, "resume", "restart") /\ oldState' = "UNKNOWN"

\* go s.dispatcherBackup with the new context.
RestartDispatcher ==
  /\ Goto(Main, "restart", "loop")
  /\ accepting' \in {accepting, accepting \cup {"backup"}}
  /\ UNCHANGED <<state, oldState, reloads, Table, Clearing>>

ReceiveStop == Goto(Main, "loop", "stop") /\ StepOnly

SayStopped == Assign(Main, "STOPPED", "stop", "cancel") /\ UNCHANGED oldState

\* cancelSchedul(); globCancel()
Cancel == Goto(Main, "cancel", "waiting") /\ StepOnly

\* wgDispatchers.Wait(): every dispatcher has waited for its own processes.
Exit ==
  /\ accepting = {}
  /\ \A p \in Procs : pc[p] = "idle"
  /\ Goto(Main, "waiting", "exited")
  /\ StepOnly

MainStep ==
  \/ Boot \/ StartDispatchers
  \/ SayReload \/ Reschedule \/ SayOldState \/ RestartDispatcher
  \/ SayStopped \/ Cancel \/ Exit

-----------------------------------------------------------------------------
(***************************************************************************)
(* go s.clearProcesses(): Range takes its snapshot of the keys when the    *)
(* goroutine happens to run, and deletes them one by one.                  *)
(***************************************************************************)
ClearStart ==
  /\ clearer = "start"
  /\ clearer' = "range"
  /\ toClear' = {k \in Ids : processes[k] # None}
  /\ UNCHANGED <<state, pc, oldState, reloads, accepting, Table>>

ClearOne(k) ==
  /\ clearer = "range" /\ k \in toClear
  /\ toClear' = toClear \ {k}
  /\ processes' = [processes EXCEPT ![k] = None]
  /\ Follow
  /\ UNCHANGED <<state, pc, job, oldState, reloads, accepting, clearer>>

ClearStep == ClearStart \/ \E k \in Ids : ClearOne(k)

-----------------------------------------------------------------------------
Terminated == pc[Main] = "exited" /\ UNCHANGED vars

Next ==
  \/ \E d \in Dispatchers, p \in Procs, j \in Starts : Spawn(d, p, j)
  \/ \E d \in Dispatchers : Quit(d)
  \/ \E p \in Procs : ProcStep(p)
  \/ ReceiveReload \/ ReceiveStop \/ MainStep
  \/ ClearStep
  \/ Terminated

\* Goroutines are scheduled and database calls return.  Nothing obliges a user
\* to send a command, so Spawn, ReceiveReload and ReceiveStop are not fair.
Fairness ==
  /\ \A p \in Procs : WF_vars(ProcStep(p))
  /\ WF_vars(\E d \in Dispatchers : Quit(d))
  /\ WF_vars(MainStep)
  /\ WF_vars(ClearStep)

Spec == Init /\ [][Next]_vars /\ Fairness
-----------------------------------------------------------------------------
(***************************************************************************)
(* Properties.                                                             *)
(***************************************************************************)

\* The entry of the process table under an id is that of a process which works
\* on that id and is still between its Store and its Delete: no entry is left
\* behind to turn away every later backup or restore of its data type.
RegistrationOwned ==
  \A k \in Ids : processes[k] # None =>
    pc[processes[k]] \in InProgress /\ job[processes[k]].id = k

\* A process that was in the table when a start came, and has stayed there, is
\* respected by that start however long it has waited for a reload since: it
\* works on another data type and is of the same kind.  What escapes the two
\* checks are processes that come in together, and entries that
\* clearProcesses, or another process of the data type, has removed.
LatecomersTurnedAway ==
  \A p \in Procs : pc[p] \in InProgress =>
    \A q \in seen[p] : job[q].id # job[p].id /\ job[q].kind = job[p].kind

\* s.state says RELOAD only inside the reload branch of the control loop, so a
\* process that waits for the reload to end waits for a goroutine that will
\* change the state; and that branch never restores RELOAD itself.
ReloadOnlyWhileReloading ==
  /\ state = "RELOAD" => pc[Main] \in Reloading \ {"reload"}
  /\ oldState # "RELOAD"

\* Before any reload, the word s.state of a service whose processes have all
\* ended is INACTIVE, in whatever order they came, overtook each other and went.
IdleWord ==
  reloads = 0 /\ pc[Main] = "loop" /\ (\A p \in Procs : pc[p] = "idle")
    => state = "INACTIVE"

\* The comment of restoreProcess: restores may be simultaneous, "the main thing
\* is that no backup process of this data type is running".
NoBackupOfSameData ==
  \A p, q \in Procs :
    /\ pc[p] \in InProgress /\ pc[q] \in InProgress
    /\ job[p].id = job[q].id
    => job[p].kind = job[q].kind

\* A process that has started ends: it is turned away, or it leaves the reload
\* wait, runs and unregisters, whatever reloads and stops do meanwhile.
ProcessesEnd == \A p \in Procs : pc[p] # "idle" ~> pc[p] = "idle"

\* A stop command is carried out: the control loop gets past its wait for the
\* dispatchers and their processes.
StopCompletes == pc[Main] = "stop" ~> pc[Main] = "exited"
=============================================================================
