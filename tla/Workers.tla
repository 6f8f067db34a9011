------------------------------- MODULE Workers -------------------------------
(***************************************************************************)
(* The workers of backup and restore processes (internal/service/          *)
(* backuper.go, restorer.go).  A process opens a client of the storage,    *)
(* starts a worker per table or file while there is room in buferWorkers,  *)
(* the channel that all processes share, waits for its workers and closes  *)
(* the client.  Backup workers make the folders their file goes to         *)
(* (internal/storage), which workers of one schema do at the same time.    *)
(*                                                                         *)
(* The tables here all belong to one schema and are saved for one day, so  *)
(* that their workers make the same two folders.  What a worker does to    *)
(* rows and files is module Archive; what happens to a process before and  *)
(* after this is module Processes.                                         *)
(***************************************************************************)
EXTENDS Naturals, FiniteSets

CONSTANTS
  Procs,     \* processes that may run at the same time
  MaxTables, \* bound: tables, or files to restore, in the list of a process
  Limits,    \* values of limit_workers
  Networks   \* values of use_remote: "local", "remote" (ftp and sftp)

ASSUME ProcsAssumption    == IsFiniteSet(Procs) /\ MaxTables \in Nat
ASSUME LimitsAssumption   == Limits \subseteq Nat    \* make panics on a negative one
ASSUME NetworksAssumption == Networks \subseteq {"local", "remote"}

Tables  == 1..MaxTables        \* places in the list of a process
Folders == {"schema", "day"}

\* A worker's next call: Stat and Mkdir of a folder, and what comes after it.
Stat  == [schema |-> "statSchema", day |-> "statDay"]
Mkdir == [schema |-> "mkdirSchema", day |-> "mkdirDay"]
After == [schema |-> "statDay", day |-> "save"]

Working == {"statSchema", "mkdirSchema", "statDay", "mkdirDay", "save", "read"}
Holding == Working \cup {"release"}                     \* has a place in buferWorkers
WorkerSteps == {"none", "gone"} \cup Holding
ProcSteps   == {"idle", "select", "acquire", "wait"}

VARIABLES
  limit,      \* the capacity of buferWorkers
  network,    \* the kind of storage
  slots,      \* elements in buferWorkers
  folders,    \* folders of the storage that exist
  at,         \* where each process is
  kind,       \* "backup" or "restore"
  cancelled,  \* is its context cancelled?
  list,       \* the length of its list
  next,       \* the place in the list its loop has come to
  producer,   \* its client of the storage
  worker      \* where the worker of each of its tables is

config  == <<limit, network>>
process == <<at, kind, cancelled, list, next, producer>>
vars    == <<config, slots, folders, process, worker>>

TypeOK ==
  /\ limit \in Limits /\ network \in Networks
  /\ slots \in 0..limit
  /\ folders \subseteq Folders
  /\ at \in [Procs -> ProcSteps]
  /\ kind \in [Procs -> {"backup", "restore"}]
  /\ cancelled \in [Procs -> BOOLEAN]
  /\ list \in [Procs -> 0..MaxTables]
  /\ next \in [Procs -> 1..(MaxTables + 1)]
  /\ producer \in [Procs -> {"open", "closed"}]
  /\ worker \in [Procs -> [Tables -> WorkerSteps]]
  /\ \A p \in Procs :
       /\ at[p] = "acquire" => next[p] <= list[p]
       /\ \A t \in Tables : worker[p][t] # "none" => t < next[p]

Init ==
  /\ limit \in Limits /\ network \in Networks
  /\ slots = 0
  /\ folders = {}
  /\ at = [p \in Procs |-> "idle"]
  /\ kind = [p \in Procs |-> "backup"]
  /\ cancelled = [p \in Procs |-> FALSE]
  /\ list = [p \in Procs |-> 0]
  /\ next = [p \in Procs |-> 1]
  /\ producer = [p \in Procs |-> "closed"]
  /\ worker = [p \in Procs |-> [t \in Tables |-> "none"]]

-----------------------------------------------------------------------------
(***************************************************************************)
(* backupProcess and restoreProcess, from the list of their tables on.     *)
(***************************************************************************)
Goto(p, from, to) == at[p] = from /\ at' = [at EXCEPT ![p] = to]

\* DatasToArchive or FilesForRestore and filesProducer give the process k its
\* list and its client; one that has no list or no client ends at once.
Begin(p, k, n) ==
  /\ Goto(p, "idle", "select")
  /\ kind' = [kind EXCEPT ![p] = k]
  /\ list' = [list EXCEPT ![p] = n]
  /\ producer' = [producer EXCEPT ![p] = "open"]
  /\ UNCHANGED <<config, slots, folders, cancelled, next, worker>>

\* A reload or a stop cancels the context.  Workers may fail at any time anyway,
\* so this only matters to a process that is still in its loop.
Cancel(p) ==
  /\ at[p] \in {"select", "acquire"} /\ ~cancelled[p]
  /\ cancelled' = [cancelled EXCEPT ![p] = TRUE]
  /\ UNCHANGED <<config, slots, folders, at, kind, list, next, producer, worker>>

\* Mutant: a table is passed over when no worker is free.
NextTableBroken(p) ==
  /\ at[p] = "select" /\ ~cancelled[p] /\ next[p] <= list[p]
  /\ IF slots < limit
       THEN at' = [at EXCEPT ![p] = "acquire"] /\ UNCHANGED next
       ELSE next' = [next EXCEPT ![p] = @ + 1] /\ UNCHANGED at
  /\ UNCHANGED <<config, slots, folders, kind, cancelled, list, producer, worker>>

\* The loop goes on unless ctx.Done() is ready.
NextTable(p) ==
  /\ Goto(p, "select", "acquire")
  /\ ~cancelled[p] /\ next[p] <= list[p]
  /\ UNCHANGED <<config, slots, folders, kind, cancelled, list, next, producer, worker>>

StartWorker(p) ==
  /\ slots' = slots + 1
  /\ worker' = [worker EXCEPT ![p][next[p]] = IF kind[p] = "backup" THEN "statSchema" ELSE "read"]
  /\ next' = [next EXCEPT ![p] = @ + 1]
  /\ UNCHANGED <<config, folders, kind, cancelled, list, producer>>

\* Mutant: buferWorkers has room for one more.
AcquireBroken(p) ==
  /\ Goto(p, "acquire", "select")
  /\ slots <= limit
  /\ StartWorker(p)

\* s.buferWorkers <- struct{}{}, which does not look at the context, wgWorker.Add
\* and the go statement.  The first call of a backup worker, DatesToBackup, can
\* only end it, as Fail does.
Acquire(p) ==
  /\ Goto(p, "acquire", "select")
  /\ slots < limit
  /\ StartWorker(p)

LoopEnds(p) ==
  /\ Goto(p, "select", "wait")
  /\ cancelled[p] \/ next[p] > list[p]
  /\ UNCHANGED <<config, slots, folders, kind, cancelled, list, next, producer, worker>>

Return(p) ==
  /\ Goto(p, "wait", "idle")
  /\ producer' = [producer EXCEPT ![p] = "closed"]
  /\ cancelled' = [cancelled EXCEPT ![p] = FALSE]
  /\ kind' = [kind EXCEPT ![p] = "backup"]
  /\ list' = [list EXCEPT ![p] = 0] /\ next' = [next EXCEPT ![p] = 1]
  /\ worker' = [worker EXCEPT ![p] =
                  [t \in Tables |-> IF @[t] = "gone" THEN "none" ELSE @[t]]]
  /\ UNCHANGED <<config, slots, folders>>

\* Mutant: a cancelled process does not wait for its workers.
WaitBroken(p) ==
  (cancelled[p] \/ \A t \in Tables : worker[p][t] \notin Holding) /\ Return(p)

\* wgWorker.Wait(), the deferred producer.Close() and the return; the next
\* process has variables of its own.
Wait(p) == (\A t \in Tables : worker[p][t] \notin Holding) /\ Return(p)

-----------------------------------------------------------------------------
(***************************************************************************)
(* backupWorker and restoreWorker.                                         *)
(***************************************************************************)
Move(p, t, from, to) == worker[p][t] = from /\ worker' = [worker EXCEPT ![p][t] = to]

\* MakeDir of a local storage: os.Stat, and os.Mkdir when there is nothing.  Any
\* other error of os.Stat passes for a folder that is there.
StatFolder(p, t, f) ==
  /\ network = "local"
  /\ \/ Move(p, t, Stat[f], After[f])
     \/ f \notin folders /\ Move(p, t, Stat[f], Mkdir[f])
  /\ UNCHANGED <<config, slots, folders, process>>

\* Mkdir makes a folder that is not there in one that is.
MakeFolder(p, t, f) ==
  /\ \/ network = "local"  /\ Move(p, t, Mkdir[f], After[f])
     \/ network = "remote" /\ Move(p, t, Stat[f], After[f])
  /\ f \notin folders
  /\ f = "day" => "schema" \in folders
  /\ folders' = folders \cup {f}
  /\ UNCHANGED <<config, slots, process>>

\* SaveFile, to a folder that is there, and the statements after it, or everything
\* of restoreWorker.
Save(p, t) ==
  /\ worker[p][t] = "read" \/ (worker[p][t] = "save" /\ "day" \in folders)
  /\ worker' = [worker EXCEPT ![p][t] = "release"]
  /\ UNCHANGED <<config, slots, folders, process>>

\* Mutant: the receive from buferWorkers is not deferred.
FailBroken(p, t) ==
  /\ worker[p][t] \in Working
  /\ worker' = [worker EXCEPT ![p][t] = "gone"]
  /\ UNCHANGED <<config, slots, folders, process>>

\* An error ends the work at any step: no dates, a cancelled context, a storage
\* or database that fails, Mkdir of a folder that is there, SaveFile to one that is not.
Fail(p, t) ==
  /\ worker[p][t] \in Working
  /\ worker' = [worker EXCEPT ![p][t] = "release"]
  /\ UNCHANGED <<config, slots, folders, process>>

\* The deferred <-s.buferWorkers and wg.Done()
Release(p, t) ==
  /\ Move(p, t, "release", "gone")
  /\ slots' = slots - 1
  /\ UNCHANGED <<config, folders, process>>

\* limit_workers = 0: buferWorkers is a channel without room and nobody receives
\* before a send, so the processes stay where they are, also when cancelled.
Hung ==
  /\ limit = 0 /\ \A p \in Procs : at[p] = "acquire"
  /\ UNCHANGED vars

-----------------------------------------------------------------------------
ProcStep(p) == NextTable(p) \/ LoopEnds(p) \/ Wait(p)

WorkStep(p, t) ==
  \/ Save(p, t) \/ Fail(p, t) \/ Release(p, t)
  \/ \E f \in Folders : StatFolder(p, t, f) \/ MakeFolder(p, t, f)

Next ==
  \/ Hung
  \/ \E p \in Procs :
       \/ \E k \in {"backup", "restore"}, n \in Tables : Begin(p, k, n)
       \/ Cancel(p) \/ Acquire(p) \/ ProcStep(p)
       \/ \E t \in Tables : WorkStep(p, t)

\* Goroutines are scheduled and the calls of a worker return; it is enough that
\* of a process and its workers some goroutine always goes on.  Senders blocked
\* on a channel are served in their order, so a process is not passed over for
\* ever by the others.  Commands and cancellations owe nothing.
OwnStep(p) == ProcStep(p) \/ \E t \in Tables : WorkStep(p, t)

Fairness == \A p \in Procs : WF_vars(OwnStep(p)) /\ SF_vars(Acquire(p))

Spec == Init /\ [][Next]_vars /\ Fairness

-----------------------------------------------------------------------------
(***************************************************************************)
(* Properties.                                                             *)
(***************************************************************************)
HoldingWorkers == {w \in Procs \X Tables : worker[w[1]][w[2]] \in Holding}

\* Each element of buferWorkers stands for one worker that has not given its
\* place back, however workers fail: no place is lost, and none given twice.
SlotsConserved == slots = Cardinality(HoldingWorkers)

\* A worker's client of the storage is open for as long as the worker works,
\* also when the process has been cancelled.
ProducerOpen ==
  \A p \in Procs, t \in Tables : worker[p][t] \in Working => producer[p] = "open"

\* A process that has not been cancelled has had a worker for every table of its
\* list when it waits for the last of them, however full the channel was.
TablesServed ==
  \A p \in Procs : at[p] = "wait" /\ ~cancelled[p] =>
    \A t \in 1..list[p] : worker[p][t] # "none"

\* Processes that share the workers do not hold each other up: each ends, if there
\* is a worker at all.  With limit_workers = 0 a process that sends never ends.
ProcessEnds ==
  \A p \in Procs : at[p] # "idle" /\ limit > 0 ~> at[p] = "idle"
=============================================================================
