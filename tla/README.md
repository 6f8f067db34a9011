# Captura Backup: a TLA+ verification project

Captura Backup is a Go service that moves old rows of PostgreSQL tables into
compressed files of a storage (local disk, ftp, sftp), registers the files, and
brings rows back on demand. A schedule or a user starts backups, a user starts
restores; the user interface talks to the service only through one row of the
database. This directory holds models of the service written from its source,
the TLC configurations that check them, and proofs checked by TLAPS. Paths
below are relative to `src/internal/` unless they start with `sql/`.

## 1. The system

| part | state it keeps | operations | talks to |
|---|---|---|---|
| control loop, `service/control.go` `Start` | `s.state`, contexts, `wgDispatchers` | boot, reload, stop | channels `stop`, `reloadCfg`; starts everything else |
| monitors, `control.go` `monitorEventUI`, `monitorSignalOS` | none | poll the control row every 2 s, pass one command on, clear the row; take a signal | control row, the four channels of capacity 1 |
| dispatchers, `service/dispatchers.go` | `wgProcess`, the jobs of the schedule | start processes, leave on `ctx.Done` and wait for their processes | channels, scheduler, processes |
| process table, `service/service.go` | `s.processes` (sync.Map by data type) | Load, Range, Store, Delete, `clearProcesses` | all processes, no lock around check and store |
| backup and restore processes, `service/backuper.go`, `restorer.go` | entry in the table | admission, registration, list of work, loop over it, wait | state word, table, `buferWorkers`, database, storage client |
| workers, same files | temporary file | save, store, register, delete, drop; read, copy, mark | database, storage |
| scheduler, `scheduler/scheduler.go` | jobs, `isRunning`, timers | `nextRun`, `Run`, `runJob`, `Quit` | `startAutoBackup` |
| database access, `store/postgres/postgres.go`, `sql/functions.sql` | archived tables, `arch_available_data`, control row | one statement or transaction each | |
| storages, `storage/` | files and folders | MakeDir, SaveFile, ReadFile, Remove | |
| cleaner, `service/cleaner.go` | none | removes expired files and marks the register | never started, see below |
| notification, logger, connectors, entry | none of its own | | |

What is hard here is concurrency and failure, not computation:

* every goroutine writes the state word and the panel without a lock, and the
  control loop saves and restores the state word around a reload;
* admission is check-then-act on an unlocked table, with `clearProcesses`
  running beside it after the start;
* a reload replaces the backup dispatcher while the old one still waits for
  its processes, and a stop must wait for all generations;
* a command is passed on first and cleared from its row afterwards;
* rows, file and register are three systems changed one after the other, with
  an error, a cancelled context or a crash possible between any two steps;
* all processes share one bounded channel of workers, and workers of one schema
  make the same folders;
* timers run late and months have ends;
* tables are chosen, their days listed and the tables dropped at different times,
  and midnight may come in between.

What makes each part right, in one line each: a start respects the processes in
the table, and no entry is left there; the state of an idle service is `INACTIVE`;
a process and a stop always come to an end; orders are carried out at most once,
and a stop is not held up by what runs; a job goes off once on each of its days
and on no others; rows are saved before they are deleted and can be restored;
restored rows stay for their term; rows leave when they are due, not before, and
their file stays until its term is over; no place of a worker is lost.

`PROJECT.json` lists the hazards one by one at the line where they bite, with
the properties that cover them.

## 2. The modules

| module | models | state and actions, and the code they stand for |
|---|---|---|
| `Processes` | life of a process, state word, process table, control loop | one program counter per goroutine; each shared access is a step: `Load`, `WaitReload`, `Check`, `Register`, `SayActive`, `Unregister`, `Finish` are the lines of `backupProcess`/`restoreProcess` in order, deferred calls included. `Assign` is the write of `s.state` in `stateAndMessage`. `ReceiveReload` to `RestartDispatcher` and `ReceiveStop` to `Exit` are the two branches of the control loop; `Clear*` is the goroutine of `clearProcesses`. `seen` is a history variable |
| `Commands` | control row, monitors, channels, generations of dispatchers | `Ask*`, `Kill` are the user; `ReadPanel`, `SendCommand`, `ResetPanel` one turn of `monitorEventUI`; `Signal*` the other monitor; `Reschedule`, `Renew`, `CancelAll` the control loop, `WaitOver` the return of `wgDispatchers.Wait()` and `Ending` what `Start` does after it; `Enter` to `Leave` a dispatcher. `asked`, `owed`, `late` are history variables |
| `Calendar` | days and months, external to the service | `First[m]` is the first day of month m, `MonthOf` and `DayInMonth` what Go and PostgreSQL make of a date; used by `Scheduler` and `Retention` |
| `Scheduler` | `nextRun` of daily, weekly and monthly jobs, job goroutines | `dailyNextRun`, `weeklyNextRun`, `monthlyNextRun` are the functions of the code on a small calendar, `JobsOf` the set-up loop of `dispatcherBackup`; `Fire` is a turn of `Job.Run`, which adds an entry to the sequence `fired` each time, `RunJob` and `TakeAlarm` the two halves of `runJob` |
| `AlarmClock` | what a schedule promises, abstractly | `Ring` once for each of an alarm's times, in time; `Tick` passes no alarm that has not rung; `SwitchOff` |
| `Archive` | rows, archive files and register of one table | each call of `backupWorker` and `restoreWorker` that changes something is an action, with what the SQL does to the rows; `AbortBackup`, `AbortRestore`, `StoreFails` cut a worker off; `Insert`, `Remove`, `EditTemplate` are the application and the user beside it. `ever`, `met` are history variables |
| `Workers` | the shared channel `buferWorkers`, folders, storage client | `NextTable`, `Acquire`, `LoopEnds`, `Wait` are the loop of a process, `StatFolder`, `MakeFolder`, `Save`, `Fail`, `Release` a worker |
| `Retention` | which tables and days a backup takes, the term of files, the cleaner, for several data types | `Select` is `f_datas_to_archive` with `RefDate` and `Selected` the arithmetic on dates of `f_check_tbls_to_archive`; `BeginTable` is `DatesToBackup`; `ArchiveDay`, `SkipDay`, `LeaveTable` the loop of `backupWorker` with the work on one day in one step, `FailTable` and `FailDay` a worker cut off before or after it has stored a day; `Restore` a line of a restore; `ListFolder` to `EndFolder` are `cleaner.go`; `NewDay` is midnight |
| `RowLife` | what becomes of the rows of a day, abstractly | `Write`, `Archive`, `Discard`, `Return`, `Expire`: the moves between table, archive and nowhere, and when each is allowed; implemented by `Retention` |
| `CalendarProofs`, `ProcessesProofs`, `CommandsProofs`, `SchedulerProofs`, `ArchiveProofs`, `WorkersProofs`, `RetentionProofs` | theorems about these modules | |
| `MC*` | instances for TLC | small sets, symmetry, schedules |

How they fit together: `Commands` counts the processes a dispatcher waits for
and assumes that they end, which `Processes` shows (`ProcessesEnd`); `Processes`
takes the work of a process in one step, which `Workers` opens up to its workers
and `Archive` to what one worker does to rows and files. What `Archive` shows
of one table, that the work on a day leaves its rows in a file or where they
were, is one step of `Retention`, which follows many days and types over time.
`Scheduler` is where the alarms of `Commands` (`TakeAlarm`) come from. Each module abstracts the
others to what its own properties can tell apart; there is no module that
composes all of them, since their product is out of reach of a model checker.

Abstractions worth knowing:

* The panel is not modelled, only the state word. After its write of `s.state`,
  `stateAndMessage` calls `currentState()`, which reads the word again, and sends
  an UPDATE with the text. Nothing in the service reads the panel, and nothing
  orders the UPDATEs of two goroutines: one that ends may read the `ACTIVE` of
  another, which then ends and sends `INACTIVE` before the first has sent
  `ACTIVE`. The panel of an idle service may therefore show `ACTIVE` until the next
  process ends; what is claimed of an idle service (`IdleWord`) is about the word.
* The `Range` of `isActiveProcess` is one step. It matters only to starts that
  race with each other, for which no exclusion is claimed.
* `dispatcherCleaning` is left out of `Commands`: its `select` has a `default`, so
  its timer of 24 hours never fires, and until it sees `ctx.Done` it does nothing.
  What the monitors do while the program ends is left out too.
* `RunJob`, the test and the set of `isRunning`, is one step: two timers of one
  job are a day apart, and `Tick` does not let an alarm wait that long.
* A row is a name and the numbers of the restores that brought it back, so that
  a row restored twice is two rows, as in the database, and the counts that
  `DeleteDataForDay` and `RestoreData` compare come out as in the code. An update
  by the application is a row removed and another inserted.
* `Archive` has three kinds of application. An `orderly` one gives no rows to a day
  that has been emptied nor to a table that is to be dropped, and takes none from a
  day that a backup has in hand; a `late` one may give rows at any time; a `free` one
  takes them at any time as well.
* `developMode()` is off. Several restore workers of one table are taken one
  after another in `Archive`.
* In `Workers` all tables have one schema and one day, the case in which their
  folders collide.
* In `Retention` a day stands for its rows, and a data type for its tables: one
  table for all days of records, or one for each month or day. Saving a day and
  restoring one are a step each (`Archive` has the steps in between), and backups
  come one at a time; restores, midnights and the cleaner come between any two steps
  of a backup. The cleaner's loops over types and folders are taken in any order,
  which the order of the folders allows.

## 3. What is checked

All runs are exhaustive for their bounds. "Pass" runs:

| run | instance | what it shows |
|---|---|---|
| `admission` | 2 goroutines, 2 data types, 3 kinds of starts at any time, 1 reload | entries of the table belong to running processes; a start respects whoever was in the table before it and still is; `RELOAD` stays inside a reload and is never written back; the state word of an idle service is `INACTIVE`; processes end, a stop completes |
| `commands` | 2 data types, at most one order of each kind and two kinds of counted orders in a behaviour, a stop order or a signal besides, clears that fail, reads that fail, 1 process of an alarm at a time, schedules with and without jobs | the program ends with no process running but those of a dispatcher that came too late to be counted; no order is carried out more often than given; a signal and a stop order stop the service; a manual backup in the channel is taken, across generations |
| `schedule` | 2 months (31 and 28 days), 3 ticks a day, timers up to 1 tick late, 8 schedule rows, 4 first days | jobs go off once on each of their days and on no others, which makes the schedule an `AlarmClock`; alarms reach the dispatcher |
| `archive` | 2 days, 1 old row each, 1 row that may come, 1 row removed, 1 restore, both kinds of table, with and without `do_backup`, orderly and free applications, a template or none, edited once | a row that has left the table is saved and can be restored; restored records stay for their term; what a backup deletes is in a file |
| `workers` | 2 processes, 2 tables each, no, 1 or 2 workers, local and remote storage | no place of a worker is lost, no client closed under a worker, every table served; with at least one worker every process ends |
| `retention` | a data type out of 5 kinds (records and tables, per day and per month, intervals in days and months, with and without a term) beside a second type with a term of its own, in the same schema or another; also two monthly types whose files share folders, one with a term and one without; months of 1, 2, 2 and 3 days, 5 days, rows on the first two, 1 restore | rows leave only when they are due; a backup without an error leaves none behind; rows are in a table or in a file on offer until the term of their own type is over, and what is on offer has its file until then; together they live as `RowLife` says |

"Violation" runs show a disagreement between the code and what the repository
says of it (`findings` in `PROJECT.json` quotes the lines):

| run | what TLC finds |
|---|---|
| `backup_beside_restore` | a backup and a restore of one data type, started together, both pass the check before either registers; the comment on `restoreProcess` excludes this |
| `day_of_month` | `monthly.nextRun` adds the distance to a day that is past instead of taking it off: the default rows {1, 15} set up on the 10th fire on the 19th |
| `late_rows` | the archive of a day has one name: rows that come late for an emptied day overwrite the only copy of the earlier ones |
| `restored_dropped` | with backups and restores taking turns (`TurnsSpec`), days of a table that were skipped because they had been restored are lost when the table is dropped after the loop |
| `delete_only` | with `keep_arch_days < 0` nothing is ever deleted, as the deleted rows are compared with zero rows saved |
| `stored_forever` | the term of one data type removes the files of another of its schema, with `keep_arch_days = 0`, "store forever" |

### Bounds, and why they are enough

* Two goroutines and two data types: every admission property relates two
  processes, of the same or of different types, one of which may be the id 0
  for "all". `ThreeStarts` has every pair of kinds on one type and on two, but for
  two restores of different types. One reload takes a process through every point
  at which a reload can find it; retired dispatchers are one class (`oldBackup`), as
  they behave alike.
* `MaxAsks` and `MaxKinds`: one order of each kind, two kinds in a behaviour, in
  any combination, suffices for every pair of orders to meet in the row, the
  channel and the loop; a stop order or a signal, not both, is not counted and comes
  with any pair. `MaxOwed`: a clear fails while the order is owed less than once,
  so it fails and the order is passed on again.
* The calendar has a month boundary and the days 28 and 31, the weekdays start
  at every relevant position, and a tick before, at and after the time of the
  job. Monthly rows of the passing run name days that every month has and that
  are not past at the start; the rest is the finding `day_of_month`.
* Two days let a worker be cut off with one day done and one to do; one restore
  brings copies of rows that may still be in the table; one row that may come and
  one that is removed make counts differ, and agree by chance. The template is
  edited only beside an orderly application (`BoundedSpec` of `MCArchive`), the one
  `Recoverable` and its templates are about.
* In `retention` the months are short so that within 5 days a table of a month
  becomes due, is archived and, restored, is skipped; a month back from a day meets
  the same day of a month as long, or a month without such a day; the terms of 2 to 4
  days end within the run, before and after a backup. Types meet each other only in
  the folders of the cleaner and in the one backup that runs at a time, so the second
  type is mostly a quiet one, whose rows are not due in the run but whose term is
  over; in one of the lists both types have files, of the same days.
* Two processes and a channel of one place make one wait for the other's worker;
  two tables let a process wait for its own.

The theorems of section 4 lift these bounds for the safety properties.

### Conditions in the properties, where the code does not guarantee more

* `LatecomersTurnedAway` speaks of processes that were in the table when another was
  started, and have stayed there. Starts that race with each other are not turned
  away (`backup_beside_restore`), nor is a start after `clearProcesses`, which runs
  beside everything, has struck the entry of a running process off.
* `IdleWord` speaks of the time before any reload: the state that a reload
  remembers and writes back may be the `ACTIVE` of a process that has ended.
* `DrainedAtExit` leaves out the dispatchers in `late`: `wgDispatchers.Add(1)` is in
  the goroutine of the dispatcher, which may come to it when the wait is over. It
  may then still take a command or an alarm and start a process, which runs until
  the program ends under it.
* `AsAsked` adds to what the user has asked what could not be cleared: after a failed
  `ResetStateControl` the order is read and passed on again. It counts by kind of
  order. By kind and data type it is false, `type_archive` being one column for
  two commands (section 5).
* `StopServed` follows a stop order from a monitor that is reading, and allows for
  its death by a failed read; `ManualTaken` excepts a schedule without jobs.
* `Recoverable` speaks of an orderly application, and of days that a backup and a
  restore have not had in hand at the same time (`met`), which the code does
  not prevent. That a restore is let through is only claimed while the type has the
  template it was given at first: for a table archived with another, or with
  none, `RestoreData` ends with "no template for creating a table"
  (`postgres.go:388`), and the rows stay in a file that no restore accepts.
  Rows that come late are `late_rows`.
* `RestoredRecordsKept` speaks of the same days, and of any application.
* `SavedBeforeDeleted` speaks of every day. It allows for rows that have gone from the
  table after they were saved: as many may have come, and `DeleteDataForDay`, which
  compares numbers, deletes those unsaved.
* `TmpFails = FALSE`: the error of `gzip.Writer.Close`, which the code does not
  look at, does not occur. With it `Recoverable` fails.
* `ProcessEnds` is said for `limit_workers` above 0. With 0 the channel takes
  nothing and every process that has a table hangs for ever, cancelled or not (the
  model has this, `Hung`); a negative number makes `make` panic in `New`.
* `KeepsItsTerm`, in the properties of `retention`: no other type of the schema has a
  shorter term. `stored_forever` shows what happens otherwise. The list delivered
  with the service has one type in each schema.
* `WholeTables`, in the same properties: a table per month has an interval of whole
  months (months or years), as the delivered list has; section 5 says what happens
  otherwise.
* One calendar serves the service and the database. `time.Parse` makes the midnight of
  a folder one of UTC while `current_date` is that of the session's zone, so the
  cleaner may come some hours before or after the day changes in the database.

### Fairness, and why the code justifies it

Goroutines that can go on are scheduled (weak fairness of each goroutine), and
the calls of database and storage return. In `Commands` the cases of a
dispatcher's `select` that the properties need, `ctx.Done` and the command, are
weakly fair together: a `select` with a ready case takes one, and Go picks at
random, so alarms in cases of their own do not keep a dispatcher from them for
ever. Processes end, as `ProcessesEnd` of `Processes` shows. In `Workers`
the send on `buferWorkers` is strongly fair, since Go serves blocked senders in
their order. Nothing is assumed of users, signals, alarms, cancellations and
errors. `FairSpec` of `Archive` assumes for `delete_only` that backups are
started again and again and get through, which makes the violation stronger.

## 4. What is proved

For every value of the constants; TLAPS checks every step.

`ProcessesProofs`, without assumptions on the starts:

* `TypeCorrect`, `RegistrationsOwned`, `ReloadsEnclosed`: `RegistrationOwned` holds by
  itself with types; `ReloadOnlyWhileReloading` needs to know where the control
  loop is when the state word is `RELOAD`.
* `LatecomersRespect`: `LatecomersTurnedAway` is not inductive, as the two looks at the
  table are over when the process registers. `SeenInv` says that what was seen is
  still in the table under its own id, that whoever has passed the first look is of
  another data type than what it has seen and whoever has passed the second of the
  same kind; those that `Register` overwrites or `ClearOne` strikes off are no longer
  seen.
* `IdleWords`: `WordInv` says when the word may be other than `INACTIVE`: while some
  process that has registered has not come to its `Finish`, which will write it.

`ArchiveProofs`:

* `TypeCorrect`, together with the finiteness of all sets of rows that are counted.
* `DeletedWereSaved`: `SavedBeforeDeleted`, from sound temporary files alone. `SavedInv`
  says that from the store on the file of the day in hand holds the rows in hand,
  and from the registration on its line their number, for nobody else writes files,
  and only a restore's mark touches the line. Rows saved that are all still in the
  table, and as many as are deleted, are those deleted (`SameRows`).
* `RowsRecoverable`: `Recoverable`, from sound temporary files. A day outside `met` is safe
  while its table has every row it ever had, or is empty with a good archive
  (`SafeDays`). To keep this, `WorkInv` adds that the day in hand has its rows and no
  restore (`DayInHand`), that days to come have theirs (`TodoDays`), that what a
  restore has in hand is the archive (`RestoreInHand`), for a table to be dropped
  that the days behind the loop are empty or archived (`DoneDays`) and its files
  complete (`TableFiles`), and for the first template that lines bear it
  (`TemplateInv`). There is one lemma per action.
* `RestoredRecordsStay`: `RestoredRecordsKept`, without assumptions. `KeepInv` adds that a
  day that a backup has in hand was not restored recently and is in no restore's hand,
  and that the rows a restore is about to mark are in the table.

`CommandsProofs`:

* `TypeCorrect`, and from it `NothingLeftRunning`: `WaitInv` says that after the wait only
  late dispatchers are counted, and one that has processes is counted.
* `AtMostAsAsked`: the strengthening `WithinOwed` says for each order that what is in the
  row, in the hand of the monitor, in the channel and in the control loop adds up to
  no more than is owed; an order in hand that is about to be cleared from the row is
  counted once, and one that fails to be cleared is owed once more.

`CalendarProofs`: every day is in one month, and a later day in no earlier month;
cited by the proofs about `Scheduler` and `Retention`.

`SchedulerProofs`, for any calendar, length of the day and rows of the schedule:

* `TypeCorrect`, without further assumptions: `nextRun` of each kind is later than
  the moment at which it is computed (`NextIsLater`), also for the days of
  `day_of_month` that it gets wrong.
* `JobsWhenDue`, `JobsMissNoDay`, for schedules that are `Regular`: the time of a
  job plus the delay of its timer lies within the day, and the day of a monthly job
  is one that every month has and that is not past on the day of the start (what
  happens otherwise is `day_of_month`). The invariant `OnTime` says that each
  wake-up is the first instant of the job after the last time it was computed, that
  the job has gone off on all its days up to then, on them only, and that the clock
  is not past the wake-up by more than the delay. The lemmas `DailyNext`,
  `WeeklyNext` and `MonthlyNext` show that the code computes that instant.
* `ScheduleKeepsTime`: the refinement of `AlarmClock`, from the same invariant. A
  timer that goes off adds an entry to `fired`, which is a `Ring` of a time that has
  not rung, as the wake-up is after every day the job has gone off on. A second
  entry for a day would be no step of `AlarmClock`.

`WorkersProofs`:

* `TypeCorrect`, `NoPlaceLost`, `ClientOutlivesWorkers`, `NoTablePassedOver`. The count
  of the workers that hold a place is kept through each step by lemmas on
  cardinalities; the client is open because a process that waits has no worker
  left when it goes on.

`RetentionProofs`, for any calendar whose months follow each other:

* `OnlyDueRowsLeave`: the lemmas show that going back from a later day leads to no
  earlier one (`BackOrder`), and that all days of a table that is selected are past
  their interval (`SelectedIsPast`), the one place where whole months are needed.
  `BackupInv` carries both from the selection to the drop while the clock moves.
* `OfferIsKept`, `NothingLost`: a day in a file and on offer stays so until the term of
  some type of its schema is over (`FolderOver`, `SafeStays`), since the cleaner is only
  ever in a folder that is past one (`CleanerInv`) and only such days are marked
  (`RegisterInv`). For a type whose schema has no shorter term, that is its own term
  (`OwnTerm`); this is the one place where `KeepsItsTerm` is needed. `DropInv` adds that
  each day in a table that is going to be dropped is in hand or safe, which for
  the skipped days, and for those restored meanwhile, follows from their restore.
* `RowsLiveOn`: the refinement of `RowLife`, step by step, for the rows of the types in
  `Sound`. A day that leaves the tables is due (`OnlyDueRowsLeave`) and is then on offer
  or past its term (`NothingLost`), an `Archive` or a `Discard`; a day that leaves the
  offer has come back or is past its term, `Return` or `Expire`; and what is gone stays
  gone, because what a worker has in hand is still in the tables (`HandInv`) and a
  restore needs the file (`GoneStays`). That days stay due and terms stay over is the
  order of the dates once more.
* `NothingForgotten`: `OverdueInv` says of each row due at the start in which
  table still to come, or among which dates in hand, it is.

Only model-checked: all liveness properties (`ProcessesEnd`, `StopCompletes`,
`StopServed`, `ManualTaken`, `AlarmTaken`, `ProcessEnds`; liveness under fairness is
outside what the prover does). Every safety property of a passing run is a theorem.

## 5. Seen while modelling, without a run of its own

The first of these contradicts the repository, which says of a saved row that it is
stored for `keep_arch_days`, or for ever (`sql/tables.sql:23`); it is excepted by
name in the properties of `Retention` (`WholeTables`):

* A table per month with an interval in days: the first of the month less the
  interval lies within a month, whose table is dropped with rows that are younger
  and were not saved (the type `table`, `month`, `DAY` of `retention` shows it when
  `WholeTables` is left out of `NothingTooYoung` or of `Sound`).

Of the others the repository says nothing that they contradict, or the model leaves
the part out:

* `STOPPED` is written before the contexts are cancelled, and processes that end
  afterwards overwrite it with `INACTIVE`, which the panel keeps after the exit.
* Any process that ends, or is turned away, says `INACTIVE` while others run; a
  reload writes the old state back, so the service may be `ACTIVE` without a
  process until the next one ends. The UPDATEs of the panel may cross (section 2).
* `wgDispatchers.Add(1)` runs inside the goroutine of the dispatcher. A dispatcher that
  has not come to it when a stop has waited for the others is not waited for, and
  may start a process while the program ends (`late` in section 3).
* A retired dispatcher may take a manual command (`ManualTaken` counts it as taken)
  and start a process whose context is cancelled, which does nothing.
* `type_archive` is one column for two commands: a restore of one type and a backup
  of another before the row is read are served as a restore of the second.
* `monitorEventUI` blocks on a second manual backup when the schedule is empty
  and there is no backup dispatcher to take the first, and with it a stop order.
* A table cut off between its last deletion and the drop has no rows, so later
  backups find no dates and never drop it.
* `MakeDir` of ftp and sftp fails on a folder that exists: after the first table
  of a schema, every worker ends with an error. Locally two
  workers may both find nothing, and one of them fails, unless there is only one
  worker; its table waits for the next backup. (Any other error of `os.Stat` passes
  for a folder that is there.)
* The cleaning dispatcher waits on a new `time.After(24h)` in a `select` with a
  `default`, so it never cleans; nothing else starts `cleaner.go`.
* The cleaner looks for the line of a file by the name without quotes, the
  register has it as `format('%I')` gave it: for names such as `"RouteVKN10"` no
  line is ever marked, and the restore of a file that is gone stays on offer
  (`OfferedHaveFile` allows it after the term).
* The term of an archive runs from the date of the rows, not of the archive: with an
  interval longer than the term an archive is expired as soon as it is made.
* With `keep_restore_days` NULL, which the table allows, for a type that is saved,
  `WasRestoredAndExpired` scans NULL into a bool for a day that has a line already,
  and the worker ends with an error.
* A manual backup of "all" (0) selects `tid = 0` and finds nothing.
* `f_start_recovery` updates a column `this_date` that the control table lacks.

## 6. Not modelled, and why

* Tables named by a query (`condition_fmt` of entity `table`) and the matching of
  `tblname_pattern`: text put together and run in SQL.
* What is left of the storages: protocols, and the recursive `RemoveAll` and
  `MkdirAll` of ftp and sftp, which are code of the service's own but called only
  before it works (`MakedirAll`) or not at all.
* Notifications, logging, configuration, connectors, the program's entry, `Stop()`
  (which runs `systemctl` after everything has ended): input and output without
  state of the service.
* Recurrent jobs and the options of jobs that the service does not use.
* The functions of `sql/web_backend.sql` that edit the configuration, but for the
  template of a type (`EditTemplate` of `Archive`).
* The panel: the texts of the states and the order in which their UPDATEs arrive.

## 7. Where it could go on

The order was: admission and the control loop (`Processes`), because everything
else relies on admission and on an orderly stop; orders (`Commands`) and their
sources (`Scheduler`); the rows (`Archive`); the pool (`Workers`); the calendar,
the selection and the cleaner (`Retention`); the theorems about each.

What is left is of less weight: folders of several schemas and days in `Workers`;
`Retention` with types that are deleted without being saved.
