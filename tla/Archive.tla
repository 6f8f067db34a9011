------------------------------- MODULE Archive -------------------------------
(***************************************************************************)
(* What happens to the rows of one table: backupWorker                     *)
(* (internal/service/backuper.go) saves the rows of each old day into a    *)
(* file of the storage, registers the file and deletes the rows;           *)
(* restoreWorker (restorer.go) copies a file back; the statements are      *)
(* those of internal/store/postgres/postgres.go.  Each worker is cut off   *)
(* between any two of its steps by an error, a cancelled context or a      *)
(* crash of the program, and a later process starts afresh.                *)
(*                                                                         *)
(* A row is its name and the numbers of the restores it came back by,      *)
(* which tell the copies of a row restored twice apart.                    *)
(***************************************************************************)
EXTENDS Naturals, Sequences, FiniteSets

CONSTANTS
  Days,        \* the days of the date column older than the cut-off
  Old, Late,   \* names of rows there from the start, and of rows that may come later
  Entities,    \* what config_table_list.entity may be: "record", "table"
  DoBackups,   \* what do_backup (keep_arch_days >= 0) may be
  Apps,        \* how the application may treat rows older than the cut-off (app)
  Templates,   \* what restore_template of a table may be at first: "none", "old"
  MaxRestores, \* bound: restores in a behaviour
  MaxRemovals, \* bound: rows the application removes
  TmpFails     \* may the temporary file lose data without an error?

ASSUME RowsAssumption     == IsFiniteSet(Old) /\ IsFiniteSet(Late) /\ Old \cap Late = {}
ASSUME DaysAssumption     == IsFiniteSet(Days)
ASSUME EntityAssumption   == Entities \subseteq {"record", "table"} /\ DoBackups \subseteq BOOLEAN
ASSUME RestoresAssumption == MaxRestores \in Nat /\ MaxRemovals \in Nat
ASSUME AppsAssumption     == Apps \subseteq {"orderly", "late", "free"}
ASSUME TemplateAssumption == Templates \subseteq {"none", "old"}
ASSUME FlagsAssumption    == TmpFails \in BOOLEAN

VARIABLES
  entity,    \* data.Entity
  doBackup,  \* data.DoBackup
  app,       \* "orderly", "late" or "free"
  template,  \* config_table_list.restore_template
  table,     \* does the table exist?
  db,        \* the rows of the table, by day
  ever,      \* the names of the rows the application has not removed, by day
  file,      \* the archive file of each day
  avail,     \* the line of arch_available_data about each day
  bak,       \* the backup worker: its step, the days left, the day and rows in hand
  res,       \* the restore worker: its step, day, declared count and rows in hand
  restores,  \* restores begun
  removals,  \* rows removed by the application
  met        \* days that both workers have had in hand at the same time

config  == <<entity, doBackup, app>>
archive == <<file, avail>>
vars    == <<config, template, table, db, ever, archive, bak, res, restores, removals, met>>

AllRows     == (Old \cup Late) \X Seq(Nat)
NewRow(n)   == <<n, <<>>>>
Copy(x, i)  == <<x[1], Append(x[2], i)>>         \* x, brought back by restore i
Copies(R, i) == {Copy(x, i) : x \in R}
Names(R)    == {x[1] : x \in R}
NoFile    == [there |-> FALSE, whole |-> FALSE, rows |-> {}]
Whole(R)  == [there |-> TRUE, whole |-> TRUE, rows |-> R]
Broken    == [there |-> TRUE, whole |-> FALSE, rows |-> {}]
Unknown   == [known |-> FALSE, rows |-> 0, restored |-> "never", template |-> "none"]
NoDay     == "no day"
BackupIdle  == [at |-> "idle", todo |-> {}, day |-> NoDay, rows |-> {}, whole |-> TRUE,
                template |-> "none"]
RestoreIdle == [at |-> "idle", day |-> NoDay, count |-> 0, rows |-> {}, fits |-> FALSE]

Handling    == {"save", "store", "register", "delete"}
BackupSteps == {"idle", "days", "drop"} \cup Handling
RestoreSteps == {"idle", "read", "copy", "mark"}
AllTemplates == {"none", "old", "new"}

InBackup(d)  == bak.at \in Handling /\ bak.day = d
InRestore(d) == res.at # "idle" /\ res.day = d

TypeOK ==
  /\ entity \in Entities /\ doBackup \in DoBackups /\ app \in Apps
  /\ template \in AllTemplates /\ table \in BOOLEAN
  /\ db \in [Days -> SUBSET AllRows]
  /\ ever \in [Days -> SUBSET (Old \cup Late)]
  /\ file \in [Days -> [there : BOOLEAN, whole : BOOLEAN, rows : SUBSET AllRows]]
  /\ avail \in [Days -> [known : BOOLEAN, rows : Nat,
                         restored : {"never", "recently", "expired"},
                         template : AllTemplates]]
  /\ bak \in [at : BackupSteps, todo : SUBSET Days, day : Days \cup {NoDay},
              rows : SUBSET AllRows, whole : BOOLEAN, template : AllTemplates]
  /\ res \in [at : RestoreSteps, day : Days \cup {NoDay}, count : Nat, rows : SUBSET AllRows,
              fits : BOOLEAN]
  /\ restores \in 0..MaxRestores /\ removals \in 0..MaxRemovals
  /\ met \subseteq Days
  /\ ~table => \A d \in Days : db[d] = {}
  /\ bak.at \in Handling => bak.day \in Days
  /\ res.at # "idle" => res.day \in Days

Init ==
  /\ entity \in Entities /\ doBackup \in DoBackups /\ app \in Apps
  /\ template \in IF entity = "table" THEN Templates ELSE {"none"}
  /\ table = TRUE
  /\ db = [d \in Days |-> {NewRow(n) : n \in Old}]
  /\ ever = [d \in Days |-> Old]
  /\ file = [d \in Days |-> NoFile]
  /\ avail = [d \in Days |-> Unknown]
  /\ bak = BackupIdle /\ res = RestoreIdle
  /\ restores = 0 /\ removals = 0
  /\ met = {}

-----------------------------------------------------------------------------
(***************************************************************************)
(* The application that owns the table, the user of the panel, the         *)
(* calendar.  An orderly application gives no rows to a day that has been  *)
(* emptied nor to a table about to go, and takes none from a day while it  *)
(* is being archived; a late one may give rows at any time, and a free one *)
(* takes them at any time as well.  An update is a row removed and another *)
(* one inserted.                                                           *)
(***************************************************************************)
Insert(d, n) ==
  /\ table /\ n \in Late \ ever[d]
  /\ app = "orderly" => entity = "record" /\ db[d] # {}
  /\ db' = [db EXCEPT ![d] = @ \cup {NewRow(n)}]
  /\ ever' = [ever EXCEPT ![d] = @ \cup {n}]
  /\ UNCHANGED <<config, template, table, archive, bak, res, restores, removals, met>>

Remove(d, x) ==
  /\ x \in db[d]
  /\ app # "free" => ~InBackup(d)
  /\ removals < MaxRemovals                      \* bound
  /\ removals' = removals + 1
  /\ db' = [db EXCEPT ![d] = @ \ {x}]
  /\ ever' = [ever EXCEPT ![d] = {n \in @ : n # x[1] \/ n \in Names(db[d] \ {x})}]
  /\ UNCHANGED <<config, template, table, archive, bak, res, restores, met>>

\* f_save_edit_backup_entity (sql/web_backend.sql) gives the type another template; once, as a bound.
EditTemplate ==
  /\ entity = "table" /\ template # "new"
  /\ template' = "new"
  /\ UNCHANGED <<config, table, db, ever, archive, bak, res, restores, removals, met>>

\* keep_restore_days have passed since restored_at.
Expire(d) ==
  /\ avail[d].restored = "recently"
  /\ avail' = [avail EXCEPT ![d].restored = "expired"]
  /\ UNCHANGED <<config, template, table, db, ever, file, bak, res, restores, removals, met>>

-----------------------------------------------------------------------------
(***************************************************************************)
(* backupWorker.                                                           *)
(***************************************************************************)
\* DatesToBackup: the days that have rows; with none the worker returns.  The
\* template of the type has been read with the list of its tables.
BeginBackup ==
  /\ bak.at = "idle" /\ table
  /\ LET dates == {d \in Days : db[d] # {}}
     IN  dates # {} /\ bak' = [BackupIdle EXCEPT !.at = "days", !.todo = dates, !.template = template]
  /\ UNCHANGED <<config, template, table, db, ever, archive, res, restores, removals, met>>

NotExpired(d) == avail[d].known /\ avail[d].restored = "recently"

TakeDay(d, step) ==
  /\ bak.at = "days" /\ d \in bak.todo
  /\ bak' = [bak EXCEPT !.todo = @ \ {d}, !.day = IF step = "days" THEN NoDay ELSE d, !.at = step]
  /\ met' = IF InRestore(d) /\ step \in Handling THEN met \cup {d} ELSE met
  /\ UNCHANGED <<config, template, table, db, ever, archive, res, restores, removals>>

\* Mutant: WasRestoredAndExpired is not asked.
NextDayBroken(d) == TakeDay(d, IF doBackup THEN "save" ELSE "delete")

\* The next day of the loop: skipped when its data were restored and the term
\* has not expired; without do_backup only the deletion is left.
NextDay(d) ==
  TakeDay(d, IF ~doBackup THEN "delete" ELSE IF NotExpired(d) THEN "days" ELSE "save")

\* SaveDataForDay: COPY the rows of the day through gzip to the temporary file.
\* What gzWriter.Close() reports is not looked at.
SaveDay ==
  /\ bak.at = "save"
  /\ \E w \in BOOLEAN :
       /\ w \/ TmpFails
       /\ bak' = [bak EXCEPT !.at = "store", !.rows = db[bak.day], !.whole = w]
  /\ UNCHANGED <<config, template, table, db, ever, archive, res, restores, removals, met>>

\* producer.SaveFile overwrites the file of the day.
StoreFile ==
  /\ bak.at = "store"
  /\ file' = [file EXCEPT ![bak.day] = IF bak.whole THEN Whole(bak.rows) ELSE Broken]
  /\ bak' = [bak EXCEPT !.at = "register"]
  /\ UNCHANGED <<config, template, table, db, ever, avail, res, restores, removals, met>>

\* SaveFile fails halfway, and the worker returns.
StoreFails ==
  /\ bak.at = "store"
  /\ file' = [file EXCEPT ![bak.day] = Broken]
  /\ bak' = BackupIdle
  /\ UNCHANGED <<config, template, table, db, ever, avail, res, restores, removals, met>>

\* Mutant: content_rows of a line that is there keeps its old value.
RegisterBroken ==
  /\ bak.at = "register"
  /\ avail' = [avail EXCEPT ![bak.day] =
                 [@ EXCEPT !.known = TRUE, !.template = bak.template,
                           !.rows = IF avail[bak.day].known THEN @ ELSE Cardinality(bak.rows)]]
  /\ bak' = [bak EXCEPT !.at = "delete"]
  /\ UNCHANGED <<config, template, table, db, ever, file, res, restores, removals, met>>

\* AddArchAvailableData: a new line, or content_rows and restore_template of the
\* one that is there.
Register ==
  /\ bak.at = "register"
  /\ avail' = [avail EXCEPT ![bak.day] =
                 [@ EXCEPT !.known = TRUE, !.rows = Cardinality(bak.rows),
                           !.template = bak.template]]
  /\ bak' = [bak EXCEPT !.at = "delete"]
  /\ UNCHANGED <<config, template, table, db, ever, file, res, restores, removals, met>>

\* Mutant: the transaction is committed whatever it has deleted.
DeleteDayBroken ==
  /\ bak.at = "delete"
  /\ db' = [db EXCEPT ![bak.day] = {}]
  /\ bak' = [bak EXCEPT !.at = "days", !.day = NoDay, !.rows = {}]
  /\ UNCHANGED <<config, template, table, ever, archive, res, restores, removals, met>>

\* DeleteDataForDay: the transaction is committed only when it has deleted as
\* many rows as were saved; otherwise the worker returns (AbortBackup).
DeleteDay ==
  /\ bak.at = "delete"
  /\ Cardinality(db[bak.day]) = Cardinality(bak.rows)
  /\ db' = [db EXCEPT ![bak.day] = {}]
  /\ bak' = [bak EXCEPT !.at = "days", !.day = NoDay, !.rows = {}]
  /\ UNCHANGED <<config, template, table, ever, archive, res, restores, removals, met>>

EndOfDays ==
  /\ bak.at = "days" /\ bak.todo = {}
  /\ bak' = IF entity = "table" THEN [bak EXCEPT !.at = "drop"] ELSE BackupIdle
  /\ UNCHANGED <<config, template, table, db, ever, archive, res, restores, removals, met>>

\* DeleteTable: DROP TABLE IF EXISTS
DropTable ==
  /\ bak.at = "drop"
  /\ table' = FALSE
  /\ db' = [d \in Days |-> {}]
  /\ bak' = BackupIdle
  /\ UNCHANGED <<config, template, ever, archive, res, restores, removals, met>>

\* An error return, a cancelled context or a crash; transactions roll back.
AbortBackup ==
  /\ bak.at # "idle"
  /\ bak' = BackupIdle
  /\ UNCHANGED <<config, template, table, db, ever, archive, res, restores, removals, met>>

Backup ==
  \/ BeginBackup \/ SaveDay \/ StoreFile \/ StoreFails \/ Register
  \/ DeleteDay \/ EndOfDays \/ DropTable \/ AbortBackup
  \/ \E d \in Days : NextDay(d)

-----------------------------------------------------------------------------
(***************************************************************************)
(* restoreWorker.                                                          *)
(***************************************************************************)
\* The file of a single table can be restored when it was registered with the
\* template that its type has now.
Fits(d) ==
  entity = "table" => avail[d].template # "none" /\ avail[d].template = template

\* One of FilesForRestore, with the count that was registered for it and both
\* templates.
BeginRestore(d) ==
  /\ res.at = "idle" /\ avail[d].known
  /\ restores < MaxRestores                      \* bound
  /\ restores' = restores + 1
  /\ res' = [RestoreIdle EXCEPT !.at = "read", !.day = d, !.count = avail[d].rows,
                               !.fits = Fits(d)]
  /\ met' = IF InBackup(d) THEN met \cup {d} ELSE met
  /\ UNCHANGED <<config, template, table, db, ever, archive, bak, removals>>

\* The file is copied to a temporary one; a broken one fails in gzip (Abort).
ReadFile ==
  /\ res.at = "read" /\ file[res.day].whole
  /\ res' = [res EXCEPT !.at = "copy", !.rows = file[res.day].rows]
  /\ UNCHANGED <<config, template, table, db, ever, archive, bak, restores, removals, met>>

\* Mutant: the table that was dropped is not made again.
CopyRowsBroken ==
  /\ res.at = "copy" /\ res.fits
  /\ Cardinality(res.rows) = res.count
  /\ db' = [db EXCEPT ![res.day] = @ \cup Copies(res.rows, restores)]
  /\ res' = [res EXCEPT !.at = "mark"]
  /\ UNCHANGED <<config, template, table, ever, archive, bak, restores, removals, met>>

\* RestoreData: in one transaction the table is made again from its template, if
\* it is one table per archive and the templates agree, and the rows are copied
\* in, as many as were declared.
CopyRows ==
  /\ res.at = "copy" /\ res.fits
  /\ table \/ entity = "table"
  /\ Cardinality(res.rows) = res.count
  /\ table' = TRUE
  /\ db' = [db EXCEPT ![res.day] = @ \cup Copies(res.rows, restores)]
  /\ res' = [res EXCEPT !.at = "mark"]
  /\ UNCHANGED <<config, template, ever, archive, bak, restores, removals, met>>

\* UpdateAvailableDataAfterRestoreFile: restored_at = now()
MarkRestored ==
  /\ res.at = "mark"
  /\ avail' = [avail EXCEPT ![res.day].restored = "recently"]
  /\ res' = RestoreIdle
  /\ UNCHANGED <<config, template, table, db, ever, file, bak, restores, removals, met>>

AbortRestore ==
  /\ res.at # "idle"
  /\ res' = RestoreIdle
  /\ UNCHANGED <<config, template, table, db, ever, archive, bak, restores, removals, met>>

Restore ==
  \/ ReadFile \/ CopyRows \/ MarkRestored \/ AbortRestore
  \/ \E d \in Days : BeginRestore(d)

-----------------------------------------------------------------------------
Next ==
  \/ Backup \/ Restore
  \/ \E d \in Days, n \in Late : Insert(d, n)
  \/ \E d \in Days : Expire(d) \/ \E x \in db[d] : Remove(d, x)
  \/ EditTemplate

Spec == Init /\ [][Next]_vars

\* For the run about deletion without saving: backups are started again and
\* again and their steps are not held up for ever.
FairBackups ==
  /\ SF_vars(BeginBackup) /\ SF_vars(DeleteDay) /\ SF_vars(EndOfDays) /\ SF_vars(DropTable)
  /\ \A d \in Days : SF_vars(NextDay(d))

FairSpec == Spec /\ FairBackups

\* For the run about dropped tables: a backup and a restore of the table are never
\* under way at the same time.
TurnsSpec == Init /\ [][Next /\ (bak'.at = "idle" \/ res'.at = "idle")]_vars

-----------------------------------------------------------------------------
(***************************************************************************)
(* Properties.                                                             *)
(***************************************************************************)

\* The archive of day d holds row n: the file is whole, holds n, and its line
\* declares as many rows as the file has.
Saved(d, n) ==
  /\ file[d].whole /\ n \in Names(file[d].rows)
  /\ avail[d].known /\ avail[d].rows = Cardinality(file[d].rows)

\* A restore of day d that is let through would bring row n back.
CanRestore(d, n) == Saved(d, n) /\ Fits(d)

\* Whatever errors, crashes and restores have come between, a row that the
\* application has not taken away is in the table or saved; and while the type has
\* the template it was given at first, a restore of what is saved is let through
\* (postgres.go:388 refuses a table saved before its template was edited, or saved
\* without one).  This is said of an orderly application and of days that a backup
\* and a restore have not had in hand at the same time, which nothing prevents
\* (NoBackupOfSameData of module Processes).
Recoverable ==
  doBackup /\ app = "orderly" =>
    \A d \in Days \ met : \A n \in ever[d] :
      n \in Names(db[d]) \/ (Saved(d, n) /\ (template = "old" => Fits(d)))

\* keep_arch_days, sql/tables.sql: "before deleting the data from the database,
\* they are saved ... If 0, then store forever", with no condition on the rows.
AlwaysRecoverable ==
  doBackup => \A d \in Days : \A n \in ever[d] : n \in Names(db[d]) \/ CanRestore(d, n)

\* Whatever the application and a restore of the same day do meanwhile: rows that
\* DeleteDataForDay deletes for good are all in a file that is whole and
\* registered with its number of rows, unless a row that was saved has gone from
\* the table in between.  Then the numbers may agree by chance, which the
\* comparison of postgres.go:224 cannot tell.
SavedBeforeDeleted ==
  [][doBackup /\ bak.at = "delete" /\ bak'.at = "days" =>
       \/ \A n \in Names(db[bak.day]) : Saved(bak.day, n)
       \/ \E x \in bak.rows : x \notin db[bak.day]]_vars

\* backuper.go: "the backup has been cancelled, the data has been restored and
\* the retention period has not expired yet".  Restored rows stay in the table
\* until that period is over, if the application leaves them there.
RestoredKept ==
  \A d \in Days \ met :
    avail[d].restored = "recently" => Names(file[d].rows) \cap ever[d] \subseteq Names(db[d])

\* The same for tables that are archived row by row.
RestoredRecordsKept == entity = "record" => RestoredKept

\* keep_arch_days, sql/tables.sql: "If the value is <0, then the data is simply
\* deleted from the database without being saved."
DeletedWithoutSaving == ~doBackup ~> \A d \in Days : db[d] = {}
=============================================================================
