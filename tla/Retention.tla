------------------------------ MODULE Retention ------------------------------
(***************************************************************************)
(* Which rows go when.  The tables of a data type are selected by the date *)
(* in their names (sql/functions.sql), the rows in them by the date        *)
(* column (internal/store/postgres/postgres.go, DatesToBackup); a backup   *)
(* archives the days it has found and drops the table                      *)
(* (internal/service/backuper.go); a restore brings a day back             *)
(* (restorer.go); the storage cleaner (cleaner.go) removes files that are  *)
(* past their term.  All of them look at the calendar, which moves on      *)
(* between their steps.                                                    *)
(*                                                                         *)
(* How the rows of one day are saved, stored, registered and deleted, or   *)
(* copied back, is module Archive: here it is one step.  One backup is     *)
(* taken at a time; restores, also of the days it has in hand, midnights   *)
(* and the cleaner come between any two of its steps.  Types with          *)
(* keep_arch_days < 0, whose rows are to be deleted unsaved, are left to   *)
(* Archive.                                                                *)
(***************************************************************************)
EXTENDS Calendar

CONSTANTS
  Types,        \* data types, the keys of config_table_list
  Configs,      \* what that table may contain: a row for each type
  RowDays,      \* days on which the application writes rows
  StartDay,     \* bounds: the days between which the clock runs
  LastDay,
  MaxRestores   \* bound: restores in a behaviour

Days   == 0..LastDay
NoType == "no type"

\* entity and format: is the date in the name of the table, and does its format
\* have a day?  after and unit: arch_data_after and arch_interval_name, a year
\* being twelve months.  keep and keepRestore: keep_arch_days and
\* keep_restore_days.  quoted: does the name need quotes in SQL, as
\* "RouteVKN10" does?
ConfigType ==
  [entity : {"record", "table"}, format : {"day", "month"}, unit : {"DAY", "MONTH"},
   after : Nat, keep : Nat, keepRestore : Nat, schema : {"s1", "s2"}, quoted : BOOLEAN]

ASSUME BoundsAssumption   == LastDay \in CalendarDays /\ StartDay \in Days
ASSUME TypesAssumption    == NoType \notin Types
ASSUME ConfigAssumption   == Configs \subseteq [Types -> ConfigType]
ASSUME RowsAssumption     == RowDays \subseteq Days
ASSUME RestoresAssumption == MaxRestores \in Nat

VARIABLES
  config,    \* the row of each data type
  today,     \* current_date
  rows,      \* the days whose rows are in the tables of each type
  file,      \* the days that have an archive file in the storage
  known,     \* arch_available_data: the days that have a line,
  marked,    \* those whose line has deleted_at,
  restored,  \* and the date of restored_at
  bak,       \* the backup: its step, type, tables to come, table and dates in hand
  cln,       \* the cleaner: its step, the folder it clears, the files it has listed
  restores   \* restores so far

register == <<known, marked, restored>>
vars     == <<config, today, rows, file, register, bak, cln, restores>>

Never   == -1
NoTable == -1

BackupIdle  == [at |-> "idle", type |-> NoType, since |-> 0, todo |-> {},
                table |-> NoTable, dates |-> {}, failed |-> FALSE]
CleanerIdle == [at |-> "idle", schema |-> "none", day |-> 0, files |-> {}, file |-> NoType]

TypeOK ==
  /\ config \in Configs
  /\ today \in Days
  /\ rows \in [Types -> SUBSET Days]
  /\ file \in [Types -> SUBSET Days]
  /\ known \in [Types -> SUBSET Days]
  /\ marked \in [Types -> SUBSET Days]
  /\ restored \in [Types \X Days -> Days \cup {Never}]
  /\ bak \in [at : {"idle", "tables", "days"}, type : Types \cup {NoType}, since : Days,
              todo : SUBSET Days, table : Days \cup {NoTable}, dates : SUBSET Days, failed : BOOLEAN]
  /\ bak.at # "idle" => bak.type \in Types
  /\ bak.at = "days" <=> bak.table # NoTable
  /\ cln \in [at : {"idle", "remove", "mark"}, schema : {"s1", "s2", "none"}, day : Days,
              files : SUBSET Types, file : Types \cup {NoType}]
  /\ cln.at = "mark" <=> cln.file # NoType
  /\ restores \in 0..MaxRestores

Init ==
  /\ config \in Configs
  /\ today = StartDay
  /\ rows = [t \in Types |-> {d \in RowDays : d <= StartDay}]
  /\ file = [t \in Types |-> {}]
  /\ known = [t \in Types |-> {}] /\ marked = [t \in Types |-> {}]
  /\ restored = [x \in Types \X Days |-> Never]
  /\ bak = BackupIdle /\ cln = CleanerIdle
  /\ restores = 0

-----------------------------------------------------------------------------
(***************************************************************************)
(* Dates.                                                                  *)
(***************************************************************************)
\* d - INTERVAL 'k MONTH' is the same day k months earlier, or the last of that
\* month if it has no such day.  What lies before the first month is older than
\* every row.
MonthsBefore(d, k) ==
  LET m   == MonthOf(d) - k
      day == First[m] + (d - First[MonthOf(d)])
  IN  IF m \notin Months THEN -1 ELSE IF day < First[m + 1] THEN day ELSE First[m + 1] - 1

\* d - (arch_data_after || ' ' || arch_interval_name)::INTERVAL
Before(d, c) == IF c.unit = "DAY" THEN d - c.after ELSE MonthsBefore(d, c.after)

\* The table a row of day d is in, named by TO_DATE of its name: one table for
\* all rows of a "record" type, one for each month or day of a "table" type.
TableOf(c, d) ==
  CASE c.entity = "record" -> 0
    [] c.entity = "table" /\ c.format = "month" -> First[MonthOf(d)]
    [] c.entity = "table" /\ c.format = "day" -> d

\* Mutant: the reference date of monthly tables is not taken back to the first
\* of the month.
RefDateBroken(c, day) == Before(day, c)

\* ref_date of f_check_tbls_to_archive: "this is to remove whole month data"
RefDate(c, day) == Before(IF c.format = "month" THEN First[MonthOf(day)] ELSE day, c)

\* A record table is always taken; a dated one if its date is before ref_date.
Selected(c, b, day) == c.entity = "record" \/ b < RefDate(c, day)

CutOff(c) == Before(today, c)

\* Mutant: the rows of the day before the cut-off are left out.
DatesToBackupBroken(t, b) ==
  {d \in rows[t] : TableOf(config[t], d) = b /\ d + 1 < CutOff(config[t])}

\* The days of table b, of type t, whose rows are before the cut-off.
DatesToBackup(t, b) ==
  {d \in rows[t] : TableOf(config[t], d) = b /\ d < CutOff(config[t])}

-----------------------------------------------------------------------------
(***************************************************************************)
(* The clock, and the application that writes rows of the day.             *)
(***************************************************************************)
NewDay ==
  /\ today < LastDay                               \* bound
  /\ today' = today + 1
  /\ rows' = [t \in Types |-> rows[t] \cup ({today + 1} \cap RowDays)]
  /\ UNCHANGED <<config, file, register, bak, cln, restores>>

-----------------------------------------------------------------------------
(***************************************************************************)
(* backupProcess and the work of its backupWorkers, one after the other.   *)
(***************************************************************************)
\* f_datas_to_archive: the tables of type t, collected anew.  Tables without
\* rows would give no dates and are left out.
Select(t) ==
  /\ bak.at = "idle"
  /\ bak' = [BackupIdle EXCEPT !.at = "tables", !.type = t, !.since = today,
               !.todo = {b \in {TableOf(config[t], d) : d \in rows[t]} :
                           Selected(config[t], b, today)}]
  /\ UNCHANGED <<config, today, rows, file, register, cln, restores>>

\* The worker of table b reads the dates; when there are none it returns, and
\* the table is not dropped.
BeginTable(b) ==
  /\ bak.at = "tables" /\ b \in bak.todo
  /\ LET dates == DatesToBackup(bak.type, b)
     IN  bak' = IF dates = {}
                THEN [bak EXCEPT !.todo = @ \ {b}]
                ELSE [bak EXCEPT !.todo = @ \ {b}, !.at = "days", !.table = b, !.dates = dates]
  /\ UNCHANGED <<config, today, rows, file, register, cln, restores>>

\* not WasRestoredAndExpired: restored_at + keep_restore_days is not before today.
KeptRestored(t, d) ==
  d \in known[t] /\ restored[<<t, d>>] # Never /\ restored[<<t, d>>] + config[t].keepRestore >= today

\* Mutant: the rows are deleted and the line of the register is forgotten.
ArchiveDayBroken(d) ==
  /\ bak.at = "days" /\ d \in bak.dates
  /\ ~KeptRestored(bak.type, d)
  /\ file' = [file EXCEPT ![bak.type] = @ \cup {d}]
  /\ rows' = [rows EXCEPT ![bak.type] = @ \ {d}]
  /\ bak' = [bak EXCEPT !.dates = @ \ {d}]
  /\ UNCHANGED <<config, today, register, cln, restores>>

\* The rows of a day go into a file, its line is written and the rows are
\* deleted.  A line that is there keeps its deleted_at and restored_at.
ArchiveDay(d) ==
  /\ bak.at = "days" /\ d \in bak.dates
  /\ ~KeptRestored(bak.type, d)
  /\ file' = [file EXCEPT ![bak.type] = @ \cup {d}]
  /\ known' = [known EXCEPT ![bak.type] = @ \cup {d}]
  /\ rows' = [rows EXCEPT ![bak.type] = @ \ {d}]
  /\ bak' = [bak EXCEPT !.dates = @ \ {d}]
  /\ UNCHANGED <<config, today, marked, restored, cln, restores>>

SkipDay(d) ==
  /\ bak.at = "days" /\ d \in bak.dates
  /\ KeptRestored(bak.type, d)
  /\ bak' = [bak EXCEPT !.dates = @ \ {d}]
  /\ UNCHANGED <<config, today, rows, file, register, cln, restores>>

\* Mutant: the worker's table is not put away.
LeaveTableBroken ==
  /\ bak.at = "days" /\ bak.dates = {}
  /\ bak' = [bak EXCEPT !.at = "tables"]
  /\ rows' = IF config[bak.type].entity = "record" THEN rows
             ELSE [rows EXCEPT ![bak.type] = {d \in @ : TableOf(config[bak.type], d) # bak.table}]
  /\ UNCHANGED <<config, today, file, register, cln, restores>>

\* The days are done: DROP TABLE, with whatever rows are in it, unless it is a
\* table of records.
LeaveTable ==
  /\ bak.at = "days" /\ bak.dates = {}
  /\ bak' = [bak EXCEPT !.at = "tables", !.table = NoTable]
  /\ rows' = IF config[bak.type].entity = "record" THEN rows
             ELSE [rows EXCEPT ![bak.type] = {d \in @ : TableOf(config[bak.type], d) # bak.table}]
  /\ UNCHANGED <<config, today, file, register, cln, restores>>

\* A worker ends with an error; the others go on.  It has not stored the day it
\* was at,
FailTable ==
  /\ bak.at = "days"
  /\ bak' = [bak EXCEPT !.at = "tables", !.table = NoTable, !.dates = {}, !.failed = TRUE]
  /\ UNCHANGED <<config, today, rows, file, register, cln, restores>>

\* or it has, with or without its line, and the rows are still in the table.
FailDay(d) ==
  /\ bak.at = "days" /\ d \in bak.dates
  /\ ~KeptRestored(bak.type, d)
  /\ file' = [file EXCEPT ![bak.type] = @ \cup {d}]
  /\ \/ known' = [known EXCEPT ![bak.type] = @ \cup {d}]
     \/ known' = known
  /\ bak' = [bak EXCEPT !.at = "tables", !.table = NoTable, !.dates = {}, !.failed = TRUE]
  /\ UNCHANGED <<config, today, rows, marked, restored, cln, restores>>

\* The process is done, or is cut off before its remaining tables.
EndBackup ==
  /\ bak.at = "tables"
  /\ bak' = BackupIdle
  /\ UNCHANGED <<config, today, rows, file, register, cln, restores>>

Backup ==
  \/ \E t \in Types : Select(t)
  \/ \E b \in Days : BeginTable(b)
  \/ \E d \in Days : ArchiveDay(d) \/ SkipDay(d) \/ FailDay(d)
  \/ LeaveTable \/ FailTable \/ EndBackup

-----------------------------------------------------------------------------
(***************************************************************************)
(* A restore of one line that f_files_for_restore returns.  It ends with   *)
(* an error, and no change, when the file is not there.                    *)
(***************************************************************************)
Offered(t, d) == d \in known[t] \ marked[t]

\* Mutant: a file that is not there restores something.
RestoreBroken(t, d) ==
  /\ Offered(t, d)
  /\ restores < MaxRestores                        \* bound
  /\ rows' = [rows EXCEPT ![t] = @ \cup {d}]
  /\ restored' = [restored EXCEPT ![<<t, d>>] = today]
  /\ restores' = restores + 1
  /\ UNCHANGED <<config, today, file, known, marked, bak, cln>>

Restore(t, d) ==
  /\ Offered(t, d) /\ d \in file[t]
  /\ restores < MaxRestores                        \* bound
  /\ rows' = [rows EXCEPT ![t] = @ \cup {d}]
  /\ restored' = [restored EXCEPT ![<<t, d>>] = today]
  /\ restores' = restores + 1
  /\ UNCHANGED <<config, today, file, known, marked, bak, cln>>

-----------------------------------------------------------------------------
(***************************************************************************)
(* cleaningStorageProcess.  Its two loops, over the data types with        *)
(* keep_arch_days > 0 and over the day folders of their schemas, are taken *)
(* in any order; an error of one folder goes on with the next.             *)
(***************************************************************************)
\* Mutant: a folder is expired a day before its term.
FolderExpiredBroken(c, d) == c.keep > 0 /\ today + 1 >= d + c.keep

\* time.Now().After(day.Add(keepDuration)): the clock is past midnight, of UTC
\* here, where time.Parse makes day, and of the session's zone in the database,
\* where current_date is taken; one calendar stands for both.
FolderExpired(c, d) == c.keep > 0 /\ today >= d + c.keep

\* removeExpiredArchives lists the folder of a schema and day, which holds the
\* files of all types of that schema.
ListFolder(t, d) ==
  /\ cln.at = "idle"
  /\ FolderExpired(config[t], d)
  /\ LET files == {u \in Types : config[u].schema = config[t].schema /\ d \in file[u]}
     IN  /\ files # {}
         /\ cln' = [at |-> "remove", schema |-> config[t].schema, day |-> d, files |-> files,
                    file |-> NoType]
  /\ UNCHANGED <<config, today, rows, file, register, bak, restores>>

\* producer.Remove
RemoveFile(u) ==
  /\ cln.at = "remove" /\ u \in cln.files /\ cln.day \in file[u]
  /\ file' = [file EXCEPT ![u] = @ \ {cln.day}]
  /\ cln' = [cln EXCEPT !.at = "mark", !.files = @ \ {u}, !.file = u]
  /\ UNCHANGED <<config, today, rows, register, bak, restores>>

\* UpdateAvailableDataAfterRemoveFile looks for the name of the file without
\* its extensions.  The register has the name as format('%I') gave it, with its
\* quotes if it needs them, and then no line is found.
MarkDeleted ==
  /\ cln.at = "mark"
  /\ marked' = IF config[cln.file].quoted THEN marked
               ELSE [marked EXCEPT ![cln.file] = @ \cup ({cln.day} \cap known[cln.file])]
  /\ cln' = [cln EXCEPT !.at = "remove", !.file = NoType]
  /\ UNCHANGED <<config, today, rows, file, known, restored, bak, restores>>

\* The folder is done, or an error or a crash has cut the cleaner off.
EndFolder ==
  /\ cln.at # "idle"
  /\ cln' = CleanerIdle
  /\ UNCHANGED <<config, today, rows, file, register, bak, restores>>

Clean ==
  \/ \E t \in Types, d \in Days : ListFolder(t, d)
  \/ \E u \in Types : RemoveFile(u)
  \/ MarkDeleted \/ EndFolder

-----------------------------------------------------------------------------
Next ==
  \/ NewDay
  \/ Backup
  \/ \E t \in Types, d \in Days : Restore(t, d)
  \/ Clean

Spec == Init /\ [][Next]_vars
-----------------------------------------------------------------------------
(***************************************************************************)
(* Properties.                                                             *)
(***************************************************************************)

\* The interval of a table per month must be one of whole months: with days the
\* first of the month less the interval lies within a month, and the table of
\* that month is selected, and dropped, before its last rows are past theirs.
WholeTables(c) == c.entity = "table" /\ c.format = "month" => c.unit = "MONTH" \/ c.after = 0

\* Rows leave the tables only when arch_data_after has passed since their date,
\* whether they are deleted day by day or dropped with their table, and however
\* the calendar moves on between the selection, the dates and the drop.
NothingTooYoung ==
  [][\A t \in Types : WholeTables(config[t]) =>
       \A d \in rows[t] \ rows'[t] : d < CutOff(config[t])]_vars

\* The folder of a schema and day holds the files of all types of the schema, and
\* goes when the shortest of their terms is over.  Type t keeps its own term if no
\* other type of its schema has a shorter one; keep_arch_days = 0 is no term at
\* all.  The delivered list (sql/tables.sql) has one type in each schema.
KeepsItsTerm(t) ==
  \A u \in Types :
    config[u].schema = config[t].schema /\ config[u].keep > 0
    => config[t].keep > 0 /\ config[t].keep <= config[u].keep

\* The types about which something is said of every row.
Sound(t) == WholeTables(config[t]) /\ KeepsItsTerm(t)

\* keep_arch_days of type t itself have passed since day d.
Expired(t, d) == config[t].keep > 0 /\ d + config[t].keep <= today

\* keep_arch_days, sql/tables.sql: the rows of a day are in their table, or in a
\* file that a restore is offered, until the term of their own type is over, and
\* for ever if it has none; whatever the cleaner, restores and backups cut off do
\* in between.
RecoverableUntilExpired ==
  \A t \in Types : Sound(t) =>
    \A d \in RowDays : d <= today =>
      d \in rows[t] \/ (d \in file[t] /\ Offered(t, d)) \/ Expired(t, d)

\* The lines a user is offered for restoring have their file, unless the term of
\* their type is over: the cleaner removes no other, and it is on the way to say
\* so.
OfferedHaveFile ==
  \A t \in Types : KeepsItsTerm(t) =>
    \A d \in Days : Offered(t, d) => d \in file[t] \/ Expired(t, d)

\* keep_arch_days, sql/tables.sql: "If 0, then store forever", whatever other
\* types the schema has.
KeptForever ==
  \A t \in Types : config[t].keep = 0 =>
    \A d \in RowDays : d <= today => d \in rows[t] \/ (d \in file[t] /\ Offered(t, d))

\* A backup that ends without a failed worker has left no row behind that was
\* due when its tables were selected, except days kept after a restore.
NothingOverdue ==
  bak.at = "tables" /\ bak.todo = {} /\ ~bak.failed =>
    \A d \in rows[bak.type] :
      d < RefDate(config[bak.type], bak.since) => restored[<<bak.type, d>>] # Never

\* The rows of a day live as module RowLife describes it: they are written once,
\* are in their table until they are due and then in the table or in a file on
\* offer, going back and forth with restores, and are given up only when the
\* term of their own type is over, and then for good.  Followed are the rows of
\* the types that Sound names.
Place(t, d) ==
  CASE d > today -> "unwritten"
    [] d <= today /\ d \in rows[t] -> "table"
    [] d <= today /\ d \notin rows[t] /\ d \in file[t] /\ Offered(t, d) -> "archive"
    [] OTHER -> "gone"

Followed == {x \in Types \X RowDays : Sound(x[1])}

Life == INSTANCE RowLife
          WITH rows  <- Followed,
               place <- [x \in Followed |-> Place(x[1], x[2])],
               due   <- {x \in Followed : x[2] < CutOff(config[x[1]])},
               over  <- {x \in Followed : Expired(x[1], x[2])}

RowsLive == Life!Spec
=============================================================================
