---------------------------- MODULE ArchiveProofs ----------------------------
(***************************************************************************)
(* Theorems about Archive, for any days, rows and numbers of restores and  *)
(* removals: its types, that rows are saved before they are deleted, that  *)
(* an orderly application's rows can be recovered on days that a backup    *)
(* and a restore have not had in hand together, and that restored records  *)
(* of such days are kept.                                                  *)
(***************************************************************************)
EXTENDS Archive, FiniteSetTheorems, TLAPS

-----------------------------------------------------------------------------
(***************************************************************************)
(* Type correctness.                                                       *)
(***************************************************************************)
\* What a restore brings back are rows again, with the names they had.
LEMMA CopiesAreRows ==
  ASSUME NEW R \in SUBSET AllRows, NEW i \in Nat
  PROVE  Copies(R, i) \in SUBSET AllRows /\ Names(Copies(R, i)) = Names(R)
<1>1. ASSUME NEW x \in R
      PROVE  Copy(x, i) \in AllRows /\ Copy(x, i)[1] = x[1]
  <2>1. x[1] \in Old \cup Late /\ x[2] \in Seq(Nat) BY DEF AllRows
  <2>2. Append(x[2], i) \in Seq(Nat) BY <2>1
  <2> QED BY <2>1, <2>2 DEF Copy, AllRows
<1> QED BY <1>1 DEF Copies, Names

LEMMA NewRowsAreRows == \A n \in Old \cup Late : NewRow(n) \in AllRows /\ NewRow(n)[1] = n
<1> <<>> \in Seq(Nat) OBVIOUS
<1> QED BY DEF NewRow, AllRows

LEMMA CopiesFinite ==
  ASSUME NEW R, IsFiniteSet(R), NEW i
  PROVE  IsFiniteSet(Copies(R, i))
<1> DEFINE f == [x \in R |-> Copy(x, i)]
<1>1. f \in Surjection(R, Copies(R, i)) BY DEF Surjection, Copies
<1> QED BY <1>1, FS_Surjection

\* Counting rows, in Register and in CopyRows, is counting a finite set.
FiniteRows ==
  /\ \A d \in Days : IsFiniteSet(db[d]) /\ IsFiniteSet(file[d].rows)
  /\ IsFiniteSet(bak.rows) /\ IsFiniteSet(res.rows)

TypeInv == TypeOK /\ FiniteRows

LEMMA TypeInit == Init => TypeInv
<1> SUFFICES ASSUME Init PROVE TypeInv OBVIOUS
<1>1. db \in [Days -> SUBSET AllRows] BY NewRowsAreRows DEF Init
<1>2. TypeOK
  BY <1>1, EntityAssumption, RestoresAssumption, TemplateAssumption
     DEF Init, TypeOK, AllTemplates, NoFile, Unknown, BackupIdle, RestoreIdle, BackupSteps, RestoreSteps, Handling
<1>3. IsFiniteSet({NewRow(n) : n \in Old})
  <2> DEFINE R == {NewRow(n) : n \in Old}
             f == [n \in Old |-> NewRow(n)]
  <2>1. f \in Surjection(Old, R) BY DEF Surjection
  <2> QED BY <2>1, RowsAssumption, FS_Surjection
<1>4. FiniteRows
  BY <1>3, FS_EmptySet DEF Init, FiniteRows, NoFile, BackupIdle, RestoreIdle
<1> QED BY <1>2, <1>4 DEF TypeInv

\* AddArchAvailableData leaves a line of the register.
Lines == [known : BOOLEAN, rows : Nat, restored : {"never", "recently", "expired"},
          template : AllTemplates]

\* The line l after n rows have been registered with template t.
Line(l, n, t) == [l EXCEPT !.known = TRUE, !.rows = n, !.template = t]

LEMMA NewLine ==
  ASSUME NEW l \in Lines, NEW n \in Nat, NEW t \in AllTemplates
  PROVE  Line(l, n, t) \in Lines
<1> QED BY DEF Lines, Line

LEMMA NewLineIs ==
  ASSUME NEW l \in Lines, NEW n, NEW t
  PROVE  /\ Line(l, n, t).known /\ Line(l, n, t).rows = n /\ Line(l, n, t).template = t
         /\ Line(l, n, t).restored = l.restored
<1> QED BY DEF Lines, Line

\* What AddArchAvailableData changes.
LEMMA RegisterIs ==
  ASSUME TypeOK, Register
  PROVE  /\ avail'[bak.day].known /\ avail'[bak.day].rows = Cardinality(bak.rows)
         /\ avail'[bak.day].template = bak.template
         /\ avail'[bak.day].restored = avail[bak.day].restored
         /\ \A d \in Days : d # bak.day => avail'[d] = avail[d]
<1> DEFINE line == Line(avail[bak.day], Cardinality(bak.rows), bak.template)
<1>1. bak.day \in Days BY DEF Register, TypeOK, Handling
<1>2. avail' = [avail EXCEPT ![bak.day] = line] BY <1>1 DEF Register, Line
<1>3. avail[bak.day] \in Lines BY <1>1 DEF TypeOK, Lines
<1>4. /\ line.known /\ line.rows = Cardinality(bak.rows) /\ line.template = bak.template
      /\ line.restored = avail[bak.day].restored
  BY <1>3, NewLineIs
<1> HIDE DEF line
<1> QED BY <1>1, <1>2, <1>4 DEF TypeOK

LEMMA BackupTypes ==
  ASSUME TypeInv, Backup
  PROVE  TypeInv'
<1> USE FS_EmptySet DEF TypeInv, TypeOK, FiniteRows, config, archive, BackupSteps, Handling
<1>1. CASE BeginBackup BY <1>1 DEF BeginBackup, BackupIdle, AllTemplates
<1>2. CASE SaveDay
  <2>1. PICK w \in BOOLEAN :
          bak' = [bak EXCEPT !.at = "store", !.rows = db[bak.day], !.whole = w]
    BY <1>2 DEF SaveDay
  <2>2. bak.day \in Days /\ UNCHANGED <<config, template, table, db, ever, archive, res, restores, removals, met>>
    BY <1>2 DEF SaveDay
  <2>3. TypeOK' BY <2>1, <2>2
  <2>4. FiniteRows' BY <2>1, <2>2
  <2> QED BY <2>3, <2>4
<1>3. CASE StoreFile   BY <1>3 DEF StoreFile, Whole, Broken
<1>4. CASE StoreFails  BY <1>4 DEF StoreFails, Broken, BackupIdle, AllTemplates
<1>5. CASE Register
  <2>1. Cardinality(bak.rows) \in Nat BY FS_CardinalityType
  <2> DEFINE line == Line(avail[bak.day], Cardinality(bak.rows), bak.template)
  <2>2. bak.day \in Days BY <1>5 DEF Register
  <2>3. avail' = [avail EXCEPT ![bak.day] = line] BY <1>5, <2>2 DEF Register, Line
  <2>4. line \in Lines
    <3>1. bak.template \in AllTemplates /\ avail[bak.day] \in Lines BY <2>2 DEF Lines
    <3> QED BY <2>1, <3>1, NewLine
  <2>5. bak' = [bak EXCEPT !.at = "delete"] BY <1>5 DEF Register
  <2>6. UNCHANGED <<entity, doBackup, app, template, table, db, ever, file, res, restores, removals, met>>
    BY <1>5 DEF Register
  <2> HIDE DEF line
  <2>7. avail' \in [Days -> Lines] BY <2>2, <2>3, <2>4 DEF Lines
  <2>8. TypeOK' BY <2>2, <2>5, <2>6, <2>7 DEF Lines
  <2>9. FiniteRows' BY <2>5, <2>6
  <2> QED BY <2>8, <2>9
<1>6. CASE DeleteDay   BY <1>6 DEF DeleteDay
<1>7. CASE EndOfDays   BY <1>7 DEF EndOfDays, BackupIdle, AllTemplates
<1>8. CASE DropTable   BY <1>8 DEF DropTable, BackupIdle, AllTemplates
<1>9. CASE AbortBackup BY <1>9 DEF AbortBackup, BackupIdle, AllTemplates
<1>10. ASSUME NEW d \in Days, NextDay(d) PROVE TypeInv'
  BY <1>10 DEF NextDay, TakeDay
<1> QED BY <1>1, <1>2, <1>3, <1>4, <1>5, <1>6, <1>7, <1>8, <1>9, <1>10 DEF Backup

LEMMA RestoreTypes ==
  ASSUME TypeInv, Restore
  PROVE  TypeInv'
<1> USE DEF TypeInv, config, archive, RestoreSteps
<1>1. CASE ReadFile
  <2>1. /\ res.day \in Days
        /\ file[res.day].rows \in SUBSET AllRows /\ IsFiniteSet(file[res.day].rows)
    BY <1>1 DEF ReadFile, TypeOK, FiniteRows
  <2>2. TypeOK' BY <1>1, <2>1 DEF ReadFile, TypeOK
  <2>3. FiniteRows' BY <1>1, <2>1 DEF ReadFile, TypeOK, FiniteRows
  <2> QED BY <2>2, <2>3
<1>2. CASE CopyRows
  <2> DEFINE C == Copies(res.rows, restores)
  <2>1. res.rows \in SUBSET AllRows /\ restores \in Nat
    BY RestoresAssumption DEF TypeOK
  <2>2. C \in SUBSET AllRows BY <2>1, CopiesAreRows
  <2>3. IsFiniteSet(C) BY CopiesFinite DEF FiniteRows
  <2>4. res.day \in Days BY <1>2 DEF CopyRows, TypeOK
  <2>5. IsFiniteSet(db[res.day] \cup C) BY <2>3, <2>4, FS_Union DEF FiniteRows
  <2> HIDE DEF C
  <2>6. db' = [db EXCEPT ![res.day] = @ \cup C] BY <1>2 DEF CopyRows, C
  <2>7. TypeOK' BY <1>2, <2>2, <2>4, <2>6 DEF CopyRows, TypeOK
  <2>8. FiniteRows' BY <1>2, <2>4, <2>5, <2>6 DEF CopyRows, TypeOK, FiniteRows
  <2> QED BY <2>7, <2>8
<1>3. CASE MarkRestored
  BY <1>3, FS_EmptySet DEF MarkRestored, RestoreIdle, TypeOK, FiniteRows
<1>4. CASE AbortRestore
  BY <1>4, FS_EmptySet DEF AbortRestore, RestoreIdle, TypeOK, FiniteRows
<1>5. ASSUME NEW d \in Days, BeginRestore(d) PROVE TypeInv'
  <2>1. restores' \in 0..MaxRestores
    BY <1>5, RestoresAssumption DEF BeginRestore, TypeOK
  <2>2. /\ res' = [at |-> "read", day |-> d, count |-> avail[d].rows, rows |-> {}, fits |-> Fits(d)]
        /\ met' \subseteq Days
    BY <1>5 DEF BeginRestore, RestoreIdle, TypeOK
  <2>5. avail[d].rows \in Nat /\ Fits(d) \in BOOLEAN BY DEF TypeOK, Fits
  <2>6. /\ res' \in [at : RestoreSteps, day : Days \cup {NoDay}, count : Nat, rows : SUBSET AllRows,
                     fits : BOOLEAN]
        /\ res'.day \in Days /\ res'.rows = {}
    BY <2>2, <2>5
  <2>7. UNCHANGED <<entity, doBackup, app, template, table, db, ever, file, avail, bak, removals>>
    BY <1>5 DEF BeginRestore
  <2>3. TypeOK' BY <2>1, <2>2, <2>6, <2>7 DEF TypeOK
  <2>4. FiniteRows' BY <2>6, <2>7, FS_EmptySet DEF FiniteRows
  <2> QED BY <2>3, <2>4
<1> QED BY <1>1, <1>2, <1>3, <1>4, <1>5 DEF Restore

LEMMA TypeStep == TypeInv /\ [Next]_vars => TypeInv'
<1> SUFFICES ASSUME TypeInv, [Next]_vars PROVE TypeInv' OBVIOUS
<1>1. CASE Backup  BY <1>1, BackupTypes
<1>2. CASE Restore BY <1>2, RestoreTypes
<1>3. ASSUME NEW d \in Days, NEW n \in Late, Insert(d, n) PROVE TypeInv'
  <2>1. NewRow(n) \in AllRows BY NewRowsAreRows
  <2>2. IsFiniteSet(db[d] \cup {NewRow(n)}) BY FS_AddElement DEF TypeInv, FiniteRows
  <2> QED BY <1>3, <2>1, <2>2 DEF Insert, TypeInv, TypeOK, FiniteRows, config, archive
<1>4. ASSUME NEW d \in Days, Expire(d) PROVE TypeInv'
  BY <1>4 DEF Expire, TypeInv, TypeOK, FiniteRows, config
<1>6. ASSUME NEW d \in Days, NEW x \in db[d], Remove(d, x) PROVE TypeInv'
  <2>1. db'[d] \subseteq db[d] /\ ever'[d] \subseteq ever[d]
    BY <1>6 DEF Remove, TypeInv, TypeOK
  <2>2. IsFiniteSet(db'[d]) BY <2>1, FS_Subset DEF TypeInv, FiniteRows
  <2>3. TypeOK'
    <3>1. removals' \in 0..MaxRemovals
      BY <1>6, RestoresAssumption DEF Remove, TypeInv, TypeOK
    <3> QED BY <1>6, <2>1, <3>1 DEF Remove, TypeInv, TypeOK, config, archive
  <2>4. FiniteRows' BY <1>6, <2>2 DEF Remove, TypeInv, TypeOK, FiniteRows, archive
  <2> QED BY <2>3, <2>4 DEF TypeInv
<1>7. CASE EditTemplate
  BY <1>7 DEF EditTemplate, AllTemplates, TypeInv, TypeOK, FiniteRows, config, archive
<1>5. CASE UNCHANGED vars
  BY <1>5 DEF vars, TypeInv, TypeOK, FiniteRows, config, archive
<1> QED BY <1>1, <1>2, <1>3, <1>4, <1>5, <1>6, <1>7 DEF Next

LEMMA TypeInvariant == Spec => []TypeInv
<1> QED BY TypeInit, TypeStep, PTL DEF Spec

\* The variables keep their types: a worker that handles a day has one, and a
\* table that does not exist has no rows.
THEOREM TypeCorrect == Spec => []TypeOK
<1>1. TypeInv => TypeOK BY DEF TypeInv
<1> QED BY <1>1, TypeInvariant, PTL

LEMMA ConfigStays == [Next]_vars => UNCHANGED config
<1> QED
  BY DEF Next, vars, config, Backup, Restore, BeginBackup, SaveDay, StoreFile, StoreFails,
     Register, DeleteDay, EndOfDays, DropTable, AbortBackup, NextDay, TakeDay, ReadFile, CopyRows,
     MarkRestored, AbortRestore, BeginRestore, Insert, Remove, EditTemplate, Expire

-----------------------------------------------------------------------------
(***************************************************************************)
(* Rows are saved before they are deleted.  The file and the register      *)
(* agree with what the worker has in hand; when none of that has gone from *)
(* the table, as many rows as were saved are the rows that were saved.     *)
(***************************************************************************)
Stored ==
  /\ bak.at \in {"store", "register", "delete"} => bak.whole
  /\ bak.at \in {"register", "delete"} => file[bak.day].whole /\ file[bak.day].rows = bak.rows

Registered ==
  bak.at = "delete" =>
    avail[bak.day].known /\ avail[bak.day].rows = Cardinality(bak.rows)

SavedInv == TypeInv /\ (doBackup => Stored /\ Registered)

LEMMA SavedInit == Init => SavedInv
<1> QED BY TypeInit DEF Init, SavedInv, Stored, Registered, BackupIdle

LEMMA SavedBackup ==
  ASSUME ~TmpFails, TypeOK, doBackup, Stored, Registered, Backup
  PROVE  (Stored /\ Registered)'
<1> USE DEF Stored, Registered
<1>1. CASE BeginBackup \/ StoreFails \/ DropTable \/ AbortBackup \/ EndOfDays \/ DeleteDay
  <2>1. bak'.at \in {"idle", "days", "drop"}
    <3>1. CASE BeginBackup BY <3>1 DEF BeginBackup, BackupIdle
    <3>2. CASE StoreFails \/ DropTable \/ AbortBackup
      BY <3>2 DEF StoreFails, DropTable, AbortBackup, BackupIdle
    <3>3. CASE EndOfDays BY <3>3 DEF EndOfDays, BackupIdle, TypeOK
    <3>4. CASE DeleteDay BY <3>4 DEF DeleteDay, TypeOK
    <3> QED BY <1>1, <3>1, <3>2, <3>3, <3>4
  <2> QED BY <2>1
<1>2. CASE SaveDay BY <1>2 DEF SaveDay, TypeOK, archive
<1>3. CASE StoreFile
  <2>1. bak.at = "store" /\ bak'.at = "register" /\ bak'.day = bak.day /\ bak'.rows = bak.rows
        /\ bak'.whole = bak.whole /\ bak.day \in Days
    BY <1>3 DEF StoreFile, TypeOK, Handling
  <2> QED BY <1>3, <2>1 DEF StoreFile, Whole, TypeOK
<1>4. CASE Register
  <2>1. bak.at = "register" /\ bak'.at = "delete" /\ bak'.day = bak.day /\ bak'.rows = bak.rows
        /\ bak'.whole = bak.whole /\ UNCHANGED file
    BY <1>4 DEF Register, TypeOK
  <2> QED BY <1>4, <2>1, RegisterIs
<1>5. ASSUME NEW d \in Days, NextDay(d) PROVE (Stored /\ Registered)'
  BY <1>5 DEF NextDay, TakeDay, TypeOK
<1> QED BY <1>1, <1>2, <1>3, <1>4, <1>5 DEF Backup

LEMMA SavedStep ==
  ASSUME ~TmpFails, SavedInv, [Next]_vars
  PROVE  SavedInv'
<1>1. TypeInv' BY TypeStep DEF SavedInv
<1>2. SUFFICES ASSUME doBackup PROVE (Stored /\ Registered)'
  BY <1>1, ConfigStays DEF SavedInv, config
<1>3. TypeOK /\ Stored /\ Registered BY <1>2 DEF SavedInv, TypeInv
<1>4. CASE Backup BY <1>2, <1>3, <1>4, SavedBackup
<1>5. CASE UNCHANGED <<file, bak>> /\ \A d \in Days : avail'[d].known = avail[d].known
                                                     /\ avail'[d].rows = avail[d].rows
  BY <1>3, <1>5 DEF Stored, Registered, TypeOK, Handling
<1>6. \/ Backup \/ UNCHANGED <<file, avail, bak>> \/ MarkRestored \/ \E d \in Days : Expire(d)
  BY DEF Next, vars, archive, Restore, ReadFile, CopyRows, AbortRestore, BeginRestore, Insert,
     Remove, EditTemplate
<1>7. CASE MarkRestored
  <2>1. UNCHANGED <<file, bak>> /\ res.day \in Days BY <1>3, <1>7 DEF MarkRestored, TypeOK
  <2>2. \A d \in Days : avail'[d].known = avail[d].known /\ avail'[d].rows = avail[d].rows
    BY <1>3, <1>7, <2>1 DEF MarkRestored, TypeOK
  <2> QED BY <1>5, <2>1, <2>2
<1>8. ASSUME NEW e \in Days, Expire(e) PROVE (Stored /\ Registered)'
  <2>1. UNCHANGED <<file, bak>> BY <1>8 DEF Expire
  <2>2. \A d \in Days : avail'[d].known = avail[d].known /\ avail'[d].rows = avail[d].rows
    BY <1>3, <1>8 DEF Expire, TypeOK
  <2> QED BY <1>5, <2>1, <2>2
<1>9. CASE UNCHANGED <<file, avail, bak>> BY <1>5, <1>9
<1> QED BY <1>4, <1>6, <1>7, <1>8, <1>9

LEMMA SavedInvariant ==
  ASSUME ~TmpFails
  PROVE  Spec => []SavedInv
<1> QED BY SavedInit, SavedStep, PTL DEF Spec

\* As many rows deleted as saved, of which none has gone: the same.
LEMMA SameRows ==
  ASSUME TypeInv, DeleteDay, bak.rows \subseteq db[bak.day]
  PROVE  bak.rows = db[bak.day]
<1>1. bak.day \in Days BY DEF DeleteDay, TypeInv, TypeOK, Handling
<1>2. IsFiniteSet(db[bak.day]) BY <1>1 DEF TypeInv, FiniteRows
<1>3. Cardinality(db[bak.day]) = Cardinality(bak.rows) BY DEF DeleteDay
<1> QED BY <1>2, <1>3, FS_Subset

\* Whatever the application and restores do to the day meanwhile, rows that are
\* deleted for good are in a whole and registered file, unless one of the rows
\* saved had gone.  Only the temporary file has to keep what is written to it.
THEOREM DeletedWereSaved ==
  ASSUME ~TmpFails
  PROVE  Spec => SavedBeforeDeleted
<1>1. SavedInv /\ [Next]_vars =>
        [doBackup /\ bak.at = "delete" /\ bak'.at = "days" =>
           \/ \A n \in Names(db[bak.day]) : Saved(bak.day, n)
           \/ \E x \in bak.rows : x \notin db[bak.day]]_vars
  <2> SUFFICES ASSUME SavedInv, [Next]_vars, doBackup, bak.at = "delete", bak'.at = "days",
                      bak.rows \subseteq db[bak.day]
               PROVE  \A n \in Names(db[bak.day]) : Saved(bak.day, n)
    OBVIOUS
  <2>1. TypeInv BY DEF SavedInv
  <2>2. DeleteDay
    <3>1. ~AbortBackup BY DEF AbortBackup, BackupIdle
    <3>2. UNCHANGED bak \/ DeleteDay
      BY <3>1 DEF Next, vars, Backup, Restore, BeginBackup, SaveDay, StoreFile, StoreFails, Register,
         EndOfDays, DropTable, NextDay, TakeDay, ReadFile, CopyRows, MarkRestored, AbortRestore,
         BeginRestore, Insert, Remove, EditTemplate, Expire
    <3> QED BY <3>2
  <2>3. bak.rows = db[bak.day] BY <2>1, <2>2, SameRows
  <2> QED BY <2>3 DEF SavedInv, Stored, Registered, Saved
<1> QED BY <1>1, SavedInvariant, PTL DEF Spec, SavedBeforeDeleted

-----------------------------------------------------------------------------
(***************************************************************************)
(* What an orderly application has given and not taken away can be         *)
(* recovered.  The argument: a day is safe while the table has every row   *)
(* it should, or it is empty and its archive is good.  What the two        *)
(* workers hold in hand between their steps must agree with the table, the *)
(* file and the register, and a table to be dropped has only empty and     *)
(* archived days when the loop is over.  All of this is said of the days   *)
(* that the two workers have not had in hand together.                     *)
(***************************************************************************)
\* The archive of day d is good: it holds all rows the day should have, and the
\* register declares as many rows as it holds.
Archived(d) ==
  /\ file[d].whole /\ ever[d] \subseteq Names(file[d].rows)
  /\ avail[d].known /\ avail[d].rows = Cardinality(file[d].rows)

Intact(d) == ever[d] \subseteq Names(db[d])

SafeDays == \A d \in Days \ met : Intact(d) \/ (db[d] = {} /\ Archived(d))

\* The day in hand is not to be done again, and none is when the table goes.
LoopInv ==
  /\ bak.at \in Handling => bak.day \notin bak.todo
  /\ bak.at = "drop" => bak.todo = {} /\ entity = "table"

\* The days still to do are in the table.
TodoDays == bak.at # "idle" => \A d \in bak.todo \ met : Intact(d)

\* So is the day in hand.  What has been read of it is still there; for a table
\* archived as a whole, which gets no more rows, that is all it should have.
DayInHand ==
  bak.at \in Handling /\ bak.day \notin met =>
    /\ Intact(bak.day) /\ ~InRestore(bak.day)
    /\ entity = "table" => avail[bak.day].restored # "recently"
    /\ bak.at # "save" => /\ bak.rows \subseteq db[bak.day]
                          /\ entity = "table" => ever[bak.day] \subseteq Names(bak.rows)

\* The days the loop over a whole table has left behind are empty or archived.
DoneDays ==
  entity = "table" /\ bak.at # "idle" =>
    \A d \in Days \ met : d \in bak.todo \/ InBackup(d) \/ db[d] = {} \/ Archived(d)

\* The files of a whole table are complete, and so are restored ones.
TableFiles ==
  entity = "table" =>
    \A d \in Days \ met : /\ file[d].whole => ever[d] \subseteq Names(file[d].rows)
                          /\ avail[d].restored = "recently" => Archived(d)

RestoreInHand ==
  res.at # "idle" /\ res.day \notin met =>
    /\ avail[res.day].known /\ avail[res.day].rows = res.count
    /\ res.at \in {"copy", "mark"} => file[res.day].whole /\ res.rows = file[res.day].rows
    /\ res.at = "mark" => res.count = Cardinality(res.rows)

\* A template that has not been edited is the one every file was registered with.
TemplateInv ==
  entity = "table" /\ template = "old" =>
    /\ bak.at # "idle" => bak.template = "old"
    /\ \A d \in Days : avail[d].known => avail[d].template = "old"

WorkInv ==
  /\ SafeDays /\ LoopInv /\ TodoDays /\ DayInHand /\ DoneDays /\ TableFiles /\ RestoreInHand
  /\ TemplateInv

\* What holds before a step of a behaviour in question.
Before == SavedInv /\ WorkInv /\ doBackup /\ app = "orderly"

LEMMA WorkInit == Init => WorkInv
<1> SUFFICES ASSUME Init PROVE WorkInv OBVIOUS
<1>1. \A d \in Days : Intact(d)
  BY NewRowsAreRows DEF Init, Intact, Names
<1>2. file \in [Days -> {NoFile}] /\ avail \in [Days -> {Unknown}] BY DEF Init
<1> QED
  BY <1>1, <1>2 DEF Init, WorkInv, SafeDays, LoopInv, TodoDays, DayInHand, DoneDays, TableFiles,
     RestoreInHand, TemplateInv, BackupIdle, RestoreIdle, NoFile, Unknown, Handling

\* The backup worker is idle again, with everything else as it was.
LEMMA WorkIdle ==
  ASSUME WorkInv, bak' = BackupIdle,
         UNCHANGED <<entity, template, db, ever, file, avail, res, met>>
  PROVE  WorkInv'
<1> QED
  BY DEF WorkInv, SafeDays, LoopInv, TodoDays, DayInHand, DoneDays, TableFiles, RestoreInHand,
     TemplateInv, BackupIdle, Intact, Archived, Handling

LEMMA WorkBegin ==
  ASSUME TypeInv, WorkInv, BeginBackup PROVE WorkInv'
<1>1. /\ bak'.at = "days" /\ bak'.todo = {d \in Days : db[d] # {}} /\ bak'.template = template
      /\ UNCHANGED <<entity, template, db, ever, file, avail, res, met>>
  BY DEF BeginBackup, BackupIdle, config, archive
<1> QED
  BY <1>1 DEF WorkInv, SafeDays, LoopInv, TodoDays, DayInHand, DoneDays, TableFiles, RestoreInHand,
     TemplateInv, Intact, Archived, Handling

LEMMA WorkNextDay ==
  ASSUME TypeInv, doBackup, WorkInv, NEW d \in Days, NextDay(d) PROVE WorkInv'
<1>1. /\ bak.at = "days" /\ d \in bak.todo /\ bak'.todo = bak.todo \ {d}
      /\ bak'.template = bak.template
      /\ UNCHANGED <<entity, template, db, ever, file, avail, res>>
  BY DEF NextDay, TakeDay, TypeInv, TypeOK, config, archive
<1>2. CASE NotExpired(d)
  <2>1. bak'.at = "days" /\ met' = met
    BY <1>2 DEF NextDay, TakeDay, TypeInv, TypeOK, Handling
  <2> QED
    BY <1>1, <1>2, <2>1 DEF WorkInv, SafeDays, LoopInv, TodoDays, DayInHand, DoneDays, TableFiles,
       RestoreInHand, TemplateInv, Intact, Archived, Handling, NotExpired, InBackup
<1>3. CASE ~NotExpired(d)
  <2>1. /\ bak'.at = "save" /\ bak'.day = d
        /\ met \subseteq met' /\ (InRestore(d) => d \in met')
    BY <1>3 DEF NextDay, TakeDay, TypeInv, TypeOK, Handling
  <2>2. entity = "table" /\ d \notin met => avail[d].restored # "recently"
    BY <1>3 DEF WorkInv, TableFiles, Archived, NotExpired
  <2>3. DayInHand'
    BY <1>1, <2>1, <2>2 DEF WorkInv, TodoDays, DayInHand, Intact, Handling, InRestore
  <2>4. DoneDays'
    BY <1>1, <2>1 DEF WorkInv, DoneDays, InBackup, Archived, Handling
  <2> QED
    BY <1>1, <2>1, <2>3, <2>4 DEF WorkInv, SafeDays, LoopInv, TodoDays, TableFiles,
       RestoreInHand, TemplateInv, Intact, Archived, Handling
<1> QED BY <1>2, <1>3

LEMMA WorkSaveDay ==
  ASSUME TypeInv, WorkInv, SaveDay PROVE WorkInv'
<1>1. /\ bak.at = "save" /\ bak'.at = "store" /\ bak'.todo = bak.todo /\ bak'.day = bak.day
      /\ bak'.rows = db[bak.day] /\ bak'.template = bak.template
      /\ UNCHANGED <<entity, template, db, ever, file, avail, res, met>>
  BY DEF SaveDay, TypeInv, TypeOK, config, archive
<1> QED
  BY <1>1 DEF WorkInv, SafeDays, LoopInv, TodoDays, DayInHand, DoneDays, TableFiles,
     RestoreInHand, TemplateInv, Intact, Archived, Handling, InBackup, InRestore

LEMMA WorkStoreFile ==
  ASSUME TypeInv, doBackup, Stored, WorkInv, StoreFile PROVE WorkInv'
<1>1. /\ bak.at = "store" /\ bak'.at = "register" /\ bak'.todo = bak.todo /\ bak'.day = bak.day
      /\ bak'.rows = bak.rows /\ bak'.template = bak.template
      /\ UNCHANGED <<entity, template, db, ever, avail, res, met>>
  BY DEF StoreFile, TypeInv, TypeOK, config
<1>2. bak.day \in Days BY <1>1 DEF TypeInv, TypeOK, Handling
<1>3. /\ file'[bak.day].whole /\ file'[bak.day].rows = bak.rows
      /\ \A d \in Days : d # bak.day => file'[d] = file[d]
  BY <1>1, <1>2 DEF StoreFile, Whole, TypeInv, TypeOK, Stored
<1>4. /\ \A d \in Days : Intact(d)' <=> Intact(d)
      /\ \A d \in Days : d # bak.day => (Archived(d)' <=> Archived(d))
      /\ InBackup(bak.day)'
  BY <1>1, <1>3 DEF Intact, Archived, InBackup, Handling
<1>5. DayInHand' BY <1>1, <1>2, <1>4 DEF WorkInv, DayInHand, Handling, InRestore
<1>6. TableFiles' BY <1>1, <1>2, <1>3, <1>4 DEF WorkInv, TableFiles, DayInHand, Handling
<1>7. RestoreInHand'
  BY <1>1, <1>3 DEF WorkInv, RestoreInHand, DayInHand, Handling, InRestore, TypeInv, TypeOK
<1>8. SafeDays'
  <2>1. bak.day \notin met => Intact(bak.day) BY <1>1 DEF WorkInv, DayInHand, Handling
  <2> QED BY <1>1, <1>4, <2>1 DEF WorkInv, SafeDays
<1>9. DoneDays' BY <1>1, <1>4 DEF WorkInv, DoneDays, InBackup, Handling
<1>10. LoopInv' /\ TodoDays' /\ TemplateInv'
  BY <1>1, <1>4 DEF WorkInv, LoopInv, TodoDays, TemplateInv, Handling, TypeInv, TypeOK
<1> QED BY <1>5, <1>6, <1>7, <1>8, <1>9, <1>10 DEF WorkInv

LEMMA WorkStoreFails ==
  ASSUME TypeInv, doBackup, WorkInv, StoreFails PROVE WorkInv'
<1>1. bak.at = "store" /\ bak' = BackupIdle
      /\ UNCHANGED <<entity, template, db, ever, avail, res, met>>
  BY DEF StoreFails, config
<1>2. bak.day \in Days BY <1>1 DEF TypeInv, TypeOK, Handling
<1>3. ~file'[bak.day].whole /\ \A d \in Days : d # bak.day => file'[d] = file[d]
  BY <1>2 DEF StoreFails, Broken, TypeInv, TypeOK
<1>4. RestoreInHand'
  BY <1>1, <1>3 DEF WorkInv, RestoreInHand, DayInHand, Handling, InRestore, TypeInv, TypeOK
<1>5. SafeDays'
  BY <1>1, <1>3 DEF WorkInv, SafeDays, DayInHand, Handling, Intact, Archived
<1>6. TableFiles'
  BY <1>1, <1>3 DEF WorkInv, TableFiles, DayInHand, Handling, Archived
<1> QED
  BY <1>1, <1>4, <1>5, <1>6 DEF WorkInv, LoopInv, TodoDays, DayInHand, DoneDays, TemplateInv,
     BackupIdle, Handling

LEMMA WorkRegister ==
  ASSUME TypeInv, doBackup, Stored, WorkInv, Register PROVE WorkInv'
<1>1. /\ bak.at = "register" /\ bak'.at = "delete" /\ bak'.todo = bak.todo /\ bak'.day = bak.day
      /\ bak'.rows = bak.rows /\ bak'.template = bak.template
      /\ UNCHANGED <<entity, template, db, ever, file, res, met>>
  BY DEF Register, TypeInv, TypeOK, config
<1>2. bak.day \in Days BY <1>1 DEF TypeInv, TypeOK, Handling
<1>3. /\ avail'[bak.day].known /\ avail'[bak.day].rows = Cardinality(bak.rows)
      /\ avail'[bak.day].template = bak.template
      /\ avail'[bak.day].restored = avail[bak.day].restored
      /\ \A d \in Days : d # bak.day => avail'[d] = avail[d]
  BY RegisterIs DEF TypeInv
<1>4. /\ \A d \in Days : Intact(d)' <=> Intact(d)
      /\ \A d \in Days : d # bak.day => (Archived(d)' <=> Archived(d))
      /\ InBackup(bak.day)'
  BY <1>1, <1>3 DEF Intact, Archived, InBackup, Handling
<1>5. DayInHand' BY <1>1, <1>2, <1>3, <1>4 DEF WorkInv, DayInHand, Handling, InRestore
<1>6. TableFiles' BY <1>1, <1>2, <1>3, <1>4 DEF WorkInv, TableFiles, DayInHand, Handling
<1>7. RestoreInHand'
  BY <1>1, <1>3 DEF WorkInv, RestoreInHand, DayInHand, Handling, InRestore, TypeInv, TypeOK
<1>8. SafeDays'
  <2>1. bak.day \notin met => Intact(bak.day) BY <1>1 DEF WorkInv, DayInHand, Handling
  <2> QED BY <1>1, <1>4, <2>1 DEF WorkInv, SafeDays
<1>9. DoneDays' BY <1>1, <1>4 DEF WorkInv, DoneDays, InBackup, Handling
<1>10. LoopInv' /\ TodoDays' /\ TemplateInv'
  BY <1>1, <1>3, <1>4 DEF WorkInv, LoopInv, TodoDays, TemplateInv, Handling, TypeInv, TypeOK
<1> QED BY <1>5, <1>6, <1>7, <1>8, <1>9, <1>10 DEF WorkInv

\* As many rows deleted as saved, of rows that were all in the table: the same.
LEMMA WorkDeleteDay ==
  ASSUME TypeInv, doBackup, Stored, Registered, WorkInv, DeleteDay PROVE WorkInv'
<1>1. /\ bak.at = "delete" /\ bak'.at = "days" /\ bak'.todo = bak.todo
      /\ bak'.template = bak.template
      /\ UNCHANGED <<entity, template, ever, file, avail, res, met>>
  BY DEF DeleteDay, TypeInv, TypeOK, config, archive
<1>2. bak.day \in Days BY <1>1 DEF TypeInv, TypeOK, Handling
<1>3. db'[bak.day] = {} /\ \A d \in Days : d # bak.day => db'[d] = db[d]
  BY <1>2 DEF DeleteDay, TypeInv, TypeOK
<1>4. bak.day \notin met => Archived(bak.day)
  <2> HAVE bak.day \notin met
  <2>1. bak.rows \subseteq db[bak.day] /\ Intact(bak.day)
    BY <1>1 DEF WorkInv, DayInHand, Handling
  <2>2. bak.rows = db[bak.day] BY <2>1, SameRows
  <2> QED BY <1>1, <2>1, <2>2 DEF Stored, Registered, Intact, Archived
<1>5. \A d \in Days : (d # bak.day => (Intact(d)' <=> Intact(d))) /\ (Archived(d)' <=> Archived(d))
  BY <1>1, <1>3 DEF Intact, Archived
<1>6. SafeDays' BY <1>1, <1>2, <1>3, <1>4, <1>5 DEF WorkInv, SafeDays
<1>7. DoneDays' BY <1>1, <1>2, <1>3, <1>5 DEF WorkInv, DoneDays, Handling, InBackup
<1>8. TableFiles' BY <1>1, <1>5 DEF WorkInv, TableFiles, Archived
<1>9. TodoDays' BY <1>1, <1>5 DEF WorkInv, TodoDays, LoopInv, Handling, TypeInv, TypeOK
<1>10. LoopInv' /\ DayInHand' BY <1>1 DEF LoopInv, DayInHand, Handling
<1>11. RestoreInHand' /\ TemplateInv' BY <1>1 DEF WorkInv, RestoreInHand, TemplateInv
<1> QED BY <1>6, <1>7, <1>8, <1>9, <1>10, <1>11 DEF WorkInv

LEMMA WorkEndOfDays ==
  ASSUME TypeInv, WorkInv, EndOfDays PROVE WorkInv'
<1>1. CASE entity = "table"
  <2>1. /\ bak.at = "days" /\ bak'.at = "drop" /\ bak.todo = {} /\ bak'.todo = {}
        /\ bak'.template = bak.template
        /\ UNCHANGED <<entity, template, db, ever, file, avail, res, met>>
    BY <1>1 DEF EndOfDays, TypeInv, TypeOK, config, archive
  <2> QED
    BY <1>1, <2>1 DEF WorkInv, SafeDays, LoopInv, TodoDays, DayInHand, DoneDays, TableFiles,
       RestoreInHand, TemplateInv, Intact, Archived, Handling, InBackup
<1>2. CASE entity # "table"
  BY <1>2, WorkIdle DEF EndOfDays, config, archive
<1> QED BY <1>1, <1>2

\* Every day is empty or archived when the table goes.
LEMMA WorkDropTable ==
  ASSUME TypeInv, WorkInv, DropTable PROVE WorkInv'
<1>1. /\ bak.at = "drop" /\ bak' = BackupIdle /\ \A d \in Days : db'[d] = {}
      /\ UNCHANGED <<entity, template, ever, file, avail, res, met>>
  BY DEF DropTable, config, archive
<1>2. \A d \in Days : (Archived(d)' <=> Archived(d)) /\ (db[d] = {} => (Intact(d)' <=> Intact(d)))
  BY <1>1 DEF Archived, Intact
<1>3. SafeDays'
  BY <1>1, <1>2 DEF WorkInv, SafeDays, LoopInv, DoneDays, InBackup, Handling
<1>4. TableFiles' BY <1>1, <1>2 DEF WorkInv, TableFiles
<1> QED
  BY <1>1, <1>3, <1>4 DEF WorkInv, LoopInv, TodoDays, DayInHand, DoneDays, RestoreInHand,
     TemplateInv, BackupIdle, Handling

LEMMA WorkBeginRestore ==
  ASSUME TypeInv, WorkInv, NEW d \in Days, BeginRestore(d) PROVE WorkInv'
<1>1. /\ res'.at = "read" /\ res'.day = d /\ res'.count = avail[d].rows /\ avail[d].known
      /\ UNCHANGED <<entity, template, db, ever, file, avail, bak>>
      /\ met \subseteq met' /\ (InBackup(d) => d \in met')
  BY DEF BeginRestore, RestoreIdle, config, archive
<1>2. DayInHand'
  BY <1>1 DEF WorkInv, DayInHand, Handling, InRestore, InBackup, Intact, TypeInv, TypeOK
<1> QED
  BY <1>1, <1>2 DEF WorkInv, SafeDays, LoopInv, TodoDays, DoneDays, TableFiles, RestoreInHand,
     TemplateInv, Intact, Archived, Handling, InBackup

LEMMA WorkReadFile ==
  ASSUME TypeInv, WorkInv, ReadFile PROVE WorkInv'
<1>1. /\ res.at = "read" /\ res'.at = "copy" /\ res'.day = res.day /\ res'.count = res.count
      /\ file[res.day].whole /\ res'.rows = file[res.day].rows
      /\ UNCHANGED <<entity, template, db, ever, file, avail, bak, met>>
  BY DEF ReadFile, TypeInv, TypeOK, config, archive
<1> QED
  BY <1>1 DEF WorkInv, SafeDays, LoopInv, TodoDays, DayInHand, DoneDays, TableFiles, RestoreInHand,
     TemplateInv, Intact, Archived, Handling, InBackup, InRestore

\* What a restore copies in.
LEMMA CopyRowsIs ==
  ASSUME TypeInv, CopyRows
  PROVE  /\ res.day \in Days
         /\ db[res.day] \subseteq db'[res.day]
         /\ Names(db'[res.day]) = Names(db[res.day]) \cup Names(res.rows)
         /\ \A d \in Days : d # res.day => db'[d] = db[d]
<1> DEFINE C == Copies(res.rows, restores)
<1>1. res.day \in Days BY DEF CopyRows, TypeInv, TypeOK
<1>2. db'[res.day] = db[res.day] \cup C /\ \A d \in Days : d # res.day => db'[d] = db[d]
  BY <1>1 DEF CopyRows, TypeInv, TypeOK
<1>3. Names(C) = Names(res.rows)
  BY CopiesAreRows, RestoresAssumption DEF TypeInv, TypeOK
<1> HIDE DEF C
<1>4. Names(db'[res.day]) = Names(db[res.day]) \cup Names(C) BY <1>2 DEF Names
<1> QED BY <1>1, <1>2, <1>3, <1>4

\* The copies of an archived day's rows make it intact.
LEMMA WorkCopyRows ==
  ASSUME TypeInv, WorkInv, CopyRows PROVE WorkInv'
<1>1. /\ res.at = "copy" /\ res'.at = "mark" /\ res'.day = res.day /\ res'.count = res.count
      /\ res'.rows = res.rows /\ Cardinality(res.rows) = res.count
      /\ UNCHANGED <<entity, template, ever, file, avail, bak, met>>
  BY DEF CopyRows, TypeInv, TypeOK, config, archive
<1>2. /\ res.day \in Days
      /\ Names(db'[res.day]) = Names(db[res.day]) \cup Names(res.rows)
      /\ \A d \in Days : d # res.day => db'[d] = db[d]
  BY CopyRowsIs
<1>3. res.day \notin met => res.rows = file[res.day].rows
  BY <1>1 DEF WorkInv, RestoreInHand
<1>4. res.day \notin met => Intact(res.day)'
  BY <1>1, <1>2, <1>3 DEF WorkInv, SafeDays, Intact, Archived
<1>5. /\ \A d \in Days : Archived(d)' <=> Archived(d)
      /\ \A d \in Days \ met : Intact(d) => Intact(d)'
      /\ \A d \in Days : d # res.day => (Intact(d)' <=> Intact(d))
  BY <1>1, <1>2, <1>4 DEF Archived, Intact
<1>6. SafeDays'
  <2> SUFFICES ASSUME NEW d \in Days \ met PROVE Intact(d)' \/ (db'[d] = {} /\ Archived(d)')
    BY <1>1 DEF SafeDays
  <2>1. CASE d = res.day BY <1>1, <1>4, <2>1 DEF Intact
  <2>2. CASE d # res.day BY <1>2, <1>5, <2>2 DEF WorkInv, SafeDays
  <2> QED BY <2>1, <2>2
<1>7. TableFiles' BY <1>1, <1>5 DEF WorkInv, TableFiles
<1>8. TodoDays' BY <1>1, <1>5 DEF WorkInv, TodoDays, TypeInv, TypeOK
<1>9. DayInHand'
  <2> SUFFICES ASSUME bak.at \in Handling, bak.day \notin met
               PROVE  DayInHand'
    BY <1>1 DEF DayInHand
  <2>1. bak.day # res.day /\ bak.day \in Days
    BY <1>1 DEF WorkInv, DayInHand, InRestore, TypeInv, TypeOK
  <2> QED BY <1>1, <1>2, <1>5, <2>1 DEF WorkInv, DayInHand, InRestore
<1>10. DoneDays'
  <2>1. entity = "table" /\ res.day \notin met => Archived(res.day)
    BY <1>1, <1>2, <1>3 DEF WorkInv, RestoreInHand, TableFiles, Archived
  <2> QED BY <1>1, <1>2, <1>5, <2>1 DEF WorkInv, DoneDays, InBackup
<1>11. RestoreInHand' BY <1>1 DEF WorkInv, RestoreInHand
<1>12. LoopInv' /\ TemplateInv' BY <1>1 DEF WorkInv, LoopInv, TemplateInv
<1> QED BY <1>6, <1>7, <1>8, <1>9, <1>10, <1>11, <1>12 DEF WorkInv

\* The rows came from the file, and as many as the register declares.
LEMMA WorkMarkRestored ==
  ASSUME TypeInv, WorkInv, MarkRestored PROVE WorkInv'
<1>1. /\ res.at = "mark" /\ res' = RestoreIdle
      /\ UNCHANGED <<entity, template, db, ever, file, bak, met>>
  BY DEF MarkRestored, config
<1>2. res.day \in Days BY <1>1 DEF TypeInv, TypeOK
<1>3. \A d \in Days : /\ avail'[d].known = avail[d].known /\ avail'[d].rows = avail[d].rows
                      /\ avail'[d].template = avail[d].template
                      /\ d # res.day => avail'[d] = avail[d]
  BY <1>2 DEF MarkRestored, TypeInv, TypeOK
<1>4. entity = "table" /\ res.day \notin met => Archived(res.day)
  BY <1>1, <1>2 DEF WorkInv, TableFiles, RestoreInHand, Archived
<1>5. \A d \in Days : (Archived(d)' <=> Archived(d)) /\ (Intact(d)' <=> Intact(d))
  BY <1>1, <1>3 DEF Archived, Intact
<1>6. SafeDays' BY <1>1, <1>5 DEF WorkInv, SafeDays
<1>7. TableFiles' BY <1>1, <1>3, <1>4, <1>5 DEF WorkInv, TableFiles
<1>8. DayInHand'
  <2> SUFFICES ASSUME bak.at \in Handling, bak.day \notin met
               PROVE  DayInHand'
    BY <1>1 DEF DayInHand
  <2>1. bak.day # res.day /\ bak.day \in Days
    BY <1>1 DEF WorkInv, DayInHand, InRestore, TypeInv, TypeOK
  <2> QED BY <1>1, <1>3, <1>5, <2>1 DEF WorkInv, DayInHand, InRestore, RestoreIdle
<1>9. DoneDays' BY <1>1, <1>5 DEF WorkInv, DoneDays, InBackup
<1>10. TodoDays' BY <1>1, <1>5 DEF WorkInv, TodoDays, TypeInv, TypeOK
<1>11. RestoreInHand' /\ LoopInv' /\ TemplateInv'
  BY <1>1, <1>3 DEF WorkInv, RestoreInHand, LoopInv, TemplateInv, RestoreIdle
<1> QED BY <1>6, <1>7, <1>8, <1>9, <1>10, <1>11 DEF WorkInv

LEMMA WorkAbortRestore ==
  ASSUME WorkInv, AbortRestore PROVE WorkInv'
<1>1. res' = RestoreIdle /\ UNCHANGED <<entity, template, db, ever, file, avail, bak, met>>
  BY DEF AbortRestore, config, archive
<1> QED
  BY <1>1 DEF WorkInv, SafeDays, LoopInv, TodoDays, DayInHand, DoneDays, TableFiles, RestoreInHand,
     TemplateInv, Intact, Archived, Handling, InBackup, InRestore, RestoreIdle

\* A row that comes is one the table has; it comes to a day with rows, which is
\* intact, and never to a table archived as a whole.
LEMMA WorkInsert ==
  ASSUME app = "orderly", TypeInv, WorkInv, NEW d \in Days, NEW n \in Late, Insert(d, n)
  PROVE  WorkInv'
<1>1. /\ entity = "record" /\ db[d] # {} /\ ever' = [ever EXCEPT ![d] = @ \cup {n}]
      /\ db' = [db EXCEPT ![d] = @ \cup {NewRow(n)}]
      /\ UNCHANGED <<entity, template, file, avail, bak, res, met>>
  BY DEF Insert, config, archive
<1>2. /\ db'[d] = db[d] \cup {NewRow(n)} /\ ever'[d] = ever[d] \cup {n}
      /\ \A e \in Days : e # d => db'[e] = db[e] /\ ever'[e] = ever[e]
  BY <1>1 DEF TypeInv, TypeOK
<1>3. d \notin met => Intact(d)'
  <2> HAVE d \notin met
  <2>1. Intact(d) BY <1>1 DEF WorkInv, SafeDays
  <2>2. Names(db'[d]) = Names(db[d]) \cup {n} BY <1>2, NewRowsAreRows DEF Names
  <2> QED BY <1>2, <2>1, <2>2 DEF Intact
<1>4. \A e \in Days : e # d => (Archived(e)' <=> Archived(e)) /\ (Intact(e)' <=> Intact(e))
  BY <1>1, <1>2 DEF Archived, Intact
<1>5. SafeDays' BY <1>1, <1>2, <1>3, <1>4 DEF WorkInv, SafeDays
<1>6. \A e \in Days : db[e] \subseteq db'[e] BY <1>2
<1>7. TodoDays' BY <1>1, <1>3, <1>4 DEF WorkInv, TodoDays, TypeInv, TypeOK
<1>8. DayInHand'
  BY <1>1, <1>3, <1>4, <1>6 DEF WorkInv, DayInHand, InRestore, TypeInv, TypeOK
<1> QED
  BY <1>1, <1>5, <1>7, <1>8
     DEF WorkInv, LoopInv, DoneDays, TableFiles, RestoreInHand, TemplateInv, Handling

\* What is left of a day from which a row goes.
LEMMA RemoveIs ==
  ASSUME TypeOK, NEW d \in Days, NEW x \in db[d], Remove(d, x)
  PROVE  /\ db'[d] = db[d] \ {x} /\ ever'[d] \subseteq ever[d]
         /\ \A n \in ever'[d] : n \in Names(db[d]) => n \in Names(db'[d])
         /\ \A e \in Days : e # d => db'[e] = db[e] /\ ever'[e] = ever[e]
<1>1. /\ db'[d] = db[d] \ {x}
      /\ ever'[d] = {n \in ever[d] : n # x[1] \/ n \in Names(db[d] \ {x})}
      /\ \A e \in Days : e # d => db'[e] = db[e] /\ ever'[e] = ever[e]
  BY DEF Remove, TypeOK
<1>2. ASSUME NEW n \in ever'[d], n \in Names(db[d]) PROVE n \in Names(db'[d])
  <2>1. CASE n \in Names(db[d] \ {x}) BY <1>1, <2>1
  <2>2. CASE n # x[1]
    <3>1. PICK y \in db[d] : y[1] = n BY <1>2 DEF Names
    <3> QED BY <1>1, <2>2, <3>1 DEF Names
  <2> QED BY <1>1, <2>1, <2>2
<1> QED BY <1>1, <1>2

LEMMA WorkRemove ==
  ASSUME app = "orderly", TypeInv, WorkInv, NEW d \in Days, NEW x \in db[d], Remove(d, x)
  PROVE  WorkInv'
<1>1. ~InBackup(d) /\ UNCHANGED <<entity, template, file, avail, bak, res, met>>
  BY DEF Remove, config, archive
<1>2. /\ db'[d] \subseteq db[d] /\ ever'[d] \subseteq ever[d]
      /\ \A n \in ever'[d] : n \in Names(db[d]) => n \in Names(db'[d])
      /\ \A e \in Days : e # d => db'[e] = db[e] /\ ever'[e] = ever[e]
  BY RemoveIs DEF TypeInv
<1>3. \A e \in Days : (Archived(e) => Archived(e)') /\ (Intact(e) => Intact(e)')
  BY <1>1, <1>2 DEF Archived, Intact
<1>4. SafeDays' BY <1>1, <1>2, <1>3 DEF WorkInv, SafeDays
<1>5. TableFiles' BY <1>1, <1>2, <1>3 DEF WorkInv, TableFiles
<1>6. DoneDays' BY <1>1, <1>2, <1>3 DEF WorkInv, DoneDays, InBackup
<1>7. TodoDays' BY <1>1, <1>3 DEF WorkInv, TodoDays, TypeInv, TypeOK
<1>8. DayInHand'
  BY <1>1, <1>2, <1>3 DEF WorkInv, DayInHand, InRestore, InBackup, TypeInv, TypeOK
<1>9. LoopInv' /\ RestoreInHand' /\ TemplateInv'
  BY <1>1 DEF WorkInv, LoopInv, RestoreInHand, TemplateInv
<1> QED BY <1>4, <1>5, <1>6, <1>7, <1>8, <1>9 DEF WorkInv

LEMMA WorkExpire ==
  ASSUME TypeInv, WorkInv, NEW d \in Days, Expire(d) PROVE WorkInv'
<1>1. UNCHANGED <<entity, template, db, ever, file, bak, res, met>> BY DEF Expire, config
<1>2. \A e \in Days : /\ avail'[e].known = avail[e].known /\ avail'[e].rows = avail[e].rows
                      /\ avail'[e].template = avail[e].template
                      /\ avail'[e].restored = "recently" => avail[e].restored = "recently"
  BY DEF Expire, TypeInv, TypeOK
<1>3. \A e \in Days : (Archived(e)' <=> Archived(e)) /\ (Intact(e)' <=> Intact(e))
  BY <1>1, <1>2 DEF Archived, Intact
<1>4. TodoDays' BY <1>1, <1>3 DEF WorkInv, TodoDays, TypeInv, TypeOK
<1>5. DayInHand'
  BY <1>1, <1>2, <1>3 DEF WorkInv, DayInHand, InRestore, TypeInv, TypeOK
<1>6. TableFiles' BY <1>1, <1>2, <1>3 DEF WorkInv, TableFiles
<1>7. DoneDays' BY <1>1, <1>3 DEF WorkInv, DoneDays, InBackup
<1>8. SafeDays' BY <1>1, <1>3 DEF WorkInv, SafeDays
<1> QED
  BY <1>1, <1>2, <1>4, <1>5, <1>6, <1>7, <1>8
     DEF WorkInv, LoopInv, RestoreInHand, TemplateInv, TypeInv, TypeOK

LEMMA WorkStep ==
  ASSUME ~TmpFails, Before, [Next]_vars
  PROVE  WorkInv'
<1> USE DEF Before, SavedInv
<1>1. CASE Backup
  <2>1. CASE AbortBackup BY <2>1, WorkIdle DEF AbortBackup, config, archive
  <2> QED
    BY <1>1, <2>1, WorkBegin, WorkNextDay, WorkSaveDay, WorkStoreFile, WorkStoreFails,
       WorkRegister, WorkDeleteDay, WorkEndOfDays, WorkDropTable DEF Backup
<1>2. CASE Restore
  BY <1>2, WorkBeginRestore, WorkReadFile, WorkCopyRows, WorkMarkRestored, WorkAbortRestore
     DEF Restore
<1>3. CASE UNCHANGED vars \/ EditTemplate
  <2>1. UNCHANGED <<entity, db, ever, file, avail, bak, res, met>>
        /\ (template' = template \/ template' # "old")
    BY <1>3 DEF vars, config, archive, EditTemplate
  <2> QED
    BY <2>1 DEF WorkInv, SafeDays, LoopInv, TodoDays, DayInHand, DoneDays, TableFiles,
       RestoreInHand, TemplateInv, Intact, Archived, Handling, InBackup, InRestore
<1> QED BY <1>1, <1>2, <1>3, WorkInsert, WorkRemove, WorkExpire DEF Next

\* What an orderly application has put into the table and not taken away is there
\* or saved, and an unedited template lets a restore of it through: whatever
\* errors, crashes, backups and restores have come between, and for any days,
\* rows and number of restores, on the days that a backup and a restore have not
\* had in hand together.
THEOREM RowsRecoverable ==
  ASSUME ~TmpFails
  PROVE  Spec => []Recoverable
<1> DEFINE I == doBackup /\ app = "orderly" => WorkInv
<1>1. Init => I BY WorkInit
<1>2. SavedInv /\ I /\ [Next]_vars => I'
  BY WorkStep, ConfigStays DEF Before, config
<1>3. I => Recoverable
  <2> SUFFICES ASSUME WorkInv, NEW d \in Days \ met, NEW n \in ever[d]
               PROVE  n \in Names(db[d]) \/ (Saved(d, n) /\ (template = "old" => Fits(d)))
    BY DEF Recoverable
  <2>1. CASE Intact(d) BY <2>1 DEF Intact
  <2>2. CASE Archived(d)
    BY <2>2 DEF WorkInv, TemplateInv, Archived, Saved, Fits
  <2> QED BY <2>1, <2>2 DEF WorkInv, SafeDays
<1> QED BY <1>1, <1>2, <1>3, SavedInvariant, PTL DEF Spec

-----------------------------------------------------------------------------
(***************************************************************************)
(* Restored records are kept for their term, on the days that the two      *)
(* workers have not had in hand together.  Late rows, removed rows and     *)
(* broken files do no harm.                                                *)
(***************************************************************************)
\* Without do_backup nothing is registered, so nothing can be restored.
KnownWhenSaving ==
  ~doBackup => bak.at \notin {"save", "store", "register"} /\ \A d \in Days : ~avail[d].known

\* No day whose term has not expired is in hand, and no table is dropped.
HandledDay ==
  /\ bak.at \in Handling /\ bak.day \notin met =>
       avail[bak.day].restored # "recently" /\ ~InRestore(bak.day)
  /\ bak.at # "drop"

Kept(d) == Names(file[d].rows) \cap ever[d] \subseteq Names(db[d])

KeptDays == \A d \in Days \ met : avail[d].restored = "recently" => avail[d].known /\ Kept(d)

RestoreKnown ==
  res.at # "idle" /\ res.day \notin met =>
    /\ avail[res.day].known
    /\ res.at \in {"copy", "mark"} => res.rows = file[res.day].rows
    /\ res.at = "mark" => Kept(res.day)

KeepInv == KnownWhenSaving /\ HandledDay /\ KeptDays /\ RestoreKnown

LEMMA KeepInit == Init => KeepInv
<1> QED
  BY DEF Init, KeepInv, KnownWhenSaving, HandledDay, KeptDays, RestoreKnown, BackupIdle,
         RestoreIdle, Unknown, Handling

LEMMA KeepBackup ==
  ASSUME TypeInv, entity = "record", KeepInv, Backup
  PROVE  KeepInv'
<1> USE DEF KeepInv, KnownWhenSaving, HandledDay, KeptDays, RestoreKnown, Kept, Handling,
            InRestore, config, archive
<1>1. CASE BeginBackup BY <1>1 DEF BeginBackup, BackupIdle
<1>2. CASE SaveDay     BY <1>2 DEF SaveDay, TypeInv, TypeOK
<1>3. CASE StoreFile \/ StoreFails
  <2>1. /\ bak.at = "store" /\ bak'.at \in {"register", "idle"} /\ bak.day \in Days
        /\ bak'.at = "register" => bak'.day = bak.day
        /\ UNCHANGED <<doBackup, db, ever, avail, res, met>>
    BY <1>3 DEF StoreFile, StoreFails, BackupIdle, TypeInv, TypeOK
  <2>2. \A d \in Days : d # bak.day => file'[d] = file[d]
    BY <1>3 DEF StoreFile, StoreFails, TypeInv, TypeOK
  <2>3. \A d \in Days : d # bak.day => (Kept(d)' <=> Kept(d)) BY <2>1, <2>2
  <2>4. KeptDays' BY <2>1, <2>3
  <2>5. RestoreKnown'
    <3> SUFFICES ASSUME res.at # "idle", res.day \notin met PROVE RestoreKnown' BY <2>1
    <3>1. res.day # bak.day /\ res.day \in Days BY <2>1 DEF TypeInv, TypeOK
    <3> QED BY <2>1, <2>2, <3>1
  <2> QED BY <2>1, <2>4, <2>5
<1>4. CASE Register
  <2>1. /\ bak.at = "register" /\ bak'.at = "delete" /\ bak'.day = bak.day /\ bak.day \in Days
        /\ UNCHANGED <<doBackup, db, ever, file, res, met>>
    BY <1>4 DEF Register, TypeInv, TypeOK
  <2>2. /\ avail'[bak.day].restored = avail[bak.day].restored
        /\ \A d \in Days : d # bak.day => avail'[d] = avail[d]
    BY <1>4, RegisterIs DEF TypeInv
  <2>3. RestoreKnown'
    <3> SUFFICES ASSUME res.at # "idle", res.day \notin met PROVE RestoreKnown' BY <2>1
    <3>1. res.day # bak.day /\ res.day \in Days BY <2>1 DEF TypeInv, TypeOK
    <3> QED BY <2>1, <2>2, <3>1
  <2> QED BY <2>1, <2>2, <2>3
<1>5. CASE DeleteDay
  <2>1. /\ bak.at = "delete" /\ bak'.at = "days" /\ bak.day \in Days
        /\ UNCHANGED <<doBackup, ever, file, avail, res, met>>
        /\ \A d \in Days : d # bak.day => db'[d] = db[d]
    BY <1>5 DEF DeleteDay, TypeInv, TypeOK
  <2>2. \A d \in Days : d # bak.day => (Kept(d)' <=> Kept(d)) BY <2>1
  <2>3. KeptDays' BY <2>1, <2>2
  <2>4. RestoreKnown'
    <3> SUFFICES ASSUME res.at # "idle", res.day \notin met PROVE RestoreKnown' BY <2>1
    <3>1. res.day # bak.day /\ res.day \in Days BY <2>1 DEF TypeInv, TypeOK
    <3> QED BY <2>1, <3>1
  <2> QED BY <2>1, <2>3, <2>4
<1>6. CASE EndOfDays   BY <1>6 DEF EndOfDays, BackupIdle
<1>7. CASE DropTable   BY <1>7 DEF DropTable
<1>8. CASE AbortBackup BY <1>8 DEF AbortBackup, BackupIdle
<1>9. ASSUME NEW d \in Days, NextDay(d) PROVE KeepInv'
  <2>1. /\ UNCHANGED <<doBackup, db, ever, file, avail, res>>
        /\ bak.at = "days" /\ met \subseteq met'
        /\ bak'.at = IF ~doBackup THEN "delete" ELSE IF NotExpired(d) THEN "days" ELSE "save"
    BY <1>9 DEF NextDay, TakeDay, TypeInv, TypeOK
  <2>2. bak'.at \in Handling => bak'.day = d /\ (InRestore(d) => d \in met')
    BY <1>9 DEF NextDay, TakeDay, TypeInv, TypeOK
  <2>3. bak'.at \in Handling /\ d \notin met => avail[d].restored # "recently"
    BY <2>1 DEF NotExpired
  <2>4. HandledDay' BY <2>1, <2>2, <2>3
  <2> QED BY <2>1, <2>4
<1> QED BY <1>1, <1>2, <1>3, <1>4, <1>5, <1>6, <1>7, <1>8, <1>9 DEF Backup

LEMMA KeepRestore ==
  ASSUME TypeInv, KeepInv, Restore
  PROVE  KeepInv'
<1> USE DEF KeepInv, KnownWhenSaving, HandledDay, KeptDays, RestoreKnown, Kept, Handling,
            InRestore, config, archive
<1>1. CASE ReadFile
  <2>1. /\ res.at = "read" /\ res'.at = "copy" /\ res'.day = res.day
        /\ res'.rows = file[res.day].rows /\ UNCHANGED <<doBackup, db, ever, file, avail, bak, met>>
    BY <1>1 DEF ReadFile, TypeInv, TypeOK
  <2> QED BY <2>1
<1>2. CASE CopyRows
  <2>1. /\ res.at = "copy" /\ res'.at = "mark" /\ res'.day = res.day /\ res'.rows = res.rows
        /\ UNCHANGED <<doBackup, ever, file, avail, bak, met>>
    BY <1>2 DEF CopyRows, TypeInv, TypeOK
  <2>2. /\ res.day \in Days
        /\ Names(db'[res.day]) = Names(db[res.day]) \cup Names(res.rows)
        /\ \A d \in Days : d # res.day => db'[d] = db[d]
    BY <1>2, CopyRowsIs
  <2>3. \A d \in Days : Kept(d) => Kept(d)' BY <2>1, <2>2
  <2>4. res.day \notin met => Kept(res.day)' BY <2>1, <2>2
  <2> QED BY <2>1, <2>3, <2>4
<1>3. CASE MarkRestored
  <2>1. /\ res.at = "mark" /\ res' = RestoreIdle /\ UNCHANGED <<doBackup, db, ever, file, bak, met>>
        /\ res.day \in Days
    BY <1>3 DEF MarkRestored, TypeInv, TypeOK
  <2>2. \A d \in Days : avail'[d].known = avail[d].known /\ (d # res.day => avail'[d] = avail[d])
    BY <1>3 DEF MarkRestored, TypeInv, TypeOK
  <2>3. HandledDay'
    <3> SUFFICES ASSUME bak.at \in Handling, bak.day \notin met PROVE HandledDay' BY <2>1
    <3>1. bak.day # res.day /\ bak.day \in Days BY <2>1 DEF TypeInv, TypeOK
    <3> QED BY <2>1, <2>2, <3>1 DEF RestoreIdle
  <2> QED BY <2>1, <2>2, <2>3 DEF RestoreIdle
<1>4. CASE AbortRestore BY <1>4 DEF AbortRestore, RestoreIdle
<1>5. ASSUME NEW d \in Days, BeginRestore(d) PROVE KeepInv'
  <2>1. /\ res'.at = "read" /\ res'.day = d /\ avail[d].known
        /\ UNCHANGED <<doBackup, db, ever, file, avail, bak>>
        /\ met \subseteq met' /\ (InBackup(d) => d \in met')
    BY <1>5 DEF BeginRestore, RestoreIdle
  <2> QED BY <2>1 DEF InBackup
<1> QED BY <1>1, <1>2, <1>3, <1>4, <1>5 DEF Restore

LEMMA KeepStep ==
  ASSUME TypeInv, entity = "record", KeepInv, [Next]_vars
  PROVE  KeepInv'
<1> USE DEF KeepInv, KnownWhenSaving, HandledDay, KeptDays, RestoreKnown, Kept, Handling,
            InRestore, config, archive
<1>1. ASSUME NEW d \in Days, NEW n \in Late, Insert(d, n) PROVE KeepInv'
  <2>1. UNCHANGED <<doBackup, file, avail, bak, res, met>> BY <1>1 DEF Insert
  <2>2. /\ db'[d] = db[d] \cup {NewRow(n)} /\ ever'[d] = ever[d] \cup {n}
        /\ \A e \in Days : e # d => db'[e] = db[e] /\ ever'[e] = ever[e]
    BY <1>1 DEF Insert, TypeInv, TypeOK
  <2>3. Names(db'[d]) = Names(db[d]) \cup {n} BY <2>2, NewRowsAreRows DEF Names
  <2>4. \A e \in Days : Kept(e) => Kept(e)' BY <2>1, <2>2, <2>3
  <2> QED BY <2>1, <2>4 DEF TypeInv, TypeOK
<1>2. ASSUME NEW d \in Days, NEW x \in db[d], Remove(d, x) PROVE KeepInv'
  <2>1. UNCHANGED <<doBackup, file, avail, bak, res, met>> BY <1>2 DEF Remove
  <2>2. /\ ever'[d] \subseteq ever[d]
        /\ \A n \in ever'[d] : n \in Names(db[d]) => n \in Names(db'[d])
        /\ \A e \in Days : e # d => db'[e] = db[e] /\ ever'[e] = ever[e]
    BY <1>2, RemoveIs DEF TypeInv
  <2>3. \A e \in Days : Kept(e) => Kept(e)' BY <2>1, <2>2
  <2> QED BY <2>1, <2>3 DEF TypeInv, TypeOK
<1>3. ASSUME NEW d \in Days, Expire(d) PROVE KeepInv'
  <2>1. UNCHANGED <<doBackup, db, ever, file, bak, res, met>> BY <1>3 DEF Expire
  <2>2. \A e \in Days : /\ avail'[e].known = avail[e].known
                        /\ avail'[e].restored = "recently" => avail[e].restored = "recently"
    BY <1>3 DEF Expire, TypeInv, TypeOK
  <2> QED BY <2>1, <2>2 DEF TypeInv, TypeOK
<1>4. CASE UNCHANGED vars \/ EditTemplate BY <1>4 DEF vars, EditTemplate
<1> QED BY <1>1, <1>2, <1>3, <1>4, KeepBackup, KeepRestore DEF Next

\* Rows that have been restored into a table archived row by row stay there
\* until keep_restore_days are over, unless the application takes them away:
\* whatever rows come late and whatever the temporary files lose, on the days
\* that a backup and a restore have not had in hand together.
THEOREM RestoredRecordsStay == Spec => []RestoredRecordsKept
<1> DEFINE I == TypeInv /\ (entity = "record" => KeepInv)
<1>1. Init => I BY TypeInit, KeepInit
<1>2. I /\ [Next]_vars => I' BY TypeStep, KeepStep, ConfigStays DEF config
<1>3. I => RestoredRecordsKept
  BY DEF KeepInv, KeptDays, Kept, RestoredRecordsKept, RestoredKept
<1> QED BY <1>1, <1>2, <1>3, PTL DEF Spec
==============================================================================
