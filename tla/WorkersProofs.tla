----------------------------- MODULE WorkersProofs -----------------------------
(***************************************************************************)
(* Theorems about Workers, for any number of processes, any length of      *)
(* their lists and any capacity of buferWorkers: its types, that no place  *)
(* in the channel is lost or given twice, that the client of the storage   *)
(* outlives the workers, and that no table of a process is passed over.    *)
(***************************************************************************)
EXTENDS Workers, FiniteSetTheorems, TLAPS

-----------------------------------------------------------------------------
(***************************************************************************)
(* What the steps do to the worker of a table.                             *)
(***************************************************************************)
WorkerType == worker \in [Procs -> [Tables -> WorkerSteps]]

\* Where the worker of table t of p is set to step s, no other worker moves.
Sets(p, t, s) ==
  \A q \in Procs, u \in Tables :
    worker'[q][u] = IF q = p /\ u = t THEN s ELSE worker[q][u]

LEMMA SetWorker ==
  ASSUME WorkerType, NEW p \in Procs, NEW t \in Tables, NEW s \in WorkerSteps,
         worker' = [worker EXCEPT ![p][t] = s]
  PROVE  WorkerType' /\ Sets(p, t, s)
<1>1. worker' = [worker EXCEPT ![p] = [worker[p] EXCEPT ![t] = s]]
  BY DEF WorkerType
<1>2. [worker[p] EXCEPT ![t] = s] \in [Tables -> WorkerSteps]
  BY DEF WorkerType
<1>3. WorkerType' BY <1>1, <1>2 DEF WorkerType
<1>4. \A u \in Tables : worker'[p][u] = IF u = t THEN s ELSE worker[p][u]
  BY <1>1 DEF WorkerType
<1>5. \A q \in Procs \ {p} : worker'[q] = worker[q]
  BY <1>1 DEF WorkerType
<1> QED BY <1>3, <1>4, <1>5 DEF Sets

LEMMA FolderSteps ==
  /\ \A f \in Folders : {Stat[f], Mkdir[f], After[f]} \subseteq Working
  /\ Working \subseteq Holding /\ "release" \in Holding /\ Holding \subseteq WorkerSteps
BY DEF Folders, Stat, Mkdir, After, Working, Holding, WorkerSteps

\* A step of a worker that has its place: it goes on within its work, to its end
\* or gives the place back; folders only grow.
LEMMA WorkerMoves ==
  ASSUME TypeOK, NEW p \in Procs, NEW t \in Tables, WorkStep(p, t)
  PROVE  /\ UNCHANGED <<config, process>>
         /\ \/ /\ worker[p][t] \in Working /\ UNCHANGED slots
               /\ \E s \in Working \cup {"release"} : worker' = [worker EXCEPT ![p][t] = s]
            \/ /\ worker[p][t] = "release" /\ slots' = slots - 1 /\ UNCHANGED folders
               /\ worker' = [worker EXCEPT ![p][t] = "gone"]
<1>1. CASE Save(p, t) BY <1>1 DEF Save, Working, process, config
<1>2. CASE Fail(p, t) BY <1>2 DEF Fail, process, config
<1>3. CASE Release(p, t) BY <1>3 DEF Release, Move, process, config
<1>4. ASSUME NEW f \in Folders, StatFolder(p, t, f)
      PROVE  /\ UNCHANGED <<config, process>> /\ worker[p][t] \in Working /\ UNCHANGED slots
             /\ \E s \in Working \cup {"release"} : worker' = [worker EXCEPT ![p][t] = s]
  BY <1>4, FolderSteps DEF StatFolder, Move, process, config
<1>5. ASSUME NEW f \in Folders, MakeFolder(p, t, f)
      PROVE  /\ UNCHANGED <<config, process>> /\ worker[p][t] \in Working /\ UNCHANGED slots
             /\ \E s \in Working \cup {"release"} : worker' = [worker EXCEPT ![p][t] = s]
  BY <1>5, FolderSteps DEF MakeFolder, Move, process, config
<1> QED BY <1>1, <1>2, <1>3, <1>4, <1>5 DEF WorkStep

-----------------------------------------------------------------------------
(***************************************************************************)
(* The channel.                                                            *)
(***************************************************************************)
LEMMA HoldingFinite == IsFiniteSet(HoldingWorkers)
<1>1. IsFiniteSet(Tables) BY FS_Interval, ProcsAssumption DEF Tables
<1>2. IsFiniteSet(Procs \X Tables) BY <1>1, FS_Product, ProcsAssumption
<1>3. HoldingWorkers \in SUBSET (Procs \X Tables) BY DEF HoldingWorkers
<1> QED BY ONLY <1>2, <1>3, FS_Subset

LEMMA InHolding ==
  \A p \in Procs, t \in Tables : <<p, t>> \in HoldingWorkers <=> worker[p][t] \in Holding
BY DEF HoldingWorkers

\* A worker that moves within its work keeps its place.
LEMMA HoldingKept ==
  ASSUME NEW p \in Procs, NEW t \in Tables, NEW s \in Holding,
         worker[p][t] \in Holding, Sets(p, t, s)
  PROVE  HoldingWorkers' = HoldingWorkers
BY DEF HoldingWorkers, Sets

LEMMA HoldingAdded ==
  ASSUME NEW p \in Procs, NEW t \in Tables, NEW s \in Holding, Sets(p, t, s)
  PROVE  HoldingWorkers' = HoldingWorkers \cup {<<p, t>>}
BY DEF HoldingWorkers, Sets

LEMMA HoldingRemoved ==
  ASSUME NEW p \in Procs, NEW t \in Tables, NEW s, s \notin Holding, Sets(p, t, s)
  PROVE  HoldingWorkers' = HoldingWorkers \ {<<p, t>>}
BY DEF HoldingWorkers, Sets

-----------------------------------------------------------------------------
(***************************************************************************)
(* Types and places.  slots - 1 is a number of places because a worker     *)
(* that releases one holds one, so the two invariants are proved together. *)
(***************************************************************************)
SlotsInv == TypeOK /\ SlotsConserved

LEMMA SlotsInit == Init => SlotsInv
<1> SUFFICES ASSUME Init PROVE SlotsInv OBVIOUS
<1>1. TypeOK
  BY ProcsAssumption, LimitsAssumption, NetworksAssumption
     DEF Init, TypeOK, ProcSteps, WorkerSteps, Folders, Tables
<1>2. HoldingWorkers = {}
  BY DEF Init, HoldingWorkers, Holding, Working
<1> QED BY <1>1, <1>2, FS_EmptySet DEF SlotsInv, SlotsConserved, Init

\* Steps of a process that start no worker and end none.
LEMMA LoopTypes ==
  ASSUME TypeOK, NEW p \in Procs,
         \/ \E k \in {"backup", "restore"}, n \in Tables : Begin(p, k, n)
         \/ Cancel(p) \/ NextTable(p) \/ LoopEnds(p)
  PROVE  TypeOK' /\ UNCHANGED <<slots, worker>>
<1> USE DEF TypeOK, config, Goto, ProcSteps
<1>1. ASSUME NEW k \in {"backup", "restore"}, NEW n \in Tables, Begin(p, k, n)
      PROVE  TypeOK' /\ UNCHANGED <<slots, worker>>
  BY <1>1 DEF Begin, Tables
<1>2. CASE Cancel(p)    BY <1>2 DEF Cancel
<1>3. CASE NextTable(p) BY <1>3 DEF NextTable
<1>4. CASE LoopEnds(p)  BY <1>4 DEF LoopEnds
<1> QED BY <1>1, <1>2, <1>3, <1>4

LEMMA AcquireStep == ASSUME SlotsInv, NEW p \in Procs, Acquire(p) PROVE SlotsInv'
<1> DEFINE t == next[p]
           s == IF kind[p] = "backup" THEN "statSchema" ELSE "read"
<1>1. t \in Tables /\ s \in Holding /\ s \in WorkerSteps
  <2>1. next[p] \in 1..(MaxTables + 1) /\ next[p] <= list[p] /\ list[p] \in 0..MaxTables
    BY DEF SlotsInv, TypeOK, Acquire, Goto
  <2>2. t \in Tables BY <2>1, ProcsAssumption DEF Tables
  <2>3. s \in {"statSchema", "read"} OBVIOUS
  <2> QED BY <2>2, <2>3 DEF WorkerSteps, Holding, Working
<1>2. WorkerType' /\ Sets(p, t, s)
  <2>1. worker' = [worker EXCEPT ![p][t] = s] BY DEF Acquire, StartWorker
  <2> QED BY <1>1, <2>1, SetWorker DEF SlotsInv, TypeOK, WorkerType
<1>3. worker[p][t] \notin Holding
  <2>1. ~(t < next[p]) BY <1>1, ProcsAssumption DEF Tables
  <2>2. worker[p][t] = "none" BY <1>1, <2>1 DEF SlotsInv, TypeOK
  <2> QED BY <2>2 DEF Holding, Working
<1> HIDE DEF t, s
<1>4. slots' = Cardinality(HoldingWorkers')
  <2>1. HoldingWorkers' = HoldingWorkers \cup {<<p, t>>} BY <1>1, <1>2, HoldingAdded
  <2>2. <<p, t>> \notin HoldingWorkers BY <1>1, <1>3, InHolding
  <2>3. Cardinality(HoldingWorkers') = Cardinality(HoldingWorkers) + 1
    BY <2>1, <2>2, HoldingFinite, FS_AddElement
  <2> QED BY <2>3 DEF SlotsInv, SlotsConserved, Acquire, StartWorker
<1> USE DEF t
<1>5. TypeOK'
  <2>1. slots' \in 0..limit' /\ limit' \in Limits /\ network' \in Networks /\ folders' \subseteq Folders
    BY LimitsAssumption DEF Acquire, StartWorker, SlotsInv, TypeOK, config
  <2>2. /\ at' \in [Procs -> ProcSteps] /\ kind' \in [Procs -> {"backup", "restore"}]
        /\ cancelled' \in [Procs -> BOOLEAN] /\ list' \in [Procs -> 0..MaxTables]
        /\ producer' \in [Procs -> {"open", "closed"}]
    BY DEF Acquire, StartWorker, SlotsInv, TypeOK, Goto, ProcSteps
  <2>3. next' \in [Procs -> 1..(MaxTables + 1)]
    BY <1>1, ProcsAssumption DEF Acquire, StartWorker, SlotsInv, TypeOK, Tables
  <2>4. \A q \in Procs : at'[q] = "acquire" => next'[q] <= list'[q]
    BY DEF Acquire, StartWorker, SlotsInv, TypeOK, Goto
  <2>5. \A q \in Procs, u \in Tables : worker'[q][u] # "none" => u < next'[q]
    BY <1>1, <1>2 DEF Sets, Acquire, StartWorker, SlotsInv, TypeOK, Tables
  <2> QED BY <1>2, <2>1, <2>2, <2>3, <2>4, <2>5 DEF TypeOK, WorkerType
<1> QED BY <1>4, <1>5 DEF SlotsInv, SlotsConserved

LEMMA WaitStep ==
  ASSUME SlotsInv, NEW p \in Procs, Wait(p)
  PROVE  /\ SlotsInv' /\ HoldingWorkers' = HoldingWorkers
         /\ \A q \in Procs, u \in Tables :
              worker'[q][u] = IF q = p THEN "none" ELSE worker[q][u]
<1> USE DEF Wait, Return, Goto, SlotsInv, TypeOK, config
<1>1. \A u \in Tables : worker[p][u] \in {"none", "gone"}
  BY DEF WorkerSteps
<1>2. /\ worker' \in [Procs -> [Tables -> WorkerSteps]]
      /\ \A q \in Procs, u \in Tables :
           worker'[q][u] = IF q = p THEN "none" ELSE worker[q][u]
  <2> DEFINE idle == [t \in Tables |-> IF worker[p][t] = "gone" THEN "none" ELSE worker[p][t]]
  <2>1. idle \in [Tables -> WorkerSteps] /\ \A u \in Tables : idle[u] = "none"
    BY <1>1 DEF WorkerSteps
  <2>2. worker' = [worker EXCEPT ![p] = idle] OBVIOUS
  <2> QED BY <2>1, <2>2
<1>3. HoldingWorkers' = HoldingWorkers
  BY <1>1, <1>2 DEF HoldingWorkers, Holding, Working
<1>4. TypeOK'
  <2>1. /\ at' \in [Procs -> ProcSteps] /\ kind' \in [Procs -> {"backup", "restore"}]
        /\ cancelled' \in [Procs -> BOOLEAN] /\ list' \in [Procs -> 0..MaxTables]
        /\ producer' \in [Procs -> {"open", "closed"}] /\ next' \in [Procs -> 1..(MaxTables + 1)]
    BY ProcsAssumption DEF ProcSteps
  <2>2. \A q \in Procs : at'[q] = "acquire" => next'[q] <= list'[q]
    OBVIOUS
  <2>3. \A q \in Procs, u \in Tables : worker'[q][u] # "none" => u < next'[q]
    BY <1>2
  <2> QED BY <1>2, <2>1, <2>2, <2>3
<1> QED BY <1>2, <1>3, <1>4 DEF SlotsConserved

LEMMA WorkStepSlots ==
  ASSUME SlotsInv, NEW p \in Procs, NEW t \in Tables, WorkStep(p, t)
  PROVE  SlotsInv'
<1>1. WorkerType BY DEF SlotsInv, TypeOK, WorkerType
<1>2. UNCHANGED <<config, process>> BY WorkerMoves DEF SlotsInv
<1>3. folders' \subseteq Folders
  BY DEF WorkStep, Save, Fail, Release, StatFolder, MakeFolder, SlotsInv, TypeOK
<1>4. ASSUME NEW s \in WorkerSteps, worker' = [worker EXCEPT ![p][t] = s],
             worker[p][t] # "none", slots' \in 0..limit
      PROVE  TypeOK'
  <2>1. WorkerType' /\ Sets(p, t, s) BY <1>1, <1>4, SetWorker
  <2> QED BY <1>2, <1>3, <1>4, <2>1
          DEF SlotsInv, TypeOK, WorkerType, Sets, config, process
<1>5. CASE worker[p][t] \in Working
  <2>1. PICK s \in Working \cup {"release"} :
          UNCHANGED slots /\ worker' = [worker EXCEPT ![p][t] = s]
    BY <1>5, WorkerMoves DEF SlotsInv, Working
  <2>2. s \in Holding /\ s \in WorkerSteps /\ worker[p][t] \in Holding /\ worker[p][t] # "none"
    BY <1>5, FolderSteps DEF Working
  <2>3. HoldingWorkers' = HoldingWorkers BY <1>1, <2>1, <2>2, SetWorker, HoldingKept
  <2>4. TypeOK' BY <1>4, <2>1, <2>2 DEF SlotsInv, TypeOK
  <2> QED BY <2>1, <2>3, <2>4 DEF SlotsInv, SlotsConserved
<1>6. CASE worker[p][t] = "release"
  <2>1. slots' = slots - 1 /\ worker' = [worker EXCEPT ![p][t] = "gone"]
    BY <1>6, WorkerMoves DEF SlotsInv, Working
  <2>2. "gone" \in WorkerSteps /\ "gone" \notin Holding BY DEF WorkerSteps, Holding, Working
  <2>3. HoldingWorkers' = HoldingWorkers \ {<<p, t>>}
    BY <1>1, <2>1, <2>2, SetWorker, HoldingRemoved
  <2>4. <<p, t>> \in HoldingWorkers BY <1>6, InHolding, FolderSteps
  <2>5. Cardinality(HoldingWorkers') = Cardinality(HoldingWorkers) - 1
    BY <2>3, <2>4, HoldingFinite, FS_RemoveElement
  <2>6. Cardinality(HoldingWorkers') \in Nat
    BY <2>3, HoldingFinite, FS_RemoveElement, FS_CardinalityType
  <2>7. slots' = Cardinality(HoldingWorkers') /\ slots' \in 0..limit
    BY <2>1, <2>5, <2>6, LimitsAssumption DEF SlotsInv, SlotsConserved, TypeOK
  <2>8. TypeOK' BY <1>4, <1>6, <2>1, <2>2, <2>7
  <2> QED BY <2>7, <2>8 DEF SlotsInv, SlotsConserved
<1> QED BY <1>5, <1>6, WorkerMoves DEF SlotsInv

LEMMA SlotsStep == SlotsInv /\ [Next]_vars => SlotsInv'
<1> SUFFICES ASSUME SlotsInv, [Next]_vars PROVE SlotsInv' OBVIOUS
<1>1. ASSUME NEW p \in Procs,
             \/ \E k \in {"backup", "restore"}, n \in Tables : Begin(p, k, n)
             \/ Cancel(p) \/ NextTable(p) \/ LoopEnds(p)
      PROVE  SlotsInv'
  <2>1. TypeOK' /\ UNCHANGED <<slots, worker>> BY <1>1, LoopTypes DEF SlotsInv
  <2> QED BY <2>1 DEF SlotsInv, SlotsConserved, HoldingWorkers
<1>2. ASSUME NEW p \in Procs, Acquire(p) PROVE SlotsInv' BY <1>2, AcquireStep
<1>3. ASSUME NEW p \in Procs, Wait(p) PROVE SlotsInv' BY <1>3, WaitStep
<1>4. ASSUME NEW p \in Procs, NEW t \in Tables, WorkStep(p, t) PROVE SlotsInv'
  BY <1>4, WorkStepSlots
<1>5. CASE Hung \/ UNCHANGED vars
  BY <1>5 DEF Hung, vars, config, process, SlotsInv, TypeOK, SlotsConserved, HoldingWorkers
<1> QED BY <1>1, <1>2, <1>3, <1>4, <1>5 DEF Next, ProcStep

LEMMA SlotsInvariant == Spec => []SlotsInv
<1> QED BY SlotsInit, SlotsStep, PTL DEF Spec

\* Every variable keeps its type; buferWorkers never holds more than its
\* capacity nor less than nothing, and a worker is in a place of the list that
\* the loop has passed.
THEOREM TypeCorrect == Spec => []TypeOK
<1>1. SlotsInv => TypeOK BY DEF SlotsInv
<1> QED BY <1>1, SlotsInvariant, PTL

\* The elements of buferWorkers are exactly the workers that have not come to
\* their deferred receive, on whichever return of backupWorker or restoreWorker.
THEOREM NoPlaceLost == Spec => []SlotsConserved
<1>1. SlotsInv => SlotsConserved BY DEF SlotsInv
<1> QED BY <1>1, SlotsInvariant, PTL

-----------------------------------------------------------------------------
(***************************************************************************)
(* The client of the storage, and the tables of a process.  Both rest on   *)
(* what a process has done at each point of its loop: its client is open   *)
(* from Begin to Return, its workers belong to the tables it has passed,   *)
(* and it leaves the loop uncancelled only at the end of its list.         *)
(***************************************************************************)
Client == \A p \in Procs : at[p] # "idle" => producer[p] = "open"

Passed ==
  \A p \in Procs, t \in Tables :
    /\ worker[p][t] # "none" => at[p] # "idle"
    /\ t < next[p] => worker[p][t] # "none"

Finished == \A p \in Procs : at[p] = "wait" /\ ~cancelled[p] => next[p] > list[p]

LoopInv == SlotsInv /\ Client /\ Passed /\ Finished

LEMMA LoopInit == Init => LoopInv
<1> SUFFICES ASSUME Init PROVE LoopInv OBVIOUS
<1>1. SlotsInv BY SlotsInit
<1>2. Client /\ Finished BY DEF Init, Client, Finished
<1>3. Passed BY DEF Init, Passed, Tables
<1> QED BY <1>1, <1>2, <1>3 DEF LoopInv

\* The steps of a process that leave its workers alone.
LEMMA LoopOther ==
  ASSUME LoopInv, SlotsInv', NEW p \in Procs,
         \/ \E k \in {"backup", "restore"}, n \in Tables : Begin(p, k, n)
         \/ Cancel(p) \/ NextTable(p) \/ LoopEnds(p)
  PROVE  LoopInv'
<1> USE DEF LoopInv, SlotsInv, TypeOK, Goto
<1>1. UNCHANGED <<worker, next>>
  BY DEF Begin, Cancel, NextTable, LoopEnds
<1>2. Passed'
  BY <1>1 DEF Passed, Begin, Cancel, NextTable, LoopEnds
<1>3. Client'
  BY DEF Client, Begin, Cancel, NextTable, LoopEnds
<1>4. Finished'
  BY DEF Finished, Begin, Cancel, NextTable, LoopEnds
<1> QED BY <1>2, <1>3, <1>4

LEMMA LoopAcquire ==
  ASSUME LoopInv, SlotsInv', NEW p \in Procs, Acquire(p)
  PROVE  LoopInv'
<1> DEFINE t == next[p]
           s == IF kind[p] = "backup" THEN "statSchema" ELSE "read"
<1>1. t \in Tables
  BY ProcsAssumption DEF LoopInv, SlotsInv, TypeOK, Acquire, Goto, Tables
<1>2. Sets(p, t, s) /\ s # "none"
  <2>1. s \in WorkerSteps /\ s # "none" BY DEF WorkerSteps, Holding, Working
  <2>2. worker' = [worker EXCEPT ![p][t] = s] BY DEF Acquire, StartWorker
  <2> QED BY <1>1, <2>1, <2>2, SetWorker DEF LoopInv, SlotsInv, TypeOK, WorkerType
<1>3. /\ at[p] = "acquire" /\ UNCHANGED <<producer, cancelled, list>>
      /\ at' = [at EXCEPT ![p] = "select"] /\ next' = [next EXCEPT ![p] = t + 1]
  BY DEF Acquire, StartWorker, Goto
<1> HIDE DEF s
<1>4. Client' BY <1>3 DEF Client, LoopInv, SlotsInv, TypeOK
<1>5. Finished' BY <1>3 DEF Finished, LoopInv, SlotsInv, TypeOK
<1>6. Passed'
  <2> SUFFICES ASSUME NEW q \in Procs, NEW u \in Tables
               PROVE  /\ worker'[q][u] # "none" => at'[q] # "idle"
                      /\ u < next'[q] => worker'[q][u] # "none"
    BY DEF Passed
  <2>1. CASE q = p
    BY <1>1, <1>2, <1>3, <2>1 DEF Sets, Passed, LoopInv, SlotsInv, TypeOK, Tables
  <2>2. CASE q # p
    BY <1>2, <1>3, <2>2 DEF Sets, Passed, LoopInv, SlotsInv, TypeOK
  <2> QED BY <2>1, <2>2
<1> QED BY <1>4, <1>5, <1>6 DEF LoopInv

LEMMA LoopWait ==
  ASSUME LoopInv, SlotsInv', NEW p \in Procs, Wait(p)
  PROVE  LoopInv'
<1>1. \A q \in Procs, u \in Tables :
        worker'[q][u] = IF q = p THEN "none" ELSE worker[q][u]
  BY WaitStep DEF LoopInv
<1>2. /\ at' = [at EXCEPT ![p] = "idle"] /\ next' = [next EXCEPT ![p] = 1]
      /\ producer' = [producer EXCEPT ![p] = "closed"]
      /\ cancelled' = [cancelled EXCEPT ![p] = FALSE] /\ list' = [list EXCEPT ![p] = 0]
  BY DEF Wait, Return, Goto
<1>3. Client' BY <1>2 DEF Client, LoopInv, SlotsInv, TypeOK
<1>4. Finished' BY <1>2 DEF Finished, LoopInv, SlotsInv, TypeOK
<1>5. Passed' BY <1>1, <1>2 DEF Passed, LoopInv, SlotsInv, TypeOK, Tables
<1> QED BY <1>3, <1>4, <1>5 DEF LoopInv

LEMMA LoopWork ==
  ASSUME LoopInv, SlotsInv', NEW p \in Procs, NEW t \in Tables, WorkStep(p, t)
  PROVE  LoopInv'
<1>1. TypeOK /\ WorkerType BY DEF LoopInv, SlotsInv, TypeOK, WorkerType
<1>2. UNCHANGED process BY <1>1, WorkerMoves
<1>3. worker[p][t] # "none"
  BY <1>1, WorkerMoves DEF Working
<1>4. PICK s \in WorkerSteps \ {"none"} : worker' = [worker EXCEPT ![p][t] = s]
  <2>1. Working \cup {"release", "gone"} \subseteq WorkerSteps \ {"none"}
    BY DEF Working, WorkerSteps, Holding
  <2> QED BY <1>1, <2>1, WorkerMoves
<1>5. Sets(p, t, s) BY <1>1, <1>4, SetWorker
<1>6. Client' /\ Finished' BY <1>2 DEF LoopInv, Client, Finished, process
<1>7. Passed' BY <1>2, <1>3, <1>5 DEF LoopInv, Passed, Sets, process
<1> QED BY <1>6, <1>7 DEF LoopInv

LEMMA LoopStep == LoopInv /\ [Next]_vars => LoopInv'
<1> SUFFICES ASSUME LoopInv, [Next]_vars PROVE LoopInv' OBVIOUS
<1>1. SlotsInv' BY SlotsStep DEF LoopInv
<1>2. ASSUME NEW p \in Procs,
             \/ \E k \in {"backup", "restore"}, n \in Tables : Begin(p, k, n)
             \/ Cancel(p) \/ NextTable(p) \/ LoopEnds(p)
      PROVE  LoopInv'
  BY <1>1, <1>2, LoopOther
<1>3. ASSUME NEW p \in Procs, Acquire(p) PROVE LoopInv' BY <1>1, <1>3, LoopAcquire
<1>4. ASSUME NEW p \in Procs, Wait(p) PROVE LoopInv' BY <1>1, <1>4, LoopWait
<1>5. ASSUME NEW p \in Procs, NEW t \in Tables, WorkStep(p, t) PROVE LoopInv'
  BY <1>1, <1>5, LoopWork
<1>6. CASE Hung \/ UNCHANGED vars
  BY <1>1, <1>6 DEF Hung, vars, process, LoopInv, Client, Passed, Finished
<1> QED BY <1>2, <1>3, <1>4, <1>5, <1>6 DEF Next, ProcStep

LEMMA LoopInvariant == Spec => []LoopInv
<1> QED BY LoopInit, LoopStep, PTL DEF Spec

\* The deferred producer.Close() of a process comes after the last call of its
\* workers, cancelled or not.
THEOREM ClientOutlivesWorkers == Spec => []ProducerOpen
<1>1. LoopInv => ProducerOpen
  BY DEF LoopInv, Client, Passed, ProducerOpen, Working
<1> QED BY <1>1, LoopInvariant, PTL

\* A process that nobody cancels hands every table of its list to a worker, for
\* any capacity of the channel and any number of rivals for it.
THEOREM NoTablePassedOver == Spec => []TablesServed
<1>1. LoopInv => TablesServed
  <2> SUFFICES ASSUME LoopInv, NEW p \in Procs, at[p] = "wait", ~cancelled[p],
                      NEW t \in 1..list[p]
               PROVE  worker[p][t] # "none"
    BY DEF TablesServed
  <2>1. t \in Tables /\ t < next[p]
    BY ProcsAssumption DEF LoopInv, Finished, SlotsInv, TypeOK, Tables
  <2> QED BY <2>1 DEF LoopInv, Passed
<1> QED BY <1>1, LoopInvariant, PTL

================================================================================
