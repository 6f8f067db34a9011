--------------------------- MODULE ProcessesProofs ---------------------------
(***************************************************************************)
(* Theorems about Processes, for any set of data types, any starts, any    *)
(* number of processes and any bound on reloads: its types, that no entry  *)
(* of the process table is left behind, that a start respects whoever was  *)
(* in the table when it came, that the state word says RELOAD only during  *)
(* a reload, and the word of an idle service.                              *)
(***************************************************************************)
EXTENDS Processes, TLAPS

-----------------------------------------------------------------------------
(***************************************************************************)
(* Type correctness.                                                       *)
(***************************************************************************)
LEMMA TypeInit == Init => TypeOK
BY MainAssumption, ReloadsAssumption
   DEF Init, TypeOK, Threads, ServiceStates, ProcSteps, MainSteps, Kinds, None, NoJob, Jobs

LEMMA ProcStepTypes ==
  ASSUME TypeOK, NEW p \in Procs, ProcStep(p)
  PROVE  TypeOK'
<1> p # Main BY MainAssumption
<1> USE DEF TypeOK, Threads, Goto, StepOnly, Table, Clearing, ProcSteps, InAdmission, InProgress
<1>1. CASE Load(p)        BY <1>1 DEF Load
<1>2. CASE WaitReload(p)  BY <1>2 DEF WaitReload
<1>3. CASE Check(p)       BY <1>3 DEF Check
<1>4. CASE Register(p)    BY <1>4 DEF Register
<1>5. CASE SayActive(p)   BY <1>5 DEF SayActive, Assign, ServiceStates
<1>6. CASE Unregister(p)  BY <1>6 DEF Unregister, Follow
<1>7. CASE Finish(p)      BY <1>7 DEF Finish, ServiceStates
<1> QED BY <1>1, <1>2, <1>3, <1>4, <1>5, <1>6, <1>7 DEF ProcStep

LEMMA MainStepTypes ==
  ASSUME TypeOK, MainStep \/ ReceiveReload \/ ReceiveStop
  PROVE  TypeOK'
<1> Main \notin Procs BY MainAssumption
<1> USE DEF TypeOK, Threads, Goto, StepOnly, Table, Clearing, MainSteps, Reloading, ServiceStates
<1>1. CASE Boot              BY <1>1 DEF Boot, Assign
<1>2. CASE StartDispatchers  BY <1>2 DEF StartDispatchers, Dispatchers
<1>3. CASE ReceiveReload     BY <1>3, ReloadsAssumption DEF ReceiveReload
<1>4. CASE SayReload         BY <1>4 DEF SayReload, Assign
<1>5. CASE Reschedule        BY <1>5 DEF Reschedule, Dispatchers
<1>6. CASE SayOldState       BY <1>6 DEF SayOldState, Assign
<1>7. CASE RestartDispatcher BY <1>7 DEF RestartDispatcher, Dispatchers
<1>8. CASE ReceiveStop       BY <1>8 DEF ReceiveStop
<1>9. CASE SayStopped        BY <1>9 DEF SayStopped, Assign
<1>10. CASE Cancel           BY <1>10 DEF Cancel
<1>11. CASE Exit             BY <1>11 DEF Exit
<1> QED BY <1>1, <1>2, <1>3, <1>4, <1>5, <1>6, <1>7, <1>8, <1>9, <1>10, <1>11 DEF MainStep

LEMMA TypeStep == TypeOK /\ [Next]_vars => TypeOK'
<1> SUFFICES ASSUME TypeOK, [Next]_vars PROVE TypeOK' OBVIOUS
<1>1. ASSUME NEW d \in Dispatchers, NEW p \in Procs, NEW j \in Starts, Spawn(d, p, j)
      PROVE  TypeOK'
  <2> p # Main BY MainAssumption
  <2> j \in Jobs /\ j # NoJob BY StartsAssumption DEF Jobs, NoJob, Kinds, None
  <2> QED BY <1>1 DEF Spawn, TypeOK, Threads, ProcSteps, InAdmission, Registered, Clearing
<1>2. ASSUME NEW d \in Dispatchers, Quit(d) PROVE TypeOK'
  BY <1>2 DEF Quit, TypeOK, Table, Clearing
<1>3. ASSUME NEW p \in Procs, ProcStep(p) PROVE TypeOK'
  BY <1>3, ProcStepTypes
<1>4. CASE MainStep \/ ReceiveReload \/ ReceiveStop
  BY <1>4, MainStepTypes
<1>5. CASE ClearStep
  BY <1>5 DEF ClearStep, ClearStart, ClearOne, Follow, TypeOK, Table
<1>6. CASE UNCHANGED vars
  BY <1>6 DEF vars, TypeOK
<1> QED BY <1>1, <1>2, <1>3, <1>4, <1>5, <1>6 DEF Next, Terminated

\* Every variable keeps the type its declaration in the code gives it, and a
\* goroutine has a *process exactly from its start to its end.
THEOREM TypeCorrect == Spec => []TypeOK
<1> QED BY TypeInit, TypeStep, PTL DEF Spec

-----------------------------------------------------------------------------
(***************************************************************************)
(* The process table.                                                      *)
(***************************************************************************)

\* The control loop and the dispatchers touch neither the table nor a process.
LEMMA ControlLeavesTable ==
  ASSUME TypeOK, MainStep \/ ReceiveReload \/ ReceiveStop \/ (\E d \in Dispatchers : Quit(d))
  PROVE  /\ UNCHANGED <<processes, job, seen>>
         /\ \A p \in Procs : pc'[p] = pc[p]
<1> Main \notin Procs BY MainAssumption
<1> QED BY DEF TypeOK, Threads, Goto, MainStep, Boot, StartDispatchers, ReceiveReload, SayReload,
       Reschedule, SayOldState, RestartDispatcher, ReceiveStop, SayStopped, Cancel, Exit,
       Assign, StepOnly, Table, Quit

LEMMA OwnedStep ==
  TypeOK /\ RegistrationOwned /\ [Next]_vars => RegistrationOwned'
<1> SUFFICES ASSUME TypeOK, RegistrationOwned, [Next]_vars PROVE RegistrationOwned'
  OBVIOUS
<1> Main \notin Procs BY MainAssumption
<1> USE DEF TypeOK, Threads, Goto, InProgress, RegistrationOwned, Table
<1>1. ASSUME NEW d \in Dispatchers, NEW p \in Procs, NEW j \in Starts, Spawn(d, p, j)
      PROVE  RegistrationOwned'
  BY <1>1 DEF Spawn
<1>2. ASSUME NEW p \in Procs, ProcStep(p) PROVE RegistrationOwned'
  <2>1. CASE Register(p)
    BY <2>1 DEF Register
  <2>2. CASE Unregister(p)
    BY <2>2 DEF Unregister
  <2>3. CASE Load(p) \/ WaitReload(p) \/ Check(p) \/ SayActive(p)
    BY <2>3 DEF Load, WaitReload, Check, StepOnly, SayActive, Assign
  <2>4. CASE Finish(p)
    BY <2>4 DEF Finish
  <2> QED BY <1>2, <2>1, <2>2, <2>3, <2>4 DEF ProcStep
<1>3. CASE MainStep \/ ReceiveReload \/ ReceiveStop \/ (\E d \in Dispatchers : Quit(d))
  BY <1>3, ControlLeavesTable
<1>4. CASE ClearStep
  BY <1>4 DEF ClearStep, ClearStart, ClearOne
<1>5. CASE UNCHANGED vars
  BY <1>5 DEF vars
<1> QED BY <1>1, <1>2, <1>3, <1>4, <1>5 DEF Next, Terminated

\* No process leaves its entry in s.processes behind, on whichever return of
\* backupProcess or restoreProcess it ends.
THEOREM RegistrationsOwned == Spec => []RegistrationOwned
<1>1. Init => RegistrationOwned
  BY DEF Init, RegistrationOwned
<1> QED BY <1>1, OwnedStep, TypeCorrect, PTL DEF Spec

(***************************************************************************)
(* Of the processes that were in the table when p came and have stayed,    *)
(* p learns one thing at its Load, that none works on its data type, and   *)
(* another at its check, that none is of the other kind.                   *)
(***************************************************************************)
Loaded  == {"wait", "check", "store"} \cup InProgress
Checked == {"store"} \cup InProgress

SeenInv ==
  \A p \in Procs : \A q \in seen[p] :
    /\ processes[job[q].id] = q
    /\ job[q] \in Jobs
    /\ pc[q] \in InProgress
    /\ pc[p] \in Loaded  => job[q].id # job[p].id
    /\ pc[p] \in Checked => job[q].kind = job[p].kind

\* Whoever is in the table is in progress, and under the id it works on.
LEMMA RegisteredInPlace ==
  ASSUME TypeOK, RegistrationOwned, NEW q \in Registered
  PROVE  /\ q \in Procs
         /\ pc[q] \in InProgress
         /\ job[q] \in Jobs
         /\ processes[job[q].id] = q
<1>1. PICK k \in Ids : processes[k] = q BY DEF Registered
<1>2. q \in Procs BY DEF Registered
<1>3. q # None => pc[q] \in InProgress /\ job[q].id = k
  BY <1>1 DEF RegistrationOwned
<1>4. q # None
  BY <1>1, <1>2, NoneAssumption
<1> QED BY <1>1, <1>2, <1>3, <1>4 DEF TypeOK, InProgress

LEMMA SeenSpawn ==
  ASSUME TypeOK, RegistrationOwned, SeenInv,
         NEW d \in Dispatchers, NEW p \in Procs, NEW j \in Starts, Spawn(d, p, j)
  PROVE  SeenInv'
<1> SUFFICES ASSUME NEW o \in Procs, NEW q \in seen'[o]
             PROVE  /\ processes'[job'[q].id] = q
                    /\ job'[q] \in Jobs
                    /\ pc'[q] \in InProgress
                    /\ pc'[o] \in Loaded  => job'[q].id # job'[o].id
                    /\ pc'[o] \in Checked => job'[q].kind = job'[o].kind
  BY DEF SeenInv
<1> USE DEF Spawn, TypeOK, Threads, InProgress, Loaded, Checked
<1>1. CASE o = p
  <2>1. q \in Registered BY <1>1
  <2>2. q # p BY <2>1, RegisteredInPlace
  <2> QED BY <1>1, <2>1, <2>2, RegisteredInPlace
<1>2. CASE o # p
  <2>1. q \in seen[o] /\ q \in Procs BY <1>2
  <2>2. q # p BY <2>1 DEF SeenInv
  <2> QED BY <1>2, <2>1, <2>2 DEF SeenInv
<1> QED BY <1>1, <1>2

\* The table only loses followed entries to processes that stop being followed.
LEMMA SeenTable ==
  ASSUME TypeOK, RegistrationOwned, SeenInv, NEW p \in Procs, Register(p) \/ Unregister(p)
  PROVE  SeenInv'
<1> USE DEF TypeOK, Threads, Goto, InProgress, Loaded, Checked
<1> p # Main BY MainAssumption
<1>1. CASE Register(p)
  <2> SUFFICES ASSUME NEW o \in Procs, NEW q \in seen'[o]
               PROVE  /\ processes'[job'[q].id] = q
                      /\ job'[q] \in Jobs
                      /\ pc'[q] \in InProgress
                      /\ pc'[o] \in Loaded  => job'[q].id # job'[o].id
                      /\ pc'[o] \in Checked => job'[q].kind = job'[o].kind
    BY DEF SeenInv
  <2>1. q \in seen[o] /\ q \in Procs /\ q # p
    BY <1>1 DEF Register, SeenInv
  <2>2. job[q].id \in Ids /\ processes[job[q].id] = q
    BY <2>1 DEF SeenInv, Jobs
  <2>3. processes'[job[q].id] = q
    <3>1. CASE o = p
      BY <1>1, <2>1, <2>2, <3>1 DEF Register, SeenInv
    <3>2. CASE o # p
      <4>1. PICK k \in Ids : processes'[k] = q
        BY <1>1, <3>2 DEF Register, Registered
      <4>2. processes[k] = q /\ k # job[p].id
        BY <1>1, <2>1, <4>1 DEF Register
      <4>3. job[q].id = k
        BY <2>1, <4>2, NoneAssumption DEF RegistrationOwned
      <4> QED BY <4>1, <4>3
    <3> QED BY <3>1, <3>2
  <2> QED BY <1>1, <2>1, <2>3 DEF Register, SeenInv
<1>2. CASE Unregister(p)
  <2> SUFFICES ASSUME NEW o \in Procs, NEW q \in seen'[o]
               PROVE  /\ processes'[job'[q].id] = q
                      /\ job'[q] \in Jobs
                      /\ pc'[q] \in InProgress
                      /\ pc'[o] \in Loaded  => job'[q].id # job'[o].id
                      /\ pc'[o] \in Checked => job'[q].kind = job'[o].kind
    BY DEF SeenInv
  <2>1. q \in seen[o] /\ q \in Procs
    BY <1>2 DEF Unregister, Follow
  <2>2. PICK k \in Ids : processes'[k] = q
    BY <1>2 DEF Unregister, Follow, Registered
  <2>3. k # job[p].id /\ processes[k] = q /\ job[q].id = k
    BY <1>2, <2>1, <2>2, NoneAssumption DEF Unregister, RegistrationOwned
  <2>4. q # p BY <2>3
  <2> QED BY <1>2, <2>1, <2>2, <2>3, <2>4 DEF Unregister, SeenInv
<1> QED BY <1>1, <1>2

\* Load and the check are where p learns of the processes it follows.
LEMMA SeenOtherSteps ==
  ASSUME TypeOK, RegistrationOwned, SeenInv,
         NEW p \in Procs, ProcStep(p), ~Register(p), ~Unregister(p)
  PROVE  SeenInv'
<1> USE DEF TypeOK, Threads, Goto, InProgress, Loaded, Checked
<1> p # Main BY MainAssumption
<1>1. CASE Load(p)
  <2>1. \A q \in seen[p] : processes[job[p].id] = None => job[q].id # job[p].id
    BY NoneAssumption DEF SeenInv
  <2> QED BY <1>1, <2>1 DEF Load, StepOnly, Table, SeenInv
<1>2. CASE WaitReload(p)
  BY <1>2 DEF WaitReload, StepOnly, Table, SeenInv
<1>3. CASE Check(p)
  <2>1. \A q \in seen[p] : ~isActiveProcess(Rival(job[p].kind)) => job[q].kind # Rival(job[p].kind)
    BY NoneAssumption DEF SeenInv, isActiveProcess, Jobs
  <2>2. \A q \in seen[p] : job[q].kind \in Kinds
    BY DEF SeenInv, Jobs
  <2>3. pc[p] = "check" => job[p].kind \in Kinds
    BY DEF Jobs
  <2> QED BY <1>3, <2>1, <2>2, <2>3 DEF Check, StepOnly, Table, SeenInv, Rival, Kinds
<1>4. CASE SayActive(p)
  BY <1>4 DEF SayActive, Assign, Table, SeenInv
<1>5. CASE Finish(p)
  <2>1. \A o \in Procs : p \notin seen[o]
    BY <1>5 DEF Finish, SeenInv
  <2> QED BY <1>5, <2>1 DEF Finish, SeenInv
<1> QED BY <1>1, <1>2, <1>3, <1>4, <1>5 DEF ProcStep

LEMMA SeenClear ==
  ASSUME TypeOK, RegistrationOwned, SeenInv, NEW k \in Ids, ClearOne(k)
  PROVE  SeenInv'
<1> SUFFICES ASSUME NEW o \in Procs, NEW q \in seen'[o]
             PROVE  /\ processes'[job'[q].id] = q
                    /\ job'[q] \in Jobs
                    /\ pc'[q] \in InProgress
                    /\ pc'[o] \in Loaded  => job'[q].id # job'[o].id
                    /\ pc'[o] \in Checked => job'[q].kind = job'[o].kind
  BY DEF SeenInv
<1> USE DEF TypeOK, Threads
<1>1. q \in seen[o] /\ q \in Procs
  BY DEF ClearOne, Follow
<1>2. PICK i \in Ids : processes'[i] = q
  BY DEF ClearOne, Follow, Registered
<1>3. i # k /\ processes[i] = q /\ job[q].id = i
  BY <1>1, <1>2, NoneAssumption DEF ClearOne, RegistrationOwned
<1> QED BY <1>1, <1>2, <1>3 DEF ClearOne, SeenInv

LEMMA SeenStep == TypeOK /\ RegistrationOwned /\ SeenInv /\ [Next]_vars => SeenInv'
<1> SUFFICES ASSUME TypeOK, RegistrationOwned, SeenInv, [Next]_vars PROVE SeenInv'
  OBVIOUS
<1>1. ASSUME NEW d \in Dispatchers, NEW p \in Procs, NEW j \in Starts, Spawn(d, p, j)
      PROVE  SeenInv'
  BY <1>1, SeenSpawn
<1>2. ASSUME NEW p \in Procs, ProcStep(p) PROVE SeenInv'
  BY <1>2, SeenTable, SeenOtherSteps
<1>3. CASE MainStep \/ ReceiveReload \/ ReceiveStop \/ (\E d \in Dispatchers : Quit(d))
  BY <1>3, ControlLeavesTable DEF SeenInv, TypeOK
<1>4. CASE ClearStart
  BY <1>4 DEF ClearStart, Table, SeenInv
<1>5. ASSUME NEW k \in Ids, ClearOne(k) PROVE SeenInv'
  BY <1>5, SeenClear
<1>6. CASE UNCHANGED vars
  BY <1>6 DEF vars, SeenInv
<1> QED BY <1>1, <1>2, <1>3, <1>4, <1>5, <1>6 DEF Next, ClearStep, Terminated

\* Whatever comes together with it, a start never works on the data type, nor
\* runs against the kind, of a process that was in the table when it came and
\* has stayed there, reload waits of any length included.
THEOREM LatecomersRespect == Spec => []LatecomersTurnedAway
<1>1. Init => SeenInv
  BY DEF Init, SeenInv
<1>2. SeenInv => LatecomersTurnedAway
  BY DEF SeenInv, LatecomersTurnedAway, Loaded, Checked
<1> QED BY <1>1, <1>2, SeenStep, TypeCorrect, RegistrationsOwned, PTL DEF Spec

-----------------------------------------------------------------------------
(***************************************************************************)
(* The state word.                                                         *)
(***************************************************************************)
LEMMA ReloadStep ==
  TypeOK /\ ReloadOnlyWhileReloading /\ [Next]_vars => ReloadOnlyWhileReloading'
<1> SUFFICES ASSUME TypeOK, ReloadOnlyWhileReloading, [Next]_vars
             PROVE  ReloadOnlyWhileReloading'
  OBVIOUS
<1> Main \notin Procs BY MainAssumption
<1> USE DEF TypeOK, Threads, Goto, Reloading, ReloadOnlyWhileReloading
<1>1. ASSUME NEW d \in Dispatchers, NEW p \in Procs, NEW j \in Starts, Spawn(d, p, j)
      PROVE  ReloadOnlyWhileReloading'
  BY <1>1 DEF Spawn
<1>2. ASSUME NEW p \in Procs, ProcStep(p) PROVE ReloadOnlyWhileReloading'
  BY <1>2 DEF ProcStep, Load, WaitReload, Check, Register, SayActive, Unregister,
       Finish, Assign, StepOnly
<1>3. CASE MainStep
  <2>1. CASE SayReload \/ Reschedule \/ SayOldState
    BY <2>1 DEF SayReload, Reschedule, SayOldState, Assign
  <2>2. CASE Boot \/ StartDispatchers \/ RestartDispatcher \/ SayStopped \/ Cancel \/ Exit
    BY <2>2 DEF Boot, StartDispatchers, RestartDispatcher, SayStopped, Cancel, Exit,
         Assign, StepOnly
  <2> QED BY <1>3, <2>1, <2>2 DEF MainStep
<1>4. CASE ReceiveReload \/ ReceiveStop \/ (\E d \in Dispatchers : Quit(d)) \/ ClearStep
  BY <1>4 DEF ReceiveReload, ReceiveStop, Quit, StepOnly, ClearStep, ClearStart, ClearOne
<1>5. CASE UNCHANGED vars
  BY <1>5 DEF vars
<1> QED BY <1>1, <1>2, <1>3, <1>4, <1>5 DEF Next, Terminated

\* A process that sleeps in "for s.state == STATE_RELOAD" always waits for a
\* control loop that is inside its reload branch and will leave it.
THEOREM ReloadsEnclosed == Spec => []ReloadOnlyWhileReloading
<1>1. Init => ReloadOnlyWhileReloading
  BY DEF Init, ReloadOnlyWhileReloading
<1> QED BY <1>1, ReloadStep, TypeCorrect, PTL DEF Spec

(***************************************************************************)
(* IdleWord is not inductive: it needs the word while processes run.  If   *)
(* it is not INACTIVE, it is ACTIVE and whoever has written it, or written *)
(* it again since, has not ended yet.                                      *)
(***************************************************************************)
WordInv ==
  reloads = 0 =>
    /\ pc[Main] \notin Reloading \cup {"restart"}
    /\ pc[Main] \in {"boot", "start"} => accepting = {} /\ \A p \in Procs : pc[p] = "idle"
    /\ pc[Main] \in {"start", "loop"} =>
         state = "INACTIVE" \/ \E p \in Procs : pc[p] \in {"work", "leave"}

LEMMA WordStep == TypeOK /\ WordInv /\ [Next]_vars => WordInv'
<1> SUFFICES ASSUME TypeOK, WordInv, [Next]_vars PROVE WordInv' OBVIOUS
<1> Main \notin Procs BY MainAssumption
<1> USE DEF TypeOK, Threads, Goto, WordInv, Reloading
<1>1. ASSUME NEW d \in Dispatchers, NEW p \in Procs, NEW j \in Starts, Spawn(d, p, j)
      PROVE  WordInv'
  BY <1>1 DEF Spawn
<1>2. ASSUME NEW p \in Procs, ProcStep(p) PROVE WordInv'
  <2>1. CASE Load(p) \/ WaitReload(p) \/ Check(p)
    BY <2>1 DEF Load, WaitReload, Check, StepOnly
  <2>2. CASE Register(p) \/ Unregister(p)
    BY <2>2 DEF Register, Unregister
  <2>3. CASE SayActive(p) BY <2>3 DEF SayActive, Assign
  <2>4. CASE Finish(p)    BY <2>4 DEF Finish
  <2> QED BY <1>2, <2>1, <2>2, <2>3, <2>4 DEF ProcStep
<1>3. CASE MainStep \/ ReceiveReload \/ ReceiveStop
  BY <1>3, ReloadsAssumption
     DEF MainStep, Boot, StartDispatchers, ReceiveReload, SayReload, Reschedule, SayOldState,
         RestartDispatcher, ReceiveStop, SayStopped, Cancel, Exit, Assign, StepOnly
<1>4. CASE ClearStep \/ (\E d \in Dispatchers : Quit(d))
  BY <1>4 DEF ClearStep, ClearStart, ClearOne, Quit
<1>5. CASE UNCHANGED vars
  BY <1>5 DEF vars
<1> QED BY <1>1, <1>2, <1>3, <1>4, <1>5 DEF Next, Terminated

\* Before the first reload, however many processes have come and gone and in
\* whatever order they have written s.state, the word of an idle service is
\* INACTIVE.
THEOREM IdleWords == Spec => []IdleWord
<1>1. Init => WordInv
  BY MainAssumption DEF Init, WordInv, Threads, Reloading
<1>2. WordInv => IdleWord
  BY DEF WordInv, IdleWord
<1> QED BY <1>1, <1>2, WordStep, TypeCorrect, PTL DEF Spec
==============================================================================
