------------------------- MODULE LoggingLock_proofs -------------------------
(***************************************************************************)
(* Proofs about LoggingLock, for any number of processes, threads, paths   *)
(* and settings.                                                           *)
(***************************************************************************)
EXTENDS LoggingLock, TLAPS

(***************************************************************************)
(* What the same discipline says of the object itself: it is one that the  *)
(* settings of the process ask for.                                        *)
(***************************************************************************)
MutexesOf(p) == {SafeName(s.log_file) : s \in SettingsOf[p]}

LockNamed ==
  /\ \A p \in Procs :
       /\ lock_log_file[p] # "LOCK_LOG_FILE" => \E s \in SettingsOf[p] : s.lock_log # "LOCK_LOG_FILE"
       /\ log_mutex[p] \in {NULL} \cup MutexesOf(p)
  /\ \A t \in Threads : pc[t] \in Before /\ ~initialized[ProcOf[t]] =>
       \E s \in SettingsOf[ProcOf[t]] :
         call[t].lock_log = s.lock_log /\ call[t].log_file = s.log_file

(***************************************************************************)
(* Another discipline needs no InitLogging first: every process logs to    *)
(* the default file under its mutex, so that all the racing calls of Init  *)
(* write the same values.                                                  *)
(***************************************************************************)
OnDemandUse ==
  /\ ~CreateMutexFails /\ ~CloseCalls
  /\ \A p \in Procs : \A s \in SettingsOf[p] :
       s.lock_log = "LOCK_LOG_FILE" /\ SafeName(s.log_file) = DefaultPath

\* Whoever has run through Init, or found it done, finds the default mutex.
DefaultMutex ==
  /\ \A p \in Procs :
       /\ lock_log_file[p] = "LOCK_LOG_FILE"
       /\ log_mutex[p] \in {NULL, DefaultPath}
       /\ initialized[p] => log_mutex[p] = DefaultPath
  /\ \A t \in Threads :
       /\ call[t].lock_log = "LOCK_LOG_FILE" /\ SafeName(call[t].log_file) = DefaultPath
       /\ pc[t] \notin {"createFailed", "newLock", "enterLock", "leaveLock"}
       /\ pc[t] \in {"created", "setInitialized"} \cup Taking \cup Inside =>
            log_mutex[ProcOf[t]] = DefaultPath
       /\ pc[t] = "blocked" => target[t] = DefaultPath

\* One thread of the machine at most is inside the lock, and owns that mutex.
DefaultOwned ==
  /\ \A t \in Threads : pc[t] \in Inside => lock[DefaultPath] = [owner |-> t, count |-> 1]
  /\ \A o \in Objects, t \in Threads :
       lock[o].owner = t => o = DefaultPath /\ pc[t] \in Inside
  /\ lock[DefaultPath].owner # "broken"

OnDemandInv == LockTypeOK /\ DefaultMutex /\ DefaultOwned

USE DEF fields, Move

LockState == [owner : Threads \cup {NULL, "broken"}, count : Nat]

\* Releasing a lock object by its owner leaves it owned a positive number of
\* times, or free.
LEMMA ReleasedType ==
  ASSUME LockTypeOK, NEW o \in Objects, lock[o].owner \in Threads
  PROVE  /\ Released(o) \in LockState
         /\ Released(o).owner \in Threads <=> Released(o).count > 0
BY LockAssumption DEF LockTypeOK, Released, Free, LockState

\* Giving one lock object a legal state leaves every object in a legal state.
LEMMA LockUpdate ==
  ASSUME LockTypeOK, NEW o \in Objects, NEW l \in LockState,
         l.owner \in Threads <=> l.count > 0, lock' = [lock EXCEPT ![o] = l]
  PROVE  /\ lock' \in [Objects -> LockState]
         /\ \A x \in Objects : lock'[x].owner \in Threads <=> lock'[x].count > 0
BY DEF LockTypeOK, LockState

\* Every step of the lock, of any use of it, keeps the variables in their types.
LEMMA LockTypeStep == LockTypeOK /\ [LockNext]_lockVars => LockTypeOK'
<1> SUFFICES ASSUME LockTypeOK, [LockNext]_lockVars PROVE LockTypeOK'
  OBVIOUS
<1> USE ProcessAssumption, LockAssumption
     DEF LockTypeOK, Goto, Location, Before, Taking, Inside, Objects, LogLockingState
<1>1. ASSUME NEW t \in Threads, CheckInitialized(t) PROVE LockTypeOK'
  BY <1>1 DEF CheckInitialized
<1>2. ASSUME NEW t \in Threads, SetMode(t) PROVE LockTypeOK'
  BY <1>2 DEF SetMode
<1>3. ASSUME NEW t \in Threads, TestMode(t) PROVE LockTypeOK'
  BY <1>3 DEF TestMode
<1>4. ASSUME NEW t \in Threads, TestMutex(t) PROVE LockTypeOK'
  BY <1>4 DEF TestMutex
<1>5. ASSUME NEW t \in Threads, CreateMutex(t) PROVE LockTypeOK'
  <2>1. SafeName(call[t].log_file) \in Paths
    BY DEF SafeName
  <2>2. log_mutex' \in [Procs -> Paths \cup {NULL}]
    BY <1>5, <2>1 DEF CreateMutex
  <2>3. PICK to \in {"created", "createFailed"} : Goto(t, "createMutex", to)
    BY <1>5, Zenon DEF CreateMutex
  <2> QED
    BY <1>5, <2>2, <2>3 DEF CreateMutex
<1>6. ASSUME NEW t \in Threads, TestCreated(t) PROVE LockTypeOK'
  BY <1>6 DEF TestCreated
<1>7. ASSUME NEW t \in Threads, NewLock(t) PROVE LockTypeOK'
  BY <1>7 DEF NewLock
<1>8. ASSUME NEW t \in Threads, SetInitialized(t) PROVE LockTypeOK'
  BY <1>8 DEF SetInitialized
<1>9. ASSUME NEW t \in Threads, LockMode(t) PROVE LockTypeOK'
  BY <1>9 DEF LockMode
<1>10. ASSUME NEW t \in Threads, WaitMutex(t) PROVE LockTypeOK'
  BY <1>10 DEF WaitMutex
<1>11. ASSUME NEW p \in Procs, NEW c \in {"nullLock"} \cup ExitCause, Terminate(p, c)
       PROVE LockTypeOK'
  <2>1. pc' \in [Threads -> Location]
    BY <1>11 DEF Terminate
  <2>2. lock' \in [Objects -> LockState]
    BY <1>11 DEF Terminate, Free, LockState
  <2>3. \A o \in Objects : lock'[o].owner \in Threads <=> lock'[o].count > 0
    BY <1>11 DEF Terminate, Free
  <2>4. status' \in [Procs -> {"running", "nullLock"} \cup ExitCause]
    BY <1>11 DEF Terminate
  <2> QED
    BY <1>11, <2>1, <2>2, <2>3, <2>4 DEF Terminate, LockState
<1>12. ASSUME NEW t \in Threads, EnterLock(t) PROVE LockTypeOK'
  <2>1. CASE log_lock[ProcOf[t]] = NULL
    BY <1>11, <1>12, <2>1 DEF EnterLock
  <2>2. CASE log_lock[ProcOf[t]] # NULL
    <3>0. /\ pc' = [pc EXCEPT ![t] = "blocked"]
          /\ target' = [target EXCEPT ![t] = log_lock[ProcOf[t]]]
      BY <1>12, <2>2 DEF EnterLock
    <3>1. pc' \in [Threads -> Location]
      BY <3>0
    <3>2. target' \in [Threads -> Objects \cup {NULL}]
      BY <3>0
    <3>3. UNCHANGED <<call, initialized, lock_log_file, log_mutex, log_lock, lock, status>>
      BY <1>12, <2>2 DEF EnterLock
    <3> QED
      BY <3>1, <3>2, <3>3
  <2> QED
    BY <2>1, <2>2
<1>13. ASSUME NEW t \in Threads, Acquire(t) PROVE LockTypeOK'
  <2>1. pc' \in [Threads -> Location] /\ target' \in [Threads -> Objects \cup {NULL}]
    BY <1>13 DEF Acquire
  <2>2. UNCHANGED <<call, initialized, lock_log_file, log_mutex, log_lock, status>>
    BY <1>13 DEF Acquire
  <2>3. CASE target[t] \in Objects
    <3> DEFINE l == [owner |-> t, count |-> lock[target[t]].count + 1]
    <3>1. l \in LockState /\ (l.owner \in Threads <=> l.count > 0)
      BY <2>3 DEF LockState
    <3>2. lock' = [lock EXCEPT ![target[t]] = l]
      BY <1>13 DEF Acquire
    <3> HIDE DEF l
    <3>3. /\ lock' \in [Objects -> LockState]
          /\ \A x \in Objects : lock'[x].owner \in Threads <=> lock'[x].count > 0
      BY <2>3, <3>1, <3>2, LockUpdate
    <3> QED
      BY <2>1, <2>2, <3>3 DEF LockState
  <2>4. CASE target[t] \notin Objects
    <3>1. PICK l : lock' = [lock EXCEPT ![target[t]] = l]
      BY <1>13, Zenon DEF Acquire
    <3>2. DOMAIN lock' = Objects /\ \A x \in Objects : lock'[x] = lock[x]
      BY <2>4, <3>1, <3>2
    <3>3. lock' \in [Objects -> LockState]
      BY <1>13, <2>4, <3>1, <3>2 DEF LockState
    <3> QED
      BY <2>1, <2>2, <3>2, <3>3 DEF LockState
  <2> QED
    BY <2>3, <2>4
<1>14. ASSUME NEW t \in Threads, Leave(t) PROVE LockTypeOK'
  BY <1>14 DEF Leave
<1>15. ASSUME NEW t \in Threads, UnlockMode(t) PROVE LockTypeOK'
  BY <1>15 DEF UnlockMode
<1>16. ASSUME NEW t \in Threads, ReleaseMutex(t) PROVE LockTypeOK'
  <2>1. CASE UNCHANGED lock
    BY <1>16, <2>1 DEF ReleaseMutex
  <2>2. CASE ~ UNCHANGED lock
    <3>1. PICK o \in Objects : lock[o].owner = t /\ lock' = [lock EXCEPT ![o] = Released(o)]
      BY <1>16, <2>2 DEF ReleaseMutex
    <3>2. Released(o) \in LockState /\ (Released(o).owner \in Threads <=> Released(o).count > 0)
      BY <3>1, ReleasedType
    <3>3. lock' \in [Objects -> LockState]
      BY <3>1, <3>2 DEF LockState
    <3>4. \A x \in Objects : lock'[x].owner \in Threads <=> lock'[x].count > 0
      BY <3>1, <3>2
    <3>5. pc' \in [Threads -> Location]
      BY <1>16 DEF ReleaseMutex
    <3> QED
      BY <1>16, <3>3, <3>4, <3>5 DEF ReleaseMutex, LockState
  <2> QED
    BY <2>1, <2>2
<1>17. ASSUME NEW t \in Threads, LeaveLock(t) PROVE LockTypeOK'
  <2>1. CASE log_lock[ProcOf[t]] = NULL
    BY <1>11, <1>17, <2>1 DEF LeaveLock
  <2>2. CASE log_lock[ProcOf[t]] # NULL
    <3> DEFINE o == log_lock[ProcOf[t]]
    <3>1. PICK l \in IF lock[o].owner = t THEN {Released(o)} ELSE {lock[o], Free, Broken} :
            lock' = [lock EXCEPT ![o] = l]
      BY <1>17, <2>2 DEF LeaveLock
    <3>2. o \in Objects
      BY <2>2
    <3>3. l \in LockState /\ (l.owner \in Threads <=> l.count > 0)
      <4>1. CASE lock[o].owner = t
        BY <3>1, <3>2, <4>1, ReleasedType
      <4>2. CASE l = lock[o]
        BY <3>2, <4>2 DEF LockState
      <4>3. CASE l \in {Free, Broken}
        BY <4>3 DEF Free, Broken, LockState
      <4> QED
        BY <3>1, <4>1, <4>2, <4>3
    <3>4. lock' \in [Objects -> LockState]
      BY <3>1, <3>2, <3>3 DEF LockState
    <3>5. \A x \in Objects : lock'[x].owner \in Threads <=> lock'[x].count > 0
      BY <3>1, <3>2, <3>3
    <3>6. pc' = [pc EXCEPT ![t] = "out"]
      BY <1>17, <2>2 DEF LeaveLock, Goto
    <3>7. pc' \in [Threads -> Location]
      BY <3>6
    <3>8. UNCHANGED <<call, target, fields, status>>
      BY <1>17, <2>2 DEF LeaveLock
    <3> QED
      BY <3>4, <3>5, <3>7, <3>8 DEF LockState
  <2> QED
    BY <2>1, <2>2
<1>18. ASSUME NEW t \in Threads, Spawn(t) PROVE LockTypeOK'
  BY <1>18 DEF Spawn
<1>19. ASSUME NEW t \in Threads, LogMessageEnters(t) PROVE LockTypeOK'
  BY <1>19 DEF LogMessageEnters, OnDemand
<1>20. ASSUME NEW t \in Threads, CloseLogFileEnters(t) PROVE LockTypeOK'
  BY <1>20 DEF CloseLogFileEnters
<1>21. ASSUME NEW t \in Threads, NEW s \in SettingsOf[ProcOf[t]],
              NEW r \in SettingsOf[ProcOf[t]], InitLoggingEnters(t, s, r.logging_dest)
       PROVE LockTypeOK'
  BY <1>21 DEF InitLoggingEnters, LoggingSettings
<1>22. CASE UNCHANGED lockVars
  BY <1>22 DEF lockVars
<1> QED
  BY <1>1, <1>2, <1>3, <1>4, <1>5, <1>6, <1>7, <1>8, <1>9, <1>10, <1>11, <1>12, <1>13,
     <1>14, <1>15, <1>16, <1>17, <1>18, <1>19, <1>20, <1>21, <1>22
  DEF LockNext, LockStep, Crash

\* LockTypeOK is an invariant of every use of the lock, disciplined or not.
THEOREM LockTypeCorrect == LockSpec => []LockTypeOK
<1>1. LockInit => LockTypeOK
  BY ProcessAssumption, LockAssumption
  DEF LockInit, LockTypeOK, Location, Before, Taking, Inside, Objects, Free,
      OnDemand, LogLockingState
<1> QED
  BY <1>1, LockTypeStep, PTL DEF LockSpec

-----------------------------------------------------------------------------
(***************************************************************************)
(* The disciplined use: LockInv is inductive.                              *)
(***************************************************************************)

\* Before the first call nobody owns a lock object and only main threads exist.
LEMMA LockInvInit == Disciplined /\ LockInit => LockInv
<1> SUFFICES ASSUME Disciplined, LockInit PROVE LockInv
  OBVIOUS
<1>1. LockTypeOK
  BY ProcessAssumption, LockAssumption
  DEF LockInit, LockTypeOK, Location, Before, Taking, Inside, Objects, Free,
      OnDemand, LogLockingState
<1>2. \A t \in Threads :
        /\ pc[t] \in {"unborn", "start"}
        /\ pc[t] = "start" => t = MainOf[ProcOf[t]]
  BY DEF LockInit, Disciplined
<1>3. \A p \in Procs : ~initialized[p]
  BY DEF LockInit
<1>4. InitAlone /\ InitProgress /\ LockReady
  BY <1>2, <1>3, ProcessAssumption DEF InitAlone, InitProgress, LockReady, Before, Taking, Inside
<1>5. HoldsWhatItReleases
  BY <1>2 DEF HoldsWhatItReleases, Inside
<1>6. OwnedInside
  BY LockAssumption DEF OwnedInside, LockInit, Free
<1> QED
  BY <1>1, <1>4, <1>5, <1>6 DEF LockInv

\* A thread that moves without entering or leaving the lock disturbs no owner.
LEMMA MoveKeepsOwners ==
  ASSUME LockInv, NEW t \in Threads, NEW to,
         pc' = [pc EXCEPT ![t] = to], pc[t] \in Inside <=> to \in Inside,
         UNCHANGED <<lock_log_file, log_mutex, log_lock, lock>>
  PROVE  HoldsWhatItReleases' /\ OwnedInside'
<1> USE DEF LockInv, LockTypeOK
<1>1. \A u \in Threads : pc'[u] \in Inside <=> pc[u] \in Inside
  OBVIOUS
<1>2. \A p \in Procs : LockOf(p)' = LockOf(p)
  BY DEF LockOf
<1>3. \A u \in Threads : LockOf(ProcOf[u])' = LockOf(ProcOf[u])
  BY <1>2, ProcessAssumption
<1> QED
  BY <1>1, <1>3 DEF HoldsWhatItReleases, OwnedInside

\* While the main thread runs the body of Init it is alone in its process.
LEMMA Alone ==
  ASSUME LockInv, NEW t \in Threads, pc[t] \in Before \ {"check"}
  PROVE  /\ ~initialized[ProcOf[t]]
         /\ \A u \in Threads : u # t /\ ProcOf[u] = ProcOf[t] => pc[u] \in {"unborn", "dead"}
BY ProcessAssumption DEF LockInv, LockTypeOK, InitAlone, Location

\* The three parts of LockInv about static fields, and the two about owners.
FieldsInv == InitAlone /\ InitProgress /\ LockReady
OwnersInv == HoldsWhatItReleases /\ OwnedInside

\* The static fields: Init writes them while its thread is alone in the process,
\* and every other step finds them as Init has left them.
LEMMA FieldsStep ==
  ASSUME Disciplined, LockInv, LockTypeOK', [LockNext]_lockVars
  PROVE  FieldsInv'
<1> USE ProcessAssumption, LockAssumption
     DEF LockInv, LockTypeOK, FieldsInv, InitAlone, InitProgress, LockReady, LockOf,
         Goto, Before, Taking, Inside, Disciplined
<1>1. ASSUME NEW t \in Threads, CheckInitialized(t) PROVE FieldsInv'
  BY <1>1 DEF CheckInitialized
<1>2. ASSUME NEW t \in Threads, TestMode(t) PROVE FieldsInv'
  BY <1>2 DEF TestMode, LogLockingState
<1>3. ASSUME NEW t \in Threads, TestMutex(t) PROVE FieldsInv'
  BY <1>3 DEF TestMutex
<1>4. ASSUME NEW t \in Threads, TestCreated(t) PROVE FieldsInv'
  BY <1>4 DEF TestCreated
<1>5. ASSUME NEW t \in Threads, LockMode(t) PROVE FieldsInv'
  BY <1>5 DEF LockMode, LogLockingState
<1>6. ASSUME NEW t \in Threads, Leave(t) PROVE FieldsInv'
  BY <1>6 DEF Leave
<1>7. ASSUME NEW t \in Threads, UnlockMode(t) PROVE FieldsInv'
  BY <1>7 DEF UnlockMode, LogLockingState
<1>8. ASSUME NEW t \in Threads, Spawn(t) PROVE FieldsInv'
  BY <1>8 DEF Spawn
<1>9. ASSUME NEW t \in Threads, LogMessageEnters(t) PROVE FieldsInv'
  BY <1>9 DEF LogMessageEnters
<1>10. ASSUME NEW t \in Threads, CloseLogFileEnters(t) PROVE FieldsInv'
  BY <1>10 DEF CloseLogFileEnters
<1>11. ASSUME NEW t \in Threads, SetMode(t) PROVE FieldsInv'
  BY <1>11 DEF SetMode
<1>12. ASSUME NEW t \in Threads, CreateMutex(t) PROVE FieldsInv'
  <2>1. SafeName(call[t].log_file) \in Paths
    BY DEF SafeName
  <2>2. /\ pc' = [pc EXCEPT ![t] = "created"]
        /\ log_mutex' = [log_mutex EXCEPT ![ProcOf[t]] = SafeName(call[t].log_file)]
    BY <1>12 DEF CreateMutex
  <2> QED
    BY <1>12, <2>1, <2>2, Alone DEF CreateMutex
<1>13. ASSUME NEW t \in Threads, NewLock(t) PROVE FieldsInv'
  BY <1>13 DEF NewLock
<1>14. ASSUME NEW t \in Threads, SetInitialized(t) PROVE FieldsInv'
  BY <1>14 DEF SetInitialized
<1>15. ASSUME NEW t \in Threads, WaitMutex(t) PROVE FieldsInv'
  BY <1>15 DEF WaitMutex
<1>16. ASSUME NEW t \in Threads, EnterLock(t) PROVE FieldsInv'
  BY <1>16 DEF EnterLock
<1>17. ASSUME NEW t \in Threads, Acquire(t) PROVE FieldsInv'
  BY <1>17 DEF Acquire
<1>18. ASSUME NEW t \in Threads, ReleaseMutex(t) PROVE FieldsInv'
  BY <1>18 DEF ReleaseMutex
<1>19. ASSUME NEW t \in Threads, LeaveLock(t) PROVE FieldsInv'
  BY <1>19 DEF LeaveLock
<1>20. ASSUME NEW t \in Threads, NEW s \in SettingsOf[ProcOf[t]],
              NEW r \in SettingsOf[ProcOf[t]], InitLoggingEnters(t, s, r.logging_dest)
       PROVE FieldsInv'
  BY <1>20 DEF InitLoggingEnters
<1>21. ASSUME NEW p \in Procs, NEW c, Terminate(p, c) PROVE FieldsInv'
  BY <1>21 DEF Terminate
<1>22. CASE UNCHANGED lockVars
  BY <1>22 DEF lockVars
<1> QED
  BY <1>1, <1>2, <1>3, <1>4, <1>5, <1>6, <1>7, <1>8, <1>9, <1>10, <1>11, <1>12, <1>13,
     <1>14, <1>15, <1>16, <1>17, <1>18, <1>19, <1>20, <1>21, <1>22
  DEF LockNext, LockStep, Crash

\* Init's writes to the static fields of a process happen while none of its
\* threads is inside the lock.
LEMMA FieldWriteKeepsOwners ==
  ASSUME LockInv, NEW t \in Threads, pc[t] \in Before \ {"check"},
         NEW to \in Before \cup Taking, pc' = [pc EXCEPT ![t] = to], UNCHANGED lock,
         \A p \in Procs \ {ProcOf[t]} : LockOf(p)' = LockOf(p)
  PROVE  OwnersInv'
<1>1. \A u \in Threads : pc[u] \in Inside => ProcOf[u] # ProcOf[t]
  BY Alone DEF Before, Inside
<1>2. \A u \in Threads : pc[u] \in Inside => LockOf(ProcOf[u])' = LockOf(ProcOf[u])
  BY <1>1, ProcessAssumption
<1>3. \A u \in Threads : pc'[u] \in Inside <=> pc[u] \in Inside
  BY DEF LockInv, LockTypeOK, Before, Taking, Inside
<1> QED
  BY <1>2, <1>3 DEF LockInv, OwnersInv, HoldsWhatItReleases, OwnedInside

\* What LockInv says of lock objects, by thread and by object.
LEMMA OwnersFacts ==
  ASSUME LockInv
  PROVE  /\ lock \in [Objects -> LockState] /\ pc \in [Threads -> Location]
         /\ \A p \in Procs : LockOf(p) \in Objects \cup {NULL}
         /\ \A u \in Threads : pc[u] \in Inside =>
              LockOf(ProcOf[u]) \in Objects
              /\ lock[LockOf(ProcOf[u])] = [owner |-> u, count |-> 1]
              /\ lock[LockOf(ProcOf[u])].owner = u
         /\ \A o \in Objects :
              /\ lock[o].owner # "broken"
              /\ \A u \in Threads :
                   lock[o].owner = u => pc[u] \in Inside /\ o = LockOf(ProcOf[u])
<1>1. lock \in [Objects -> LockState] /\ pc \in [Threads -> Location]
  BY DEF LockInv, LockTypeOK, LockState
<1>2. \A p \in Procs : LockOf(p) \in Objects \cup {NULL}
  BY DEF LockInv, LockTypeOK, LockOf, Objects
<1>3. \A u \in Threads : pc[u] \in Inside => LockOf(ProcOf[u]) # NULL
  BY ProcessAssumption DEF LockInv, InitAlone, LockReady
<1>4. \A u \in Threads : pc[u] \in Inside => LockOf(ProcOf[u]) \in Objects
  BY <1>2, <1>3, ProcessAssumption
<1> QED
  BY <1>1, <1>2, <1>4 DEF LockInv, HoldsWhatItReleases, OwnedInside

\* The object a thread takes is free, and it is the lock of its process.
LEMMA TakesFreeLock ==
  ASSUME LockInv, NEW t \in Threads, Acquire(t)
  PROVE  /\ target[t] = LockOf(ProcOf[t]) /\ target[t] \in Objects
         /\ lock[target[t]].owner = NULL /\ lock[target[t]].count = 0
         /\ lock' = [lock EXCEPT ![target[t]] = [owner |-> t, count |-> 1]]
<1>1. pc[t] = "blocked"
  BY DEF Acquire, Goto
<1>2. target[t] = LockOf(ProcOf[t]) /\ LockOf(ProcOf[t]) # NULL
  BY <1>1, ProcessAssumption DEF LockInv, InitAlone, LockReady, Taking
<1>3. target[t] \in Objects
  BY <1>2, OwnersFacts, ProcessAssumption
<1>4. lock[target[t]].owner = NULL
  BY <1>1, <1>3, OwnersFacts DEF Acquire, Inside
<1>5. lock[target[t]].count = 0
  BY <1>3, <1>4, LockAssumption DEF LockInv, LockTypeOK
<1> QED
  BY <1>2, <1>3, <1>4, <1>5 DEF Acquire

\* The object a thread releases is the lock of its process, which it owns once.
LEMMA ReleasesItsLock ==
  ASSUME LockInv, NEW t \in Threads, ReleaseMutex(t) \/ LeaveLock(t)
  PROVE  /\ pc[t] \in Inside /\ pc' = [pc EXCEPT ![t] = "out"]
         /\ LockOf(ProcOf[t]) \in Objects
         /\ lock[LockOf(ProcOf[t])] = [owner |-> t, count |-> 1]
         /\ lock' = [lock EXCEPT ![LockOf(ProcOf[t])] = Free]
         /\ UNCHANGED <<initialized, lock_log_file, log_mutex, log_lock>>
<1> USE ProcessAssumption, LockAssumption DEF LockInv, LockTypeOK, Goto, Inside
<1> DEFINE o == LockOf(ProcOf[t])
<1>1. pc[t] \in Inside
  BY DEF ReleaseMutex, LeaveLock
<1>2. o \in Objects /\ o # NULL
  BY <1>1 DEF InitAlone, LockReady, LockOf, Objects
<1>3. lock[o] = [owner |-> t, count |-> 1]
  BY <1>1 DEF HoldsWhatItReleases
<1>4. Released(o) = Free
  BY <1>3 DEF Released
<1>5. CASE ReleaseMutex(t)
  <2>1. o = log_mutex[ProcOf[t]]
    BY <1>5 DEF ReleaseMutex, LockReady, LockOf
  <2> QED
    BY <1>1, <1>2, <1>3, <1>4, <1>5, <2>1 DEF ReleaseMutex
<1>6. CASE LeaveLock(t)
  <2>1. o = log_lock[ProcOf[t]]
    BY <1>6 DEF LeaveLock, LockReady, LockOf
  <2> QED
    BY <1>1, <1>2, <1>3, <1>4, <1>6, <2>1 DEF LeaveLock
<1> QED
  BY <1>5, <1>6

\* Taking the lock: nobody else was inside it, since the object was free.
LEMMA AcquireKeepsOwners ==
  ASSUME LockInv, NEW t \in Threads, Acquire(t)
  PROVE  OwnersInv'
<1>1. \A u \in Threads : LockOf(ProcOf[u])' = LockOf(ProcOf[u])
  BY ProcessAssumption DEF Acquire, LockOf
<1>2. \A u \in Threads : pc'[u] \in Inside <=> u = t \/ pc[u] \in Inside
  BY OwnersFacts DEF Acquire, Goto, Inside
<1> DEFINE o == LockOf(ProcOf[t])
<1>3. /\ o \in Objects /\ lock[o].owner = NULL
      /\ lock' = [lock EXCEPT ![o] = [owner |-> t, count |-> 1]]
  BY TakesFreeLock
<1> HIDE DEF o
<1>4. lock'[o] = [owner |-> t, count |-> 1] /\ \A x \in Objects \ {o} : lock'[x] = lock[x]
  BY <1>3, OwnersFacts
<1>5. \A u \in Threads : pc[u] \in Inside => LockOf(ProcOf[u]) \in Objects \ {o}
  <2> SUFFICES ASSUME NEW u \in Threads, pc[u] \in Inside
               PROVE  LockOf(ProcOf[u]) \in Objects \ {o}
    OBVIOUS
  <2>1. LockOf(ProcOf[u]) \in Objects /\ lock[LockOf(ProcOf[u])].owner = u
    BY OwnersFacts
  <2> QED
    BY <1>3, <2>1, LockAssumption
<1>6. HoldsWhatItReleases'
  BY <1>1, <1>2, <1>4, <1>5, OwnersFacts DEF HoldsWhatItReleases, o
<1>7. OwnedInside'
  BY <1>1, <1>2, <1>4, OwnersFacts, LockAssumption DEF OwnedInside, o
<1> QED
  BY <1>6, <1>7 DEF OwnersInv

\* Leaving the lock: the object becomes free and nobody else was inside it.
LEMMA ReleaseKeepsOwners ==
  ASSUME LockInv, NEW t \in Threads, ReleaseMutex(t) \/ LeaveLock(t)
  PROVE  OwnersInv'
<1>1. \A u \in Threads : LockOf(ProcOf[u])' = LockOf(ProcOf[u])
  BY ReleasesItsLock, ProcessAssumption DEF LockOf
<1>2. \A u \in Threads : pc'[u] \in Inside <=> u # t /\ pc[u] \in Inside
  <2>1. pc' = [pc EXCEPT ![t] = "out"] /\ pc \in [Threads -> Location]
    BY ReleasesItsLock, OwnersFacts
  <2> QED
    BY <2>1 DEF Inside
<1> DEFINE o == LockOf(ProcOf[t])
<1>3. o \in Objects /\ lock[o].owner = t /\ lock' = [lock EXCEPT ![o] = Free]
  <2>1. lock[o] = [owner |-> t, count |-> 1]
    BY ReleasesItsLock
  <2> QED
    BY <2>1, ReleasesItsLock
<1> HIDE DEF o
<1>4. lock'[o] = Free /\ \A x \in Objects \ {o} : lock'[x] = lock[x]
  BY <1>3, OwnersFacts
<1>5. \A u \in Threads \ {t} : pc[u] \in Inside => LockOf(ProcOf[u]) \in Objects \ {o}
  <2> SUFFICES ASSUME NEW u \in Threads \ {t}, pc[u] \in Inside
               PROVE  LockOf(ProcOf[u]) \in Objects \ {o}
    OBVIOUS
  <2>1. LockOf(ProcOf[u]) \in Objects /\ lock[LockOf(ProcOf[u])].owner = u
    BY OwnersFacts
  <2> QED
    BY <1>3, <2>1
<1>6. HoldsWhatItReleases'
  BY <1>1, <1>2, <1>4, <1>5, OwnersFacts DEF HoldsWhatItReleases
<1>7. \A x \in Objects \ {o} : lock[x].owner # t
  BY OwnersFacts DEF o
<1>8. OwnedInside'
  BY <1>1, <1>2, <1>4, <1>7, OwnersFacts, LockAssumption DEF OwnedInside, Free
<1> QED
  BY <1>6, <1>8 DEF OwnersInv

\* The kernel frees what the threads of a dead process owned, and nothing else.
LEMMA TerminateKeepsOwners ==
  ASSUME LockInv, NEW p \in Procs, NEW c, Terminate(p, c)
  PROVE  OwnersInv'
<1>1. \A u \in Threads : LockOf(ProcOf[u])' = LockOf(ProcOf[u])
  BY ProcessAssumption DEF Terminate, LockOf
<1>2. \A u \in Threads : pc'[u] \in Inside <=> ProcOf[u] # p /\ pc[u] \in Inside
  BY OwnersFacts DEF Terminate, Inside
<1>3. \A o \in Objects :
        lock'[o] = IF \E u \in Threads : ProcOf[u] = p /\ lock[o].owner = u
                   THEN Free ELSE lock[o]
  BY DEF Terminate
<1>4. HoldsWhatItReleases'
  BY <1>1, <1>2, <1>3, OwnersFacts DEF HoldsWhatItReleases
<1>5. OwnedInside'
  BY <1>1, <1>2, <1>3, OwnersFacts, LockAssumption DEF OwnedInside, Free
<1> QED
  BY <1>4, <1>5 DEF OwnersInv

\* Who owns which lock object, action by action.
LEMMA OwnersStep ==
  ASSUME Disciplined, LockInv, LockTypeOK', [LockNext]_lockVars
  PROVE  OwnersInv'
<1> USE ProcessAssumption, LockAssumption
     DEF LockInv, LockTypeOK, OwnersInv, HoldsWhatItReleases, OwnedInside, Goto, Inside
<1>1. ASSUME NEW t \in Threads, CheckInitialized(t) PROVE OwnersInv'
  BY <1>1 DEF CheckInitialized, LockOf
<1>2. ASSUME NEW t \in Threads, TestMode(t) PROVE OwnersInv'
  BY <1>2 DEF TestMode, LockOf
<1>3. ASSUME NEW t \in Threads, TestMutex(t) PROVE OwnersInv'
  BY <1>3 DEF TestMutex, LockOf
<1>4. ASSUME NEW t \in Threads, TestCreated(t) PROVE OwnersInv'
  BY <1>4 DEF TestCreated, LockOf
<1>5. ASSUME NEW t \in Threads, LockMode(t) PROVE OwnersInv'
  BY <1>5 DEF LockMode, LockOf
<1>6. ASSUME NEW t \in Threads, Leave(t) PROVE OwnersInv'
  BY <1>6 DEF Leave, LockOf
<1>7. ASSUME NEW t \in Threads, UnlockMode(t) PROVE OwnersInv'
  BY <1>7 DEF UnlockMode, LockOf
<1>8. ASSUME NEW t \in Threads, Spawn(t) PROVE OwnersInv'
  BY <1>8 DEF Spawn, LockOf
<1>9. ASSUME NEW t \in Threads, LogMessageEnters(t) PROVE OwnersInv'
  BY <1>9 DEF LogMessageEnters, LockOf
<1>10. ASSUME NEW t \in Threads, CloseLogFileEnters(t) PROVE OwnersInv'
  BY <1>10 DEF CloseLogFileEnters, LockOf
<1>11. ASSUME NEW t \in Threads, SetMode(t) PROVE OwnersInv'
  BY <1>11, FieldWriteKeepsOwners DEF SetMode, LockOf, Before, Taking
<1>12. ASSUME NEW t \in Threads, CreateMutex(t) PROVE OwnersInv'
  <2>1. PICK to \in Before : pc' = [pc EXCEPT ![t] = to]
    BY <1>12, Zenon DEF CreateMutex, Before
  <2>2. \A p \in Procs \ {ProcOf[t]} : LockOf(p)' = LockOf(p)
    BY <1>12 DEF CreateMutex, LockOf
  <2>3. pc[t] \in Before \ {"check"} /\ UNCHANGED lock
    BY <1>12 DEF CreateMutex, Before
  <2> QED
    BY <2>1, <2>2, <2>3, FieldWriteKeepsOwners
<1>13. ASSUME NEW t \in Threads, NewLock(t) PROVE OwnersInv'
  BY <1>13, FieldWriteKeepsOwners DEF NewLock, LockOf, Before, Taking
<1>14. ASSUME NEW t \in Threads, SetInitialized(t) PROVE OwnersInv'
  BY <1>14, FieldWriteKeepsOwners DEF SetInitialized, LockOf, Before, Taking
<1>15. ASSUME NEW t \in Threads, WaitMutex(t) PROVE OwnersInv'
  BY <1>15 DEF WaitMutex, LockOf, LockReady, InitAlone, Taking, Released, Free
<1>16. ASSUME NEW t \in Threads, EnterLock(t) PROVE OwnersInv'
  <2>1. log_lock[ProcOf[t]] # NULL
    BY <1>16 DEF EnterLock, Terminate, LockReady, InitAlone, LockOf, Taking
  <2>2. pc[t] = "enterLock" /\ pc' = [pc EXCEPT ![t] = "blocked"]
    BY <1>16, <2>1 DEF EnterLock
  <2>3. UNCHANGED <<lock_log_file, log_mutex, log_lock, lock>>
    BY <1>16, <2>1 DEF EnterLock
  <2> QED
    BY <2>2, <2>3, MoveKeepsOwners
<1>17. ASSUME NEW t \in Threads, Acquire(t) PROVE OwnersInv'
  BY <1>17, AcquireKeepsOwners
<1>18. ASSUME NEW t \in Threads, ReleaseMutex(t) PROVE OwnersInv'
  BY <1>18, ReleaseKeepsOwners
<1>19. ASSUME NEW t \in Threads, LeaveLock(t) PROVE OwnersInv'
  BY <1>19, ReleaseKeepsOwners
<1>20. ASSUME NEW t \in Threads, NEW s \in SettingsOf[ProcOf[t]],
              NEW r \in SettingsOf[ProcOf[t]], InitLoggingEnters(t, s, r.logging_dest)
       PROVE OwnersInv'
  BY <1>20 DEF InitLoggingEnters, LockOf
<1>21. ASSUME NEW p \in Procs, NEW c, Terminate(p, c) PROVE OwnersInv'
  BY <1>21, TerminateKeepsOwners
<1>22. CASE UNCHANGED lockVars
  BY <1>22 DEF lockVars, LockOf
<1> QED
  BY <1>1, <1>2, <1>3, <1>4, <1>5, <1>6, <1>7, <1>8, <1>9, <1>10, <1>11, <1>12, <1>13,
     <1>14, <1>15, <1>16, <1>17, <1>18, <1>19, <1>20, <1>21, <1>22
  DEF LockNext, LockStep, Crash

\* LockInv is inductive under the documented discipline.
LEMMA LockInvStep == Disciplined /\ LockInv /\ [LockNext]_lockVars => LockInv'
<1> SUFFICES ASSUME Disciplined, LockInv, [LockNext]_lockVars PROVE LockInv'
  OBVIOUS
<1>1. LockTypeOK'
  BY LockTypeStep DEF LockInv
<1> QED
  BY <1>1, FieldsStep, OwnersStep DEF LockInv, FieldsInv, OwnersInv

\* A program that calls InitLogging first, from its main thread, with LOG_TO_FILE,
\* and gets its mutex, keeps LockInv: every thread takes and releases one and the
\* same lock object.  (Disciplined is a formula about constants only.)
THEOREM LockInvariant == Disciplined /\ LockSpec => []LockInv
<1>1. Disciplined => (LockInit => LockInv)
  BY LockInvInit
<1>2. Disciplined => (LockInv /\ [LockNext]_lockVars => LockInv')
  BY LockInvStep
<1>3. ASSUME Disciplined PROVE LockSpec => []LockInv
  BY <1>1, <1>2, <1>3, PTL DEF LockSpec
<1> QED
  BY <1>3

\* A lock object has one owner.
LEMMA OwnersExclude == LockInv => MutualExclusion
<1> SUFFICES ASSUME LockInv, NEW t \in Threads, NEW u \in Threads,
                    pc[t] \in Inside, pc[u] \in Inside,
                    LockOf(ProcOf[t]) = LockOf(ProcOf[u])
             PROVE  t = u
  BY DEF MutualExclusion
<1>1. lock[LockOf(ProcOf[t])].owner = t /\ lock[LockOf(ProcOf[u])].owner = u
  BY OwnersFacts
<1> QED
  BY <1>1

\* Two threads whose processes use the same lock object are never inside the
\* lock together, because each would own that object.
THEOREM LockExcludes == Disciplined /\ LockSpec => []MutualExclusion
BY OwnersExclude, LockInvariant, PTL

\* No thread keeps a lock object after the LoggingLock is destroyed.
THEOREM LockReleased == Disciplined /\ LockSpec => []UnlockedOnExit
<1>1. LockInv => UnlockedOnExit
  BY DEF LockInv, OwnedInside, UnlockedOnExit
<1> QED
  BY <1>1, LockInvariant, PTL

\* UnlockLogging releases the very object LockLogging took.
THEOREM LockBalanced == Disciplined /\ LockSpec => []HoldsWhatItReleases
<1>1. LockInv => HoldsWhatItReleases
  BY DEF LockInv
<1> QED
  BY <1>1, LockInvariant, PTL

\* Disciplined use never goes through a NULL log_lock: the mode and the pointer
\* that LockLogging and UnlockLogging read separately always agree.
THEOREM LockNeverNull == Disciplined /\ LockSpec => []NoNullLock
<1>1. LockInit => NoNullLock
  BY DEF LockInit, NoNullLock
<1>2. ASSUME LockInv, NoNullLock, [LockNext]_lockVars PROVE NoNullLock'
  <2> USE ProcessAssumption DEF NoNullLock
  <2>1. ASSUME NEW t \in Threads, pc[t] \in {"enterLock", "leaveLock"}
        PROVE  log_lock[ProcOf[t]] # NULL
    BY <1>2, <2>1 DEF LockInv, InitAlone, LockReady, LockOf, Taking, Inside
  <2>2. status \in [Procs -> {"running", "nullLock"} \cup ExitCause]
    BY <1>2 DEF LockInv, LockTypeOK
  <2>3. ASSUME NEW t \in Threads, EnterLock(t) \/ LeaveLock(t) PROVE UNCHANGED status
    BY <2>1, <2>3 DEF EnterLock, LeaveLock, Goto
  <2>4. ASSUME NEW p \in Procs, NEW c \in ExitCause, Terminate(p, c) PROVE NoNullLock'
    BY <1>2, <2>2, <2>4 DEF Terminate, ExitCause
  <2>5. CASE UNCHANGED status
    BY <1>2, <2>5
  <2>6. CASE UNCHANGED lockVars
    BY <2>5, <2>6 DEF lockVars
  <2> QED
    BY <1>2, <2>3, <2>4, <2>5, <2>6
    DEF LockNext, LockStep, Crash, Acquire, ReleaseMutex, InitLoggingEnters,
        CheckInitialized, SetMode, TestMode, TestMutex, CreateMutex, TestCreated, NewLock,
        SetInitialized, LockMode, WaitMutex, Leave, UnlockMode, Spawn, LogMessageEnters,
        CloseLogFileEnters
<1>3. Disciplined => (LockInv /\ NoNullLock /\ [LockNext]_lockVars => NoNullLock')
  BY <1>2
<1>4. ASSUME Disciplined PROVE LockSpec => []NoNullLock
  <2>1. LockSpec => []LockInv
    BY <1>4, LockInvariant
  <2> QED
    BY <1>1, <1>2, <2>1, PTL DEF LockSpec
<1> QED
  BY <1>4

-----------------------------------------------------------------------------
(***************************************************************************)
(* The end of a process, in any use of the lock.                           *)
(***************************************************************************)

Leaving == {"unlockMode", "releaseMutex", "leaveLock"}

\* A process ends with all its threads.
EndedTogether == \A t \in Threads : status[ProcOf[t]] # "running" <=> pc[t] = "dead"

\* A step ends a process, or moves one thread.
LEMMA LockStepEnds ==
  ASSUME LockNext
  PROVE  \/ \E p \in Procs : \E cause : cause # "running" /\ Terminate(p, cause)
         \/ /\ UNCHANGED status
            /\ \E t \in Threads : \E to : /\ pc[t] # "dead" /\ to # "dead"
                                          /\ pc' = [pc EXCEPT ![t] = to]
<1> DEFINE Ends == \E p \in Procs : \E cause : cause # "running" /\ Terminate(p, cause)
           Moves == /\ UNCHANGED status
                    /\ \E t \in Threads : \E to : /\ pc[t] # "dead" /\ to # "dead"
                                                  /\ pc' = [pc EXCEPT ![t] = to]
<1>1. ASSUME NEW t \in Threads, NEW from, NEW to, Goto(t, from, to), from # "dead", to # "dead",
             UNCHANGED status
      PROVE  Moves
  BY <1>1 DEF Goto
<1>2. ASSUME NEW t \in Threads, Terminate(ProcOf[t], "nullLock") PROVE Ends
  BY <1>2, ProcessAssumption
<1> HIDE DEF Ends, Moves
<1>3. ASSUME NEW t \in Threads, EnterLock(t) \/ LeaveLock(t) PROVE Ends \/ Moves
  BY <1>1, <1>2, <1>3 DEF EnterLock, LeaveLock
<1>4. ASSUME NEW t \in Threads, CheckInitialized(t) \/ TestMode(t) \/ LockMode(t) \/ UnlockMode(t)
      PROVE  Moves
  <2>1. /\ UNCHANGED status
        /\ \E from \in {"check", "testMode", "lockMode", "unlockMode"},
              to \in Before \cup Taking \cup Leaving : Goto(t, from, to)
    BY <1>4 DEF CheckInitialized, TestMode, LockMode, UnlockMode, Before, Taking, Leaving
  <2> QED
    BY <1>1, <2>1 DEF Before, Taking, Leaving
<1>5. ASSUME NEW t \in Threads,
             \/ SetMode(t) \/ TestMutex(t) \/ CreateMutex(t) \/ TestCreated(t) \/ NewLock(t)
             \/ SetInitialized(t) \/ WaitMutex(t)
      PROVE  Moves
  <2>1. CASE SetMode(t) \/ TestMutex(t) \/ CreateMutex(t)
    BY <1>1, <2>1 DEF SetMode, TestMutex, CreateMutex
  <2>2. CASE NewLock(t) \/ SetInitialized(t) \/ WaitMutex(t)
    BY <1>1, <2>2 DEF NewLock, SetInitialized, WaitMutex
  <2>3. CASE TestCreated(t)
    <3>1. /\ UNCHANGED status /\ pc[t] \in {"created", "createFailed"}
          /\ \E to \in Before \cup {"lockMode"} : Goto(t, pc[t], to)
      BY <2>3 DEF TestCreated, Before
    <3> QED
      BY <1>1, <3>1 DEF Before
  <2> QED
    BY <1>5, <2>1, <2>2, <2>3
<1>6. ASSUME NEW t \in Threads,
             \/ Acquire(t) \/ ReleaseMutex(t) \/ Leave(t) \/ Spawn(t)
             \/ LogMessageEnters(t) \/ CloseLogFileEnters(t)
      PROVE  Moves
  BY <1>1, <1>6
  DEF Acquire, ReleaseMutex, Leave, Spawn, LogMessageEnters, CloseLogFileEnters
<1>7. ASSUME NEW t \in Threads, NEW s, NEW d, InitLoggingEnters(t, s, d) PROVE Moves
  BY <1>7 DEF InitLoggingEnters, Moves
<1>8. ASSUME NEW p \in Procs, Crash(p) PROVE Ends
  BY <1>8 DEF Crash, ExitCause, Ends
<1> QED
  BY <1>3, <1>4, <1>5, <1>6, <1>7, <1>8 DEF LockNext, LockStep, Ends, Moves

\* The threads of a process that has ended take no more steps, and no others end.
LEMMA LockEnds == LockSpec => []EndedTogether
<1>1. LockInit => EndedTogether
  BY ProcessAssumption DEF LockInit, EndedTogether
<1>2. ASSUME LockTypeOK, EndedTogether, [LockNext]_lockVars PROVE EndedTogether'
  <2> USE ProcessAssumption DEF EndedTogether
  <2>1. DOMAIN pc = Threads /\ DOMAIN status = Procs
    BY <1>2 DEF LockTypeOK
  <2>2. ASSUME NEW p \in Procs, NEW cause, cause # "running", Terminate(p, cause)
        PROVE  EndedTogether'
    BY <1>2, <2>1, <2>2 DEF Terminate
  <2>3. ASSUME UNCHANGED status, NEW t \in Threads, NEW to, pc[t] # "dead", to # "dead",
               pc' = [pc EXCEPT ![t] = to]
        PROVE  EndedTogether'
    BY <1>2, <2>1, <2>3
  <2>4. CASE UNCHANGED lockVars
    BY <1>2, <2>4 DEF lockVars
  <2> QED
    BY <1>2, <2>2, <2>3, <2>4, LockStepEnds
<1> QED
  BY <1>1, <1>2, LockTypeCorrect, PTL DEF LockSpec

-----------------------------------------------------------------------------
(***************************************************************************)
(* The disciplined use: which object the lock of a process is.             *)
(***************************************************************************)

\* The static fields take values of the settings of their process only: the
\* arguments of a log statement never reach them.
LEMMA LockNamedStep ==
  Disciplined /\ LockInv /\ LockNamed /\ [LockNext]_lockVars => LockNamed'
<1> SUFFICES ASSUME Disciplined, LockInv, LockNamed, [LockNext]_lockVars PROVE LockNamed'
  OBVIOUS
<1>1. /\ pc \in [Threads -> Location] /\ initialized \in [Procs -> BOOLEAN]
      /\ lock_log_file \in [Procs -> LogLockingState]
      /\ log_mutex \in [Procs -> Paths \cup {NULL}]
      /\ call \in [Threads -> [lock_log : LogLockingState, log_file : Paths \cup {NULL}]]
  BY DEF LockInv, LockTypeOK
<1>2. \A t \in Threads : pc[t] \in Before \ {"check"} => ~initialized[ProcOf[t]]
  BY DEF LockInv, InitAlone
<1>3. \A t \in Threads : pc[t] = "out" => initialized[ProcOf[t]]
  BY DEF LockInv, InitAlone
<1> USE <1>1, ProcessAssumption, LockAssumption DEF LockNamed, Goto, Before
<1>4. ASSUME NEW t \in Threads, CheckInitialized(t) PROVE LockNamed'
  BY <1>4 DEF CheckInitialized
<1>5. ASSUME NEW t \in Threads, SetMode(t) PROVE LockNamed'
  <2>1. PICK s \in SettingsOf[ProcOf[t]] :
          call[t].lock_log = s.lock_log /\ call[t].log_file = s.log_file
    BY <1>2, <1>5 DEF SetMode
  <2>2. pc' = [pc EXCEPT ![t] = "testMode"] /\ pc[t] = "setMode"
    BY <1>5 DEF SetMode
  <2>3. UNCHANGED <<call, initialized, log_mutex>>
    BY <1>5 DEF SetMode
  <2>4. \A p \in Procs : lock_log_file'[p] # "LOCK_LOG_FILE" =>
          \E r \in SettingsOf[p] : r.lock_log # "LOCK_LOG_FILE"
    BY <1>5, <2>1 DEF SetMode
  <2>5. \A u \in Threads : pc'[u] \in Before => pc[u] \in Before
    BY <2>2
  <2>6. \A u \in Threads : pc'[u] \in Before /\ ~initialized'[ProcOf[u]] =>
          \E r \in SettingsOf[ProcOf[u]] :
            call'[u].lock_log = r.lock_log /\ call'[u].log_file = r.log_file
    BY <2>3, <2>5
  <2>7. \A p \in Procs : log_mutex'[p] \in {NULL} \cup MutexesOf(p)
    BY <2>3
  <2> QED
    BY <2>4, <2>6, <2>7, Zenon
<1>6. ASSUME NEW t \in Threads, TestMode(t) PROVE LockNamed'
  BY <1>6 DEF TestMode
<1>7. ASSUME NEW t \in Threads, TestMutex(t) PROVE LockNamed'
  BY <1>7 DEF TestMutex
<1>8. ASSUME NEW t \in Threads, CreateMutex(t) PROVE LockNamed'
  <2>1. PICK s \in SettingsOf[ProcOf[t]] :
          call[t].lock_log = s.lock_log /\ call[t].log_file = s.log_file
    BY <1>2, <1>8 DEF CreateMutex
  <2>2. /\ pc[t] = "createMutex" /\ pc' = [pc EXCEPT ![t] = "created"]
        /\ log_mutex' = [log_mutex EXCEPT ![ProcOf[t]] = SafeName(call[t].log_file)]
        /\ UNCHANGED <<call, initialized, lock_log_file>>
    BY <1>8 DEF CreateMutex, Disciplined
  <2>3. SafeName(call[t].log_file) \in MutexesOf(ProcOf[t])
    BY <2>1 DEF MutexesOf
  <2>4. \A p \in Procs : log_mutex'[p] \in {NULL} \cup MutexesOf(p)
    BY <2>2, <2>3
  <2>5. \A u \in Threads : pc'[u] \in Before => pc[u] \in Before
    BY <2>2
  <2>6. UNCHANGED <<call, initialized, lock_log_file>>
    BY <2>2
  <2> QED
    BY <2>4, <2>5, <2>6, Zenon
<1>9. ASSUME NEW t \in Threads, TestCreated(t) PROVE LockNamed'
  BY <1>9 DEF TestCreated
<1>10. ASSUME NEW t \in Threads, NewLock(t) PROVE LockNamed'
  BY <1>10 DEF NewLock
<1>11. ASSUME NEW t \in Threads, SetInitialized(t) PROVE LockNamed'
  BY <1>11 DEF SetInitialized
<1>12. ASSUME NEW t \in Threads, LogMessageEnters(t) PROVE LockNamed'
  BY <1>3, <1>12 DEF LogMessageEnters
<1>13. ASSUME NEW t \in Threads, NEW s \in SettingsOf[ProcOf[t]], NEW d,
              InitLoggingEnters(t, s, d)
       PROVE LockNamed'
  <2>1. UNCHANGED <<initialized, lock_log_file, log_mutex>>
    BY <1>13 DEF InitLoggingEnters, fields
  <2>2. call'[t].lock_log = s.lock_log /\ call'[t].log_file = s.log_file
    BY <1>13 DEF InitLoggingEnters
  <2>3. \A u \in Threads \ {t} : call'[u] = call[u] /\ pc'[u] = pc[u]
    BY <1>13 DEF InitLoggingEnters
  <2> QED
    BY <2>1, <2>2, <2>3
<1>14. ASSUME NEW t \in Threads, NEW from, NEW to, from \notin Before, to \notin Before,
              Goto(t, from, to), UNCHANGED <<call, fields>>
       PROVE LockNamed'
  BY <1>14 DEF fields
<1>15. ASSUME NEW p \in Procs, NEW c, Terminate(p, c) PROVE LockNamed'
  BY <1>15 DEF Terminate, fields
<1>16. ASSUME NEW t \in Threads,
              \/ LockMode(t) \/ WaitMutex(t) \/ EnterLock(t) \/ Acquire(t) \/ Leave(t)
              \/ UnlockMode(t) \/ ReleaseMutex(t) \/ LeaveLock(t) \/ Spawn(t)
              \/ CloseLogFileEnters(t)
       PROVE LockNamed'
  <2>1. CASE \E c : Terminate(ProcOf[t], c)
    BY <1>15, <2>1
  <2>2. CASE \E from, to : from \notin Before /\ to \notin Before /\ Goto(t, from, to)
                           /\ UNCHANGED <<call, fields>>
    BY <1>14, <2>2
  <2> QED
    BY <1>16, <2>1, <2>2
    DEF LockMode, WaitMutex, EnterLock, Acquire, Leave, UnlockMode, ReleaseMutex, LeaveLock,
        Spawn, CloseLogFileEnters
<1>17. CASE UNCHANGED lockVars
  BY <1>17 DEF lockVars
<1> QED
  BY <1>4, <1>5, <1>6, <1>7, <1>8, <1>9, <1>10, <1>11, <1>12, <1>13, <1>15, <1>16, <1>17
  DEF LockNext, LockStep, Crash

\* Under the discipline a process takes the lock its settings ask for.
LEMMA LockNaming == Disciplined /\ LockSpec => []LockNamed
<1>1. LockInit => LockNamed
  BY ProcessAssumption, LockAssumption DEF LockInit, LockNamed, Before
<1>2. Disciplined => (LockInv /\ LockNamed /\ [LockNext]_lockVars => LockNamed')
  BY LockNamedStep
<1>3. ASSUME Disciplined PROVE LockSpec => []LockNamed
  <2>1. LockSpec => []LockInv
    BY <1>3, LockInvariant
  <2> QED
    BY <1>1, <1>2, <1>3, <2>1, PTL DEF LockSpec
<1> QED
  BY <1>3

-----------------------------------------------------------------------------
(***************************************************************************)
(* The on-demand use: every process takes the mutex of the default file,   *)
(* whichever threads race through Init.                                    *)
(***************************************************************************)

\* Nobody is inside the lock before the first call, and no mutex is open.
LEMMA OnDemandInit == OnDemandUse /\ LockInit => OnDemandInv
<1> SUFFICES ASSUME OnDemandUse, LockInit PROVE OnDemandInv
  OBVIOUS
<1>1. LockTypeOK
  BY ProcessAssumption, LockAssumption
  DEF LockInit, LockTypeOK, Location, Before, Taking, Inside, Objects, Free,
      OnDemand, LogLockingState
<1>2. \A t \in Threads : pc[t] \in {"unborn", "start", "out"}
  BY DEF LockInit
<1>3. DefaultMutex
  BY <1>2, ProcessAssumption, LockAssumption
  DEF LockInit, DefaultMutex, OnDemand, SafeName, Taking, Inside
<1>4. DefaultOwned
  BY <1>2, LockAssumption DEF LockInit, DefaultOwned, Inside, Objects, Free
<1> QED
  BY <1>1, <1>3, <1>4 DEF OnDemandInv

\* Every write of Init to a static field is a write of the same value.
LEMMA DefaultMutexStep ==
  ASSUME OnDemandUse, OnDemandInv, [LockNext]_lockVars
  PROVE  DefaultMutex'
<1> USE ProcessAssumption, LockAssumption
     DEF OnDemandInv, LockTypeOK, DefaultMutex, Goto, Taking, Inside
<1>1. ASSUME NEW t \in Threads, CheckInitialized(t) PROVE DefaultMutex'
  BY <1>1 DEF CheckInitialized
<1>2. ASSUME NEW t \in Threads, SetMode(t) PROVE DefaultMutex'
  BY <1>2 DEF SetMode
<1>3. ASSUME NEW t \in Threads, TestMode(t) PROVE DefaultMutex'
  BY <1>3 DEF TestMode
<1>4. ASSUME NEW t \in Threads, TestMutex(t) PROVE DefaultMutex'
  BY <1>4 DEF TestMutex
<1>5. ASSUME NEW t \in Threads, CreateMutex(t) PROVE DefaultMutex'
  BY <1>5 DEF CreateMutex, OnDemandUse
<1>6. ASSUME NEW t \in Threads, TestCreated(t) PROVE DefaultMutex'
  BY <1>6 DEF TestCreated
<1>7. ASSUME NEW t \in Threads, NewLock(t) PROVE DefaultMutex'
  BY <1>7 DEF NewLock
<1>8. ASSUME NEW t \in Threads, SetInitialized(t) PROVE DefaultMutex'
  BY <1>8 DEF SetInitialized
<1>9. ASSUME NEW t \in Threads, LockMode(t) PROVE DefaultMutex'
  BY <1>9 DEF LockMode
<1>10. ASSUME NEW t \in Threads, WaitMutex(t) PROVE DefaultMutex'
  BY <1>10 DEF WaitMutex
<1>11. ASSUME NEW t \in Threads, EnterLock(t) PROVE DefaultMutex'
  BY <1>11 DEF EnterLock
<1>12. ASSUME NEW t \in Threads, Acquire(t) PROVE DefaultMutex'
  BY <1>12 DEF Acquire
<1>13. ASSUME NEW t \in Threads, Leave(t) PROVE DefaultMutex'
  BY <1>13 DEF Leave
<1>14. ASSUME NEW t \in Threads, UnlockMode(t) PROVE DefaultMutex'
  BY <1>14 DEF UnlockMode
<1>15. ASSUME NEW t \in Threads, ReleaseMutex(t) PROVE DefaultMutex'
  BY <1>15 DEF ReleaseMutex
<1>16. ASSUME NEW t \in Threads, LeaveLock(t) PROVE DefaultMutex'
  BY <1>16 DEF LeaveLock
<1>17. ASSUME NEW t \in Threads, Spawn(t) PROVE DefaultMutex'
  BY <1>17 DEF Spawn
<1>18. ASSUME NEW t \in Threads, LogMessageEnters(t) PROVE DefaultMutex'
  BY <1>18 DEF LogMessageEnters, OnDemand, SafeName
<1>19. ASSUME NEW t \in Threads, CloseLogFileEnters(t) PROVE DefaultMutex'
  BY <1>19 DEF CloseLogFileEnters, OnDemandUse
<1>20. ASSUME NEW t \in Threads, NEW s \in SettingsOf[ProcOf[t]], NEW d,
              InitLoggingEnters(t, s, d)
       PROVE DefaultMutex'
  BY <1>20 DEF InitLoggingEnters, OnDemandUse
<1>21. ASSUME NEW p \in Procs, NEW c, Terminate(p, c) PROVE DefaultMutex'
  BY <1>21 DEF Terminate
<1>22. CASE UNCHANGED lockVars
  BY <1>22 DEF lockVars
<1> QED
  BY <1>1, <1>2, <1>3, <1>4, <1>5, <1>6, <1>7, <1>8, <1>9, <1>10, <1>11, <1>12, <1>13,
     <1>14, <1>15, <1>16, <1>17, <1>18, <1>19, <1>20, <1>21, <1>22
  DEF LockNext, LockStep, Crash

\* The default mutex has one owner at most, who is inside the lock.
LEMMA DefaultOwnedStep ==
  ASSUME OnDemandUse, OnDemandInv, [LockNext]_lockVars
  PROVE  DefaultOwned'
<1>1. /\ pc \in [Threads -> Location] /\ lock \in [Objects -> LockState]
      /\ \A o \in Objects : lock[o].owner \in Threads <=> lock[o].count > 0
      /\ DefaultPath \in Objects /\ DefaultPath # NULL
  BY LockAssumption DEF OnDemandInv, LockTypeOK, LockState, Objects
<1>2. ASSUME NEW t \in Threads, NEW from, NEW to, Goto(t, from, to),
             from \in Inside <=> to \in Inside, UNCHANGED lock
      PROVE  DefaultOwned'
  BY <1>1, <1>2 DEF OnDemandInv, DefaultOwned, Goto
<1>3. ASSUME NEW t \in Threads, Acquire(t) PROVE DefaultOwned'
  <2>1. pc[t] = "blocked" /\ pc' = [pc EXCEPT ![t] = "in"] /\ target[t] = DefaultPath
    BY <1>3 DEF Acquire, Goto, OnDemandInv, DefaultMutex
  <2>2. lock[DefaultPath].owner = NULL
    BY <1>1, <1>3, <2>1 DEF Acquire, OnDemandInv, DefaultOwned, Inside
  <2>3. lock[DefaultPath].count = 0
    BY <1>1, <2>2, LockAssumption DEF LockState
  <2>4. lock' = [lock EXCEPT ![DefaultPath] = [owner |-> t, count |-> 1]]
    BY <1>3, <2>1, <2>3 DEF Acquire
  <2>5. \A u \in Threads : pc[u] \notin Inside
    <3> SUFFICES ASSUME NEW u \in Threads, pc[u] \in Inside PROVE FALSE
      OBVIOUS
    <3>1. lock[DefaultPath] = [owner |-> u, count |-> 1]
      BY DEF OnDemandInv, DefaultOwned
    <3> QED
      BY <2>3, <3>1
  <2> QED
    BY <1>1, <2>1, <2>4, <2>5, LockAssumption DEF OnDemandInv, DefaultOwned, Inside
<1>4. ASSUME NEW t \in Threads, ReleaseMutex(t) PROVE DefaultOwned'
  <2>1. /\ pc[t] = "releaseMutex" /\ pc' = [pc EXCEPT ![t] = "out"]
        /\ log_mutex[ProcOf[t]] = DefaultPath
    BY <1>4 DEF ReleaseMutex, Goto, OnDemandInv, DefaultMutex, Inside
  <2>2. lock[DefaultPath] = [owner |-> t, count |-> 1]
    BY <2>1 DEF OnDemandInv, DefaultOwned, Inside
  <2>3. lock' = [lock EXCEPT ![DefaultPath] = Free]
    BY <1>1, <1>4, <2>1, <2>2 DEF ReleaseMutex, Released
  <2>4. \A u \in Threads : pc'[u] \notin Inside
    <3> SUFFICES ASSUME NEW u \in Threads, pc'[u] \in Inside PROVE FALSE
      OBVIOUS
    <3>1. u # t /\ pc[u] \in Inside
      BY <1>1, <2>1 DEF Inside
    <3>2. lock[DefaultPath] = [owner |-> u, count |-> 1]
      BY <3>1 DEF OnDemandInv, DefaultOwned
    <3> QED
      BY <2>2, <3>1, <3>2
  <2>5. \A o \in Objects, u \in Threads : lock'[o].owner # u
    BY <1>1, <2>2, <2>3, LockAssumption DEF OnDemandInv, DefaultOwned, Free
  <2>6. lock'[DefaultPath].owner # "broken"
    BY <1>1, <2>3, LockAssumption DEF Free
  <2> QED
    BY <2>4, <2>5, <2>6 DEF DefaultOwned
<1>5. ASSUME NEW p \in Procs, NEW c, Terminate(p, c) PROVE DefaultOwned'
  <2>1. \A u \in Threads : pc'[u] \in Inside => ProcOf[u] # p /\ pc[u] \in Inside
    BY <1>1, <1>5 DEF Terminate, Inside
  <2>2. \A o \in Objects :
          lock'[o] = IF \E u \in Threads : ProcOf[u] = p /\ lock[o].owner = u
                     THEN Free ELSE lock[o]
    BY <1>5 DEF Terminate
  <2>3. \A u \in Threads : pc'[u] \in Inside => lock'[DefaultPath] = [owner |-> u, count |-> 1]
    BY <1>1, <2>1, <2>2 DEF OnDemandInv, DefaultOwned
  <2>4. \A o \in Objects, u \in Threads :
          lock'[o].owner = u => lock[o].owner = u /\ ProcOf[u] # p
    BY <2>2, LockAssumption DEF Free
  <2>5. \A u \in Threads : ProcOf[u] # p => pc'[u] = pc[u]
    BY <1>5 DEF Terminate
  <2>6. lock'[DefaultPath].owner # "broken"
    BY <1>1, <2>2, LockAssumption DEF Free, OnDemandInv, DefaultOwned
  <2> QED
    BY <2>3, <2>4, <2>5, <2>6 DEF OnDemandInv, DefaultOwned
<1>6. ASSUME NEW t \in Threads,
             \/ CheckInitialized(t) \/ SetMode(t) \/ TestMode(t) \/ TestMutex(t)
             \/ CreateMutex(t) \/ TestCreated(t) \/ NewLock(t) \/ SetInitialized(t)
             \/ LockMode(t) \/ Leave(t) \/ UnlockMode(t) \/ Spawn(t)
             \/ LogMessageEnters(t) \/ CloseLogFileEnters(t)
             \/ \E s, d : InitLoggingEnters(t, s, d)
      PROVE  DefaultOwned'
  <2>1. /\ UNCHANGED lock
        /\ \E from, to : Goto(t, from, to) /\ (from \in Inside <=> to \in Inside)
    BY <1>6
    DEF CheckInitialized, SetMode, TestMode, TestMutex, CreateMutex, TestCreated, NewLock,
        SetInitialized, LockMode, Leave, UnlockMode, Spawn, LogMessageEnters,
        CloseLogFileEnters, InitLoggingEnters, Inside, Goto
  <2> QED
    BY <1>2, <2>1
<1>7. ASSUME NEW t \in Threads, WaitMutex(t) PROVE DefaultOwned'
  <2>1. Goto(t, "waitMutex", "blocked") /\ UNCHANGED lock
    BY <1>1, <1>7 DEF WaitMutex, Goto, OnDemandInv, DefaultMutex, Taking
  <2> QED
    BY <1>2, <2>1 DEF Inside
<1>8. ASSUME NEW t \in Threads, EnterLock(t) \/ LeaveLock(t) PROVE FALSE
  BY <1>8 DEF EnterLock, LeaveLock, OnDemandInv, DefaultMutex
<1>9. CASE UNCHANGED lockVars
  BY <1>9 DEF lockVars, OnDemandInv, DefaultOwned
<1> QED
  BY <1>3, <1>4, <1>5, <1>6, <1>7, <1>8, <1>9 DEF LockNext, LockStep, Crash

\* A machine on which every process logs to the default file, under its mutex,
\* needs no InitLogging first: all threads of all processes take that one mutex,
\* one after the other, although their calls of Init race.
THEOREM LockOnDemand == OnDemandUse /\ LockSpec => []OnDemandInv
<1>1. OnDemandUse => (LockInit => OnDemandInv)
  BY OnDemandInit
<1>2. OnDemandUse => (OnDemandInv /\ [LockNext]_lockVars => OnDemandInv')
  BY LockTypeStep, DefaultMutexStep, DefaultOwnedStep DEF OnDemandInv
<1>3. ASSUME OnDemandUse PROVE LockSpec => []OnDemandInv
  BY <1>1, <1>2, <1>3, PTL DEF LockSpec
<1> QED
  BY <1>3
=============================================================================
