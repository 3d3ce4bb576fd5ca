---------------------------- MODULE LoggingLock ----------------------------
(***************************************************************************)
(* class LoggingLock of src/src/logging.cc: the lock every log statement,  *)
(* every InitLogging and every CloseLogFile takes around the log file.     *)
(*                                                                         *)
(* A process keeps four static fields (initialized, lock_log_file,         *)
(* log_mutex, log_lock) that its threads read and write without any        *)
(* synchronisation; the lock itself is either a machine-wide named mutex   *)
(* (LOCK_LOG_FILE) or a critical section of the process                    *)
(* (DONT_LOCK_LOG_FILE).  Every read or write of a static field and every  *)
(* system call is a step of its own, so threads interleave inside          *)
(* LoggingLock::Init as they do in the program.                            *)
(*                                                                         *)
(* What a thread does while it holds the lock is left to the modules that  *)
(* extend this one: here it is the location "in".                          *)
(***************************************************************************)
EXTENDS Naturals

CONSTANTS
  Procs,             \* processes that log on one machine
  Threads,           \* threads of all the processes
  ProcOf,            \* ProcOf[t]: the process thread t belongs to
  MainOf,            \* MainOf[p]: the main thread of process p
  Paths,             \* log file paths, which also name the mutexes
  DefaultPath,       \* what GetDefaultLogFile() returns
  SettingsOf,        \* SettingsOf[p]: the LoggingSettings p passes to InitLogging
  InitFirst,         \* main calls InitLogging before it starts other threads
  CloseCalls,        \* the host program calls CloseLogFile
  CreateMutexFails,  \* CreateMutex may return NULL
  NULL

LogLockingState == {"LOCK_LOG_FILE", "DONT_LOCK_LOG_FILE"}

\* logging_dest is a bit set: LOG_TO_FILE is the bit "file",
\* LOG_TO_SYSTEM_DEBUG_LOG the bit "debug".
LoggingSettings ==
  [logging_dest : SUBSET {"file", "debug"},
   log_file     : Paths \cup {NULL},
   lock_log     : LogLockingState,
   delete_old   : BOOLEAN]

ASSUME ProcessAssumption ==
  /\ ProcOf \in [Threads -> Procs]
  /\ MainOf \in [Procs -> Threads]
  /\ \A p \in Procs : ProcOf[MainOf[p]] = p

ASSUME LockAssumption ==
  /\ DefaultPath \in Paths
  /\ NULL \notin Paths \cup Threads \cup {"broken"}
  /\ Paths \cap Threads = {}
  /\ "broken" \notin Threads
  /\ SettingsOf \in [Procs -> SUBSET LoggingSettings]
  /\ InitFirst \in BOOLEAN
  /\ CloseCalls \in BOOLEAN
  /\ CreateMutexFails \in BOOLEAN

VARIABLES
  pc,             \* where each thread stands in LoggingLock
  call,           \* the arguments of its LoggingLock::Init
  target,         \* the lock object it is blocked on
  initialized, lock_log_file, log_mutex, log_lock,   \* static fields, per process
  lock,           \* owner and recursion count of every lock object
  status          \* whether each process runs, or what ended it

fields == <<initialized, lock_log_file, log_mutex, log_lock>>
lockVars == <<pc, call, target, fields, lock, status>>

\* Lock objects: the mutex named after a path (a handle is represented by the
\* object it opens), and the critical section a thread allocated.  A thread
\* allocates at most one: its own SetInitialized follows and is never undone.
Objects == Paths \cup Threads
Free    == [owner |-> NULL, count |-> 0]
Broken  == [owner |-> "broken", count |-> 0]

Before == {"check", "setMode", "testMode", "testMutex", "createMutex",
           "created", "createFailed", "newLock", "setInitialized"}
Taking == {"lockMode", "waitMutex", "enterLock", "blocked"}
Inside == {"in", "unlockMode", "releaseMutex", "leaveLock"}
Location == {"unborn", "start", "out", "dead"} \cup Before \cup Taking \cup Inside

ExitCause == {"killed", "fatal", "fault", "abort"}

LockTypeOK ==
  /\ pc \in [Threads -> Location]
  /\ call \in [Threads -> [lock_log : LogLockingState, log_file : Paths \cup {NULL}]]
  /\ target \in [Threads -> Objects \cup {NULL}]
  /\ initialized \in [Procs -> BOOLEAN]
  /\ lock_log_file \in [Procs -> LogLockingState]
  /\ log_mutex \in [Procs -> Paths \cup {NULL}]
  /\ log_lock \in [Procs -> Threads \cup {NULL}]
  /\ lock \in [Objects -> [owner : Threads \cup {NULL, "broken"}, count : Nat]]
  /\ \A o \in Objects : lock[o].owner \in Threads <=> lock[o].count > 0
  /\ status \in [Procs -> {"running", "nullLock"} \cup ExitCause]

\* The arguments of a log statement's LoggingLock::Init(LOCK_LOG_FILE, NULL).
OnDemand == [lock_log |-> "LOCK_LOG_FILE", log_file |-> NULL]

LockInit ==
  /\ pc = [t \in Threads |->
             IF t # MainOf[ProcOf[t]] THEN "unborn"
             ELSE IF InitFirst THEN "start" ELSE "out"]
  /\ call = [t \in Threads |-> OnDemand]
  /\ target = [t \in Threads |-> NULL]
  /\ initialized = [p \in Procs |-> FALSE]
  /\ lock_log_file = [p \in Procs |-> "LOCK_LOG_FILE"]
  /\ log_mutex = [p \in Procs |-> NULL]
  /\ log_lock = [p \in Procs |-> NULL]
  /\ lock = [o \in Objects |-> Free]
  /\ status = [p \in Procs |-> "running"]

-----------------------------------------------------------------------------
(***************************************************************************)
(* The operating system and the host program.                              *)
(***************************************************************************)

Goto(t, from, to) ==
  /\ pc[t] = from
  /\ pc' = [pc EXCEPT ![t] = to]

\* Nothing else changes.
Move(t, from, to) ==
  /\ Goto(t, from, to)
  /\ UNCHANGED <<call, target, fields, lock, status>>

\* A process ends.  The kernel abandons the mutexes its threads own, so the
\* next waiter gets WAIT_ABANDONED, which LockLogging treats as success.
Terminate(p, cause) ==
  /\ status[p] = "running"
  /\ status' = [status EXCEPT ![p] = cause]
  /\ pc' = [t \in Threads |-> IF ProcOf[t] = p THEN "dead" ELSE pc[t]]
  /\ lock' = [o \in Objects |->
                IF \E t \in Threads : ProcOf[t] = p /\ lock[o].owner = t
                THEN Free ELSE lock[o]]
  /\ UNCHANGED <<call, target, fields>>

Crash(p) == \E cause \in ExitCause : Terminate(p, cause)

\* The main thread starts another thread; with InitFirst it has returned from
\* its first InitLogging by then.
Spawn(t) ==
  /\ pc[MainOf[ProcOf[t]]] = "out"
  /\ Move(t, "unborn", "out")

-----------------------------------------------------------------------------
(***************************************************************************)
(* The three callers that construct a LoggingLock.                         *)
(***************************************************************************)

\* Mutant: log statements initialise on demand with DONT_LOCK_LOG_FILE.
LogMessageEntersUnshared(t) ==
  /\ Goto(t, "out", "check")
  /\ call' = [call EXCEPT ![t] = [OnDemand EXCEPT !.lock_log = "DONT_LOCK_LOG_FILE"]]
  /\ UNCHANGED <<target, fields, lock, status>>

\* ~LogMessage: LoggingLock::Init(LOCK_LOG_FILE, NULL); LoggingLock l;
LogMessageEnters(t) ==
  /\ Goto(t, "out", "check")
  /\ call' = [call EXCEPT ![t] = OnDemand]
  /\ UNCHANGED <<target, fields, lock, status>>

\* BaseInitLoggingImpl: returns before it touches the lock unless the
\* destination it reads back has LOG_TO_FILE; that is the one it has just
\* stored or, in a race, one that another InitLogging has stored since.
InitLoggingEnters(t, s, destination) ==
  /\ InitFirst => t = MainOf[ProcOf[t]]
  /\ pc[t] \in {"start", "out"}
  /\ pc' = [pc EXCEPT ![t] = IF "file" \in destination THEN "check" ELSE "out"]
  /\ call' = [call EXCEPT ![t] = [lock_log |-> s.lock_log, log_file |-> s.log_file]]
  /\ UNCHANGED <<target, fields, lock, status>>

\* CloseLogFile: LoggingLock l; with no call of LoggingLock::Init.
CloseLogFileEnters(t) ==
  /\ CloseCalls
  /\ Move(t, "out", "lockMode")

-----------------------------------------------------------------------------
(***************************************************************************)
(* LoggingLock::Init(lock_log, new_log_file)                               *)
(***************************************************************************)

\* Mutant: Init does not return early when it has run before.
CheckInitializedNever(t) == Move(t, "check", "setMode")

\* if (initialized) return;
CheckInitialized(t) == Move(t, "check", IF initialized[ProcOf[t]] THEN "lockMode" ELSE "setMode")

\* Mutant: initialized is set first.
SetModeAndInitialized(t) ==
  /\ Goto(t, "setMode", "testMode")
  /\ lock_log_file' = [lock_log_file EXCEPT ![ProcOf[t]] = call[t].lock_log]
  /\ initialized' = [initialized EXCEPT ![ProcOf[t]] = TRUE]
  /\ UNCHANGED <<call, target, log_mutex, log_lock, lock, status>>

\* lock_log_file = lock_log;
SetMode(t) ==
  /\ Goto(t, "setMode", "testMode")
  /\ lock_log_file' = [lock_log_file EXCEPT ![ProcOf[t]] = call[t].lock_log]
  /\ UNCHANGED <<call, target, initialized, log_mutex, log_lock, lock, status>>

\* if (lock_log_file == LOCK_LOG_FILE): the build may test the value it has just
\* stored or load the field again.
TestMode(t) ==
  \E seen \in {call[t].lock_log, lock_log_file[ProcOf[t]]} :
    Move(t, "testMode", IF seen = "LOCK_LOG_FILE" THEN "testMutex" ELSE "newLock")

\* if (!log_mutex)
TestMutex(t) ==
  Move(t, "testMutex", IF log_mutex[ProcOf[t]] = NULL THEN "createMutex" ELSE "setInitialized")

\* The path the mutex is named after (the replacement of \ by / only makes it
\* a legal name: paths are taken up to the direction of their slashes).
SafeName(path) == IF path = NULL THEN DefaultPath ELSE path

\* Mutant: the mutex has no name, so that no other process shares it.
CreateMutexUnnamed(t) ==
  /\ Goto(t, "createMutex", "created")
  /\ log_mutex' = [log_mutex EXCEPT ![ProcOf[t]] = t]
  /\ UNCHANGED <<call, target, initialized, lock_log_file, log_lock, lock, status>>

\* log_mutex = ::CreateMutex(NULL, FALSE, L"Global\\" + safe_name);
CreateMutex(t) ==
  /\ \/ /\ Goto(t, "createMutex", "created")
        /\ log_mutex' = [log_mutex EXCEPT ![ProcOf[t]] = SafeName(call[t].log_file)]
     \/ /\ CreateMutexFails
        /\ Goto(t, "createMutex", "createFailed")
        /\ log_mutex' = [log_mutex EXCEPT ![ProcOf[t]] = NULL]
  /\ UNCHANGED <<call, target, initialized, lock_log_file, log_lock, lock, status>>

\* if (log_mutex == NULL) return;  without setting initialized.  Again the build
\* may test the value it stored (which "created" and "createFailed" stand for)
\* or the field as it is now.
TestCreated(t) ==
  \E null \in {pc[t] = "createFailed", log_mutex[ProcOf[t]] = NULL} :
    /\ pc[t] \in {"created", "createFailed"}
    /\ Move(t, pc[t], IF null THEN "lockMode" ELSE "setInitialized")

\* Mutant: the new LockImpl is stored where the mutex belongs.
NewLockInMutex(t) ==
  /\ Goto(t, "newLock", "setInitialized")
  /\ log_mutex' = [log_mutex EXCEPT ![ProcOf[t]] = t]
  /\ UNCHANGED <<call, target, initialized, lock_log_file, log_lock, lock, status>>

\* log_lock = new base::internal::LockImpl();
NewLock(t) ==
  /\ Goto(t, "newLock", "setInitialized")
  /\ log_lock' = [log_lock EXCEPT ![ProcOf[t]] = t]
  /\ UNCHANGED <<call, target, initialized, lock_log_file, log_mutex, lock, status>>

\* initialized = true;
SetInitialized(t) ==
  /\ Goto(t, "setInitialized", "lockMode")
  /\ initialized' = [initialized EXCEPT ![ProcOf[t]] = TRUE]
  /\ UNCHANGED <<call, target, lock_log_file, log_mutex, log_lock, lock, status>>

-----------------------------------------------------------------------------
(***************************************************************************)
(* LockLogging() and UnlockLogging()                                       *)
(***************************************************************************)

LockMode(t) ==
  Move(t, "lockMode",
       IF lock_log_file[ProcOf[t]] = "LOCK_LOG_FILE" THEN "waitMutex" ELSE "enterLock")

\* Mutant: the wait times out at once.
WaitMutexNot(t) == Move(t, "waitMutex", "in")

\* ::WaitForSingleObject(log_mutex, INFINITE): on a NULL handle it returns
\* WAIT_FAILED at once, and the result is ignored.
WaitMutex(t) ==
  /\ Goto(t, "waitMutex", IF log_mutex[ProcOf[t]] = NULL THEN "in" ELSE "blocked")
  /\ target' = [target EXCEPT ![t] = log_mutex[ProcOf[t]]]
  /\ UNCHANGED <<call, fields, lock, status>>

\* log_lock->Lock(): through a NULL pointer the process faults.
EnterLock(t) ==
  /\ pc[t] = "enterLock"
  /\ \/ /\ log_lock[ProcOf[t]] # NULL
        /\ Goto(t, "enterLock", "blocked")
        /\ target' = [target EXCEPT ![t] = log_lock[ProcOf[t]]]
        /\ UNCHANGED <<call, fields, lock, status>>
     \/ /\ log_lock[ProcOf[t]] = NULL
        /\ Terminate(ProcOf[t], "nullLock")

\* The wait ends: mutexes and critical sections both let their owner in again.
Acquire(t) ==
  /\ Goto(t, "blocked", "in")
  /\ lock[target[t]].owner \in {NULL, t}
  /\ lock' = [lock EXCEPT ![target[t]] = [owner |-> t, count |-> @.count + 1]]
  /\ target' = [target EXCEPT ![t] = NULL]
  /\ UNCHANGED <<call, fields, status>>

\* The scope of the LoggingLock ends.
Leave(t) == Move(t, "in", "unlockMode")

\* Mutant: the two branches of UnlockLogging are exchanged.
UnlockModeExchanged(t) ==
  Move(t, "unlockMode",
       IF lock_log_file[ProcOf[t]] = "LOCK_LOG_FILE" THEN "leaveLock" ELSE "releaseMutex")

UnlockMode(t) ==
  Move(t, "unlockMode",
       IF lock_log_file[ProcOf[t]] = "LOCK_LOG_FILE" THEN "releaseMutex" ELSE "leaveLock")

Released(o) ==
  IF lock[o].count = 1 THEN Free ELSE [lock[o] EXCEPT !.count = @ - 1]

\* Mutant: the mutex is not released.
ReleaseMutexNot(t) == Move(t, "releaseMutex", "out")

\* ReleaseMutex(log_mutex): fails, without effect, unless the thread owns it.
ReleaseMutex(t) ==
  LET o == log_mutex[ProcOf[t]] IN
  /\ Goto(t, "releaseMutex", "out")
  /\ \/ /\ o # NULL
        /\ lock[o].owner = t
        /\ lock' = [lock EXCEPT ![o] = Released(o)]
     \/ /\ o # NULL => lock[o].owner # t
        /\ UNCHANGED lock
  /\ UNCHANGED <<call, target, fields, status>>

\* Mutant: the critical section is not left.
LeaveLockNot(t) == Move(t, "leaveLock", "out")

\* log_lock->Unlock(): leaving a critical section one does not own is undefined;
\* it may go unnoticed, free the section or wedge it.
LeaveLock(t) ==
  LET o == log_lock[ProcOf[t]] IN
  /\ pc[t] = "leaveLock"
  /\ \/ /\ o # NULL
        /\ Goto(t, "leaveLock", "out")
        /\ \E l \in IF lock[o].owner = t THEN {Released(o)} ELSE {lock[o], Free, Broken} :
             lock' = [lock EXCEPT ![o] = l]
        /\ UNCHANGED <<call, target, fields, status>>
     \/ /\ o = NULL
        /\ Terminate(ProcOf[t], "nullLock")

-----------------------------------------------------------------------------
\* The steps a thread takes inside LoggingLock's own functions.
LockStep(t) ==
  \/ CheckInitialized(t) \/ SetMode(t) \/ TestMode(t) \/ TestMutex(t)
  \/ CreateMutex(t) \/ TestCreated(t) \/ NewLock(t) \/ SetInitialized(t)
  \/ LockMode(t) \/ WaitMutex(t) \/ EnterLock(t) \/ Acquire(t)
  \/ UnlockMode(t) \/ ReleaseMutex(t) \/ LeaveLock(t)

LockNext ==
  \/ \E t \in Threads :
       \/ LockStep(t) \/ Leave(t) \/ Spawn(t)
       \/ LogMessageEnters(t) \/ CloseLogFileEnters(t)
       \/ \E s, r \in SettingsOf[ProcOf[t]] : InitLoggingEnters(t, s, r.logging_dest)
  \/ \E p \in Procs : Crash(p)

LockSpec == LockInit /\ [][LockNext]_lockVars

-----------------------------------------------------------------------------
(***************************************************************************)
(* Properties.                                                             *)
(***************************************************************************)

\* The lock object a process uses now.
LockOf(p) == IF lock_log_file[p] = "LOCK_LOG_FILE" THEN log_mutex[p] ELSE log_lock[p]

\* Two threads are never between LockLogging and UnlockLogging together when
\* they are of one process, or of processes that opened the same mutex: the
\* "prevent them from clobbering each other's writes" of ~LogMessage.
MutualExclusion ==
  \A t, u \in Threads :
    /\ t # u
    /\ pc[t] \in Inside /\ pc[u] \in Inside
    => LockOf(ProcOf[t]) # LockOf(ProcOf[u])

\* "This will ensure that the lock is unlocked upon exiting the frame": a thread
\* that is not inside a LoggingLock owns no lock object, whatever Init, which
\* runs unlocked, did to the static fields in the meantime.
UnlockedOnExit ==
  \A t \in Threads : pc[t] \notin Inside => \A o \in Objects : lock[o].owner # t

\* Inside the lock the thread owns, once, the object it is going to release:
\* locks are not nested, and UnlockLogging undoes what LockLogging did.
HoldsWhatItReleases ==
  \A t \in Threads : pc[t] \in Inside =>
    lock[LockOf(ProcOf[t])] = [owner |-> t, count |-> 1]

\* LoggingLock never goes through a NULL log_lock.
NoNullLock == \A p \in Procs : status[p] # "nullLock"

(***************************************************************************)
(* The inductive invariant behind the properties above, when the           *)
(* program keeps to the documented discipline: InitLogging first, from the *)
(* main thread, with LOG_TO_FILE, and CreateMutex works.                   *)
(***************************************************************************)
Disciplined ==
  /\ InitFirst
  /\ ~CreateMutexFails
  /\ \A p \in Procs : \A s \in SettingsOf[p] : "file" \in s.logging_dest

\* Only the main thread runs the body of Init, before any other thread exists.
InitAlone ==
  \A t \in Threads :
    /\ pc[t] \in {"start"} \cup (Before \ {"check"}) =>
         t = MainOf[ProcOf[t]] /\ ~initialized[ProcOf[t]]
    /\ pc[t] = "check" /\ t # MainOf[ProcOf[t]] => initialized[ProcOf[t]]
    /\ pc[t] \in {"out"} \cup Taking \cup Inside => initialized[ProcOf[t]]

\* What Init has established when it reaches each of its steps.
InitProgress ==
  \A t \in Threads : LET p == ProcOf[t] IN
    /\ pc[t] # "createFailed"
    /\ pc[t] = "testMode" => lock_log_file[p] = call[t].lock_log
    /\ pc[t] \in {"testMutex", "createMutex", "created"} => lock_log_file[p] = "LOCK_LOG_FILE"
    /\ pc[t] = "newLock" => lock_log_file[p] = "DONT_LOCK_LOG_FILE"
    /\ pc[t] = "created" => log_mutex[p] # NULL
    /\ pc[t] = "setInitialized" => LockOf(p) # NULL

\* Once initialized, the process has its lock, and every thread that takes or
\* leaves the lock uses that one.
LockReady ==
  /\ \A p \in Procs : initialized[p] => LockOf(p) # NULL
  /\ \A t \in Threads : LET p == ProcOf[t] IN
       /\ pc[t] \in {"waitMutex", "releaseMutex"} => lock_log_file[p] = "LOCK_LOG_FILE"
       /\ pc[t] \in {"enterLock", "leaveLock"} => lock_log_file[p] = "DONT_LOCK_LOG_FILE"
       /\ pc[t] = "blocked" => target[t] = LockOf(p)

\* A lock object is owned only by a thread that is inside the lock it stands for.
OwnedInside ==
  \A o \in Objects :
    /\ lock[o].owner # "broken"
    /\ \A t \in Threads : lock[o].owner = t => pc[t] \in Inside /\ o = LockOf(ProcOf[t])

LockInv ==
  /\ LockTypeOK /\ InitAlone /\ InitProgress /\ LockReady
  /\ HoldsWhatItReleases /\ OwnedInside
=============================================================================
