--------------------------- MODULE Logging_proofs ---------------------------
(***************************************************************************)
(* Proofs about Logging, for any number of processes, threads, files,      *)
(* settings and messages.                                                  *)
(***************************************************************************)
EXTENDS Logging, LoggingLock_proofs

(***************************************************************************)
(* Invariants of every use of the component.                               *)
(***************************************************************************)
LogPlaces == {"trace", "testHandler", "callHandler", "testDebug", "testFile", "testFatal",
              "callAssert", "testDialog", "dialog", "seek", "write"}
InitPlaces == {"testDestination", "rename", "emptyName", "assign", "delete"}

\* Which call a thread executes, from where it stands, and with which arguments.
CallInv ==
  \A t \in Threads :
    /\ at[t] = "idle" => op[t].kind = "none"
    /\ at[t] = "copyPath" => op[t].kind = "path"
    /\ at[t] \in LogPlaces => op[t].kind = "log"
    /\ at[t] \in InitPlaces => op[t].kind = "init"
    /\ at[t] \in {"close", "closeFile", "reset"} => op[t].kind \in {"init", "close"}
    /\ at[t] \in {"testHandle", "testName", "defaultName", "reTestFile", "open", "fallback",
                 "fail", "seekEnd"} => op[t].kind \in {"log", "init"}
    /\ at[t] = "leave" => op[t].kind \in {"log", "init", "close"}
    /\ op[t].kind = "log" => op[t].msg.thread = t /\ op[t].msg.whole
    /\ op[t].kind = "init" =>
         op[t].settings \in SettingsOf[ProcOf[t]] /\ inits[ProcOf[t]] > 0
    /\ at[t] = "delete" => op[t].settings.delete_old
    /\ at[t] = "fail" => OpenFails
    /\ at[t] \in {"callAssert", "testDialog", "dialog"} => op[t].msg.severity = LOG_FATAL

\* Where it stands in LoggingLock, from where it stands outside.
PlaceInv ==
  \A t \in Threads : pc[t] # "dead" =>
    /\ at[t] = "idle" => pc[t] \in {"unborn", "start", "out"} \cup Leaving
    /\ at[t] = "testFatal" => pc[t] \in {"out"} \cup Leaving
    /\ at[t] = "testDestination" => pc[t] \in {"start", "out"}
    /\ at[t] \in Outside \ {"idle", "testFatal", "testDestination"} => pc[t] = "out"
    /\ at[t] \in {"close", "testHandle"} => pc[t] \in Before \cup Taking \cup {"in"}
    /\ at[t] \in Locked \ {"close", "testHandle"} => pc[t] = "in"

Nameds == {"delete", "reTestFile", "open", "fallback", "copyPath"}

\* The destination is the default one or one that was asked for; a name, once
\* there, stays.
GlobalInv ==
  /\ \A p \in Procs :
       IF inits[p] = 0 THEN logging_destination[p] = {"file"}
       ELSE \E s \in SettingsOf[p] : logging_destination[p] = s.logging_dest
  /\ \A t \in Threads : at[t] \in Nameds =>
       log_file_name[ProcOf[t]] # NULL

LoggingInv == LockTypeOK /\ LoggingTypeOK /\ CallInv /\ PlaceInv /\ GlobalInv

\* A FATAL message is printed before anything can end its process.
FatalText(m, p) == m.severity = LOG_FATAL /\ ProcOf[m.thread] = p
PrintedInv ==
  /\ \A t \in Threads :
       InCall(t, "log") /\ op[t].msg.severity = LOG_FATAL
       /\ at[t] \notin {"trace", "testHandler", "callHandler", "testDebug"} =>
         op[t].msg \in printed
  /\ \A p \in Procs : status[p] = "fatal" => \E m \in printed : FatalText(m, p)

(***************************************************************************)
(* What the lock is there for: two threads that have it are of different   *)
(* processes, with different files open.  Two ways of using the component  *)
(* ensure it.                                                              *)
(***************************************************************************)
Guarded ==
  \A t, u \in Threads : t # u /\ pc[t] = "in" /\ pc[u] = "in" =>
    LET p == ProcOf[t]  q == ProcOf[u] IN
    p # q /\ (log_file[p] \in Handle /\ log_file[q] \in Handle =>
                log_file[p].file # log_file[q].file)

\* Processes that may open one file always ask for LOCK_LOG_FILE, and name the
\* mutex alike.
Fallback == IF OpenFails THEN {FileOf[FallbackPath]} ELSE {}
MayOpen(p) == {FileOf[SafeName(s.log_file)] : s \in SettingsOf[p]} \cup Fallback
FilesShareLock ==
  \A p, q \in Procs : p # q /\ MayOpen(p) \cap MayOpen(q) # {} =>
    /\ \A s \in SettingsOf[p] : s.lock_log = "LOCK_LOG_FILE"
    /\ \A s \in SettingsOf[p], r \in SettingsOf[q] : SafeName(s.log_file) = SafeName(r.log_file)

SafeUse == OnDemandUse \/ (Disciplined /\ FilesShareLock)

\* With InitLogging first, no file but one that was asked for, or the fallback, is
\* ever opened: on-demand naming happens only without InitLogging.
Naming(t) ==
  /\ op[t].kind = "init"
  /\ at[t] \in {"testDestination", "close", "closeFile", "reset", "rename", "emptyName", "assign"}
FilesInv ==
  /\ \A p \in Procs :
       /\ log_file_name[p] \notin {NULL, EmptyPath} =>
            \E s \in SettingsOf[p] : log_file_name[p] = s.log_file
       /\ log_file[p] \in Handle => log_file[p].file \in MayOpen(p)
  /\ \A t \in Threads :
       /\ at[t] # "defaultName" /\ (at[t] = "fallback" => OpenFails)
       /\ pc[t] = "in" /\ at[t] = "emptyName" => log_file_name[ProcOf[t]] = NULL
       /\ pc[t] \notin {"unborn", "start", "dead"} /\ ~Naming(t) =>
            log_file_name[ProcOf[t]] \notin {NULL, EmptyPath}

AlwaysToFile == \A p \in Procs : \A s \in SettingsOf[p] : "file" \in s.logging_dest

\* A thread of the process is at one of these places inside, or has ended there.
Busy(p, places) ==
  \E t \in Threads : ProcOf[t] = p /\ (pc[t] = "dead" \/ (pc[t] = "in" /\ at[t] \in places))

Unnamed == {"rename", "emptyName", "assign", "testName", "defaultName", "reTestFile", "open"}
Unopened == {"reset", "fallback", "fail"}

\* The name changes only while no file is open, and the handle is valid or NULL and
\* the name a path again when the lock is left; a thread that is going to write
\* has the file open, and stands at its end after the seek.
HandleInv ==
  /\ \A t \in Threads : LET h == log_file[ProcOf[t]] IN pc[t] = "in" =>
       /\ at[t] \in Unnamed => h = NULL
       /\ at[t] \in Unopened => h \notin Handle
       /\ at[t] = "fallback" => OpenFails
       /\ at[t] = "seekEnd" => h \in Handle
       /\ AlwaysToFile /\ at[t] \in {"seek", "write"} => h \in Handle
  /\ \A p \in Procs :
       /\ log_file_name[p] = EmptyPath => Busy(p, {"assign"})
       /\ log_file[p] = Invalid => Busy(p, Unopened)
       /\ log_file[p] \in Handle =>
            /\ log_file_name[p] \in Paths
            /\ log_file[p].file \in {FileOf[log_file_name[p]]} \cup Fallback
  /\ AtEnd

\* A FATAL message has come to a file before anything can end its process.
HeldIn(files, m) == \E f \in Files : \E i \in DOMAIN files[f] : files[f][i] = m
Held(m) == HeldIn(content, m)
WrittenInv ==
  /\ \A t \in Threads :
       InCall(t, "log") /\ Reliable
       /\ at[t] \in {"leave", "testFatal", "callAssert", "testDialog", "dialog"} => Held(op[t].msg)
  /\ FatalLogged

(***************************************************************************)
(* A handler that is never reset cannot vanish between its test and its    *)
(* call, and a process without InitLogging never leaves LOCK_LOG_FILE.     *)
(***************************************************************************)
HandlersStay == NULL \notin MsgHandlers \cup AssertHandlers

HandlersThere ==
  \A t \in Threads : LET p == ProcOf[t] IN
    /\ at[t] = "callHandler" => seen[t] # NULL /\ log_message_handler[p] # NULL
    /\ at[t] = "callAssert" => seen[t] # NULL /\ log_assert_handler[p] # NULL

MutexOnly ==
  /\ \A t \in Threads : inits[ProcOf[t]] = 0 =>
       call[t].lock_log = "LOCK_LOG_FILE" /\ pc[t] \notin {"newLock", "enterLock", "leaveLock"}
  /\ \A p \in Procs : inits[p] = 0 => lock_log_file[p] = "LOCK_LOG_FILE"

DemandInv == HandlersThere /\ MutexOnly /\ NoFaultOnDemand

(***************************************************************************)
(* With InitLogging first, from the main thread and with a file name,      *)
(* nothing faults as long as handlers stay, and GetLogFileFullPath never   *)
(* runs beside a second InitLogging.                                       *)
(***************************************************************************)
FaultlessUse ==
  /\ Disciplined /\ HandlersStay
  /\ \A p \in Procs : \A s \in SettingsOf[p] : s.log_file # NULL
  /\ PathCallers = {} \/ MaxInits <= 1

\* The first InitLogging of a process is over before another of its threads exists.
FirstInv ==
  /\ \A t \in Threads :
       /\ op[t].kind = "init" => t = MainOf[ProcOf[t]]
       /\ op[t].kind = "path" => t \in PathCallers
       /\ pc[t] \notin {"unborn", "start", "dead"} => inits[ProcOf[t]] > 0
  /\ MaxInits <= 1 =>
       \A t, u \in Threads : op[t].kind = "init" /\ u # t /\ ProcOf[u] = ProcOf[t] =>
         pc[u] \in {"unborn", "start", "dead"}

FaultlessInv ==
  /\ HandlersThere /\ FirstInv
  /\ \A p \in Procs : status[p] # "fault"

\* No handler consumes messages or replaces the end of the process.
HandlersReturnNot == "consume" \notin MsgHandlers /\ AssertHandlers \subseteq {NULL}

ObserveInv ==
  /\ \A p \in Procs : log_message_handler[p] # "consume" /\ log_assert_handler[p] = NULL
  /\ \A t \in Threads : seen[t] # "consume" /\ at[t] # "callAssert"

USE DEF fields, Move

-----------------------------------------------------------------------------
(***************************************************************************)
(* Every step of the component is one of its lock, or leaves it alone.     *)
(***************************************************************************)

\* A process ends in the ways LoggingLock knows.
LEMMA FaultCrashes ==
  ASSUME NEW t \in Threads,
         \/ \E where, from : Fault(t, where, from)
         \/ \E cause \in ExitCause : Terminate(ProcOf[t], cause)
  PROVE  LockNext
<1>1. "fault" \in ExitCause
  BY DEF ExitCause
<1>2. \E cause \in ExitCause : Terminate(ProcOf[t], cause)
  BY <1>1 DEF Fault
<1>3. ProcOf[t] \in Procs
  BY ProcessAssumption
<1> QED
  BY <1>2, <1>3 DEF LockNext, Crash

\* The arguments and the destination InitLogging passes on are those of settings
\* of the process.
LEMMA InitEntersLock ==
  ASSUME LoggingInv, NEW t \in Threads, TestDestination(t)
  PROVE  LockNext
<1> DEFINE s == op[t].settings
<1>1. PICK d \in {s.logging_dest, logging_destination[ProcOf[t]]} : InitLoggingEnters(t, s, d)
  BY DEF TestDestination
<1>2. at[t] = "testDestination"
  BY DEF TestDestination, Stands
<1>3. s \in SettingsOf[ProcOf[t]] /\ inits[ProcOf[t]] > 0
  BY <1>2 DEF LoggingInv, CallInv, InitPlaces
<1>4. ProcOf[t] \in Procs /\ inits[ProcOf[t]] # 0
  BY <1>3, ProcessAssumption DEF LoggingInv, LoggingTypeOK
<1>5. \E r \in SettingsOf[ProcOf[t]] : d = r.logging_dest
  BY <1>1, <1>3, <1>4 DEF LoggingInv, GlobalInv
<1> QED
  BY <1>1, <1>3, <1>5 DEF LockNext

\* Where a step of the file functions leads.
FileMove(t, from, to) ==
  \/ from = "close" /\ to \in {"closeFile", Closed(t)}
  \/ from = "closeFile" /\ to = "reset"
  \/ from = "reset" /\ to = Closed(t)
  \/ from = "rename" /\ to \in {"emptyName", "assign"}
  \/ from = "emptyName" /\ to = "assign"
  \/ from = "testHandle" /\ to \in {Ready(t), "testName"}
  \/ from = "testName" /\ to \in {"defaultName", "reTestFile"}
  \/ from = "defaultName" /\ to = "reTestFile"
  \/ from = "reTestFile" /\ to \in {"open", Ready(t)}
  \/ from = "open" /\ to \in {"seekEnd", "fallback"}
  \/ from = "fallback" /\ to \in {"seekEnd"} \cup IF OpenFails THEN {"fail"} ELSE {}
  \/ from = "fail" /\ to = "leave"
  \/ from = "seekEnd" /\ to = Ready(t)
  \/ from = "seek" /\ to = "write"

\* The file functions are run inside the lock, and change the handle and the name
\* of the file only.
LEMMA FileStepMoves ==
  ASSUME NEW t \in Threads, FileStep(t)
  PROVE  /\ pc[t] = "in" /\ UNCHANGED <<nonFileVars, content>>
         /\ \E to : at' = [at EXCEPT ![t] = to] /\ FileMove(t, at[t], to)
<1> DEFINE Goal == /\ pc[t] = "in" /\ UNCHANGED <<nonFileVars, content>>
                   /\ \E to : at' = [at EXCEPT ![t] = to] /\ FileMove(t, at[t], to)
<1> USE DEF FileMove, Step, Stands, nonFileVars, globalVars, fileVars, handlerVars, traceVars
<1>1. CASE CloseLogFileUnlocked(t) \/ CloseFile(t) \/ ResetLogFile(t)
  BY <1>1 DEF CloseLogFileUnlocked, CloseFile, ResetLogFile
<1>2. CASE Rename(t) \/ NewName(t) \/ TestHandle(t)
  BY <1>2 DEF Rename, NewName, TestHandle
<1>3. CASE TestName(t) \/ DefaultName(t) \/ ReTestFile(t)
  BY <1>3 DEF TestName, DefaultName, ReTestFile
<1>4. CASE OpenLogFile(t)
  BY <1>4 DEF OpenLogFile, CreateFile
<1>5. CASE OpenFallback(t)
  <2>1. FallbackPath # EmptyPath
    BY LoggingAssumption
  <2> QED
    BY <1>5, <2>1 DEF OpenFallback, CreateFile
<1>6. CASE OpenFailed(t) \/ SeekEnd(t) \/ Seek(t)
  BY <1>6 DEF OpenFailed, SeekEnd, Seek, SetFilePointer
<1> QED
  BY <1>1, <1>2, <1>3, <1>4, <1>5, <1>6 DEF FileStep

\* The name is set where there is none; where it is needed it has been tested.
LEMMA FileStepNames ==
  ASSUME NEW t \in Threads, FileStep(t)
  PROVE  LET p == ProcOf[t] IN
         /\ \/ UNCHANGED log_file_name
            \/ at[t] = "emptyName" /\ log_file_name' = [log_file_name EXCEPT ![p] = EmptyPath]
            \/ at[t] = "defaultName" /\ log_file_name' = [log_file_name EXCEPT ![p] = DefaultPath]
         /\ at[t] = "rename" /\ log_file_name[p] # NULL => at' = [at EXCEPT ![t] = "assign"]
         /\ at[t] = "testName" =>
              at' = [at EXCEPT ![t] = IF log_file_name[p] = NULL THEN "defaultName" ELSE "reTestFile"]
         /\ at[t] = "defaultName" => log_file_name' = [log_file_name EXCEPT ![p] = DefaultPath]
         /\ at[t] = "open" => \/ at' = [at EXCEPT ![t] = "seekEnd"]
                              \/ OpenFails \/ log_file_name[p] = EmptyPath
<1> USE DEF Step, Stands, nonFileVars, globalVars, fileVars, handlerVars, traceVars
<1>1. CASE CloseLogFileUnlocked(t) \/ CloseFile(t) \/ ResetLogFile(t)
  BY <1>1 DEF CloseLogFileUnlocked, CloseFile, ResetLogFile
<1>2. CASE Rename(t) \/ NewName(t) \/ TestHandle(t)
  BY <1>2 DEF Rename, NewName, TestHandle
<1>3. CASE TestName(t) \/ DefaultName(t) \/ ReTestFile(t)
  BY <1>3 DEF TestName, DefaultName, ReTestFile
<1>4. CASE OpenLogFile(t) \/ OpenFallback(t)
  BY <1>4 DEF OpenLogFile, OpenFallback, CreateFile
<1>5. CASE OpenFailed(t) \/ SeekEnd(t) \/ Seek(t)
  BY <1>5 DEF OpenFailed, SeekEnd, Seek, SetFilePointer
<1> QED
  BY <1>1, <1>2, <1>3, <1>4, <1>5 DEF FileStep

\* A handle the file functions leave is the one they have found, with another
\* position, or of a file they have opened.
LEMMA FileStepHandles ==
  ASSUME LoggingTypeOK, NEW t \in Threads, FileStep(t)
  PROVE  LET p == ProcOf[t] IN
         /\ log_file' \in [Procs -> Handle \cup {NULL, Invalid}]
         /\ \A q \in Procs \ {p} : log_file'[q] = log_file[q]
         /\ log_file'[p] \in Handle =>
              \/ log_file[p] \in Handle /\ log_file'[p].file = log_file[p].file
              \/ /\ at[t] = "open" /\ log_file_name[p] \in Paths
                 /\ log_file'[p].file = FileOf[log_file_name[p]]
              \/ at[t] = "fallback" /\ log_file'[p].file = FileOf[FallbackPath]
<1> DEFINE p == ProcOf[t]
           Goal(h) == h \in Handle =>
              \/ log_file[p] \in Handle /\ h.file = log_file[p].file
              \/ /\ at[t] = "open" /\ log_file_name[p] \in Paths
                 /\ h.file = FileOf[log_file_name[p]]
              \/ at[t] = "fallback" /\ h.file = FileOf[FallbackPath]
<1>1. /\ log_file \in [Procs -> Handle \cup {NULL, Invalid}] /\ p \in Procs
      /\ content \in [Files -> Seq(Message)]
  BY ProcessAssumption DEF LoggingTypeOK
<1>2. ASSUME NEW h \in Handle \cup {NULL, Invalid}, log_file' = [log_file EXCEPT ![p] = h], Goal(h)
      PROVE  /\ log_file' \in [Procs -> Handle \cup {NULL, Invalid}]
             /\ \A q \in Procs \ {p} : log_file'[q] = log_file[q]
             /\ Goal(log_file'[p])
  <2>1. log_file'[p] = h
    BY <1>1, <1>2
  <2> HIDE DEF Goal
  <2> QED
    BY <1>1, <1>2, <2>1
<1>3. Goal(log_file[p]) /\ Goal(NULL) /\ Goal(Invalid)
  <2>1. NULL \notin Handle
    BY LoggingAssumption
  <2>2. Invalid \notin Handle
    BY LoggingAssumption DEF Invalid, Handle
  <2> QED
    BY <2>1, <2>2
<1>4. ASSUME UNCHANGED log_file
      PROVE  /\ log_file' \in [Procs -> Handle \cup {NULL, Invalid}]
             /\ \A q \in Procs \ {p} : log_file'[q] = log_file[q]
             /\ Goal(log_file'[p])
  <2> HIDE DEF Goal
  <2> QED
    BY <1>1, <1>3, <1>4
<1> DEFINE Keeps == /\ log_file' \in [Procs -> Handle \cup {NULL, Invalid}]
                    /\ \A q \in Procs \ {p} : log_file'[q] = log_file[q]
                    /\ Goal(log_file'[p])
<1> SUFFICES Keeps
  OBVIOUS
<1> HIDE DEF Keeps
<1>5. ASSUME NEW h \in Handle \cup {NULL, Invalid}, log_file' = [log_file EXCEPT ![p] = h], Goal(h)
      PROVE  Keeps
  BY <1>2, <1>5 DEF Keeps
<1>6. UNCHANGED log_file => Keeps
  BY <1>4 DEF Keeps
<1> USE DEF globalVars, fileVars
<1>7. CASE \/ CloseLogFileUnlocked(t) \/ Rename(t) \/ NewName(t) \/ TestHandle(t)
           \/ TestName(t) \/ DefaultName(t) \/ ReTestFile(t)
  BY <1>6, <1>7
  DEF CloseLogFileUnlocked, Rename, NewName, TestHandle, TestName, DefaultName, ReTestFile
<1>8. CASE CloseFile(t) \/ ResetLogFile(t) \/ OpenFailed(t)
  <2>1. \E h \in {NULL, Invalid} : log_file' = [log_file EXCEPT ![p] = h]
    BY <1>8 DEF CloseFile, ResetLogFile, OpenFailed
  <2> HIDE DEF Goal
  <2> QED
    BY <1>3, <1>5, <2>1
<1>9. ASSUME NEW path, NEW from, NEW failed, CreateFile(t, path, from, failed),
             \/ path = log_file_name[p] /\ from = "open"
             \/ path = FallbackPath /\ from = "fallback"
      PROVE  Keeps
  <2>1. CASE log_file' = [log_file EXCEPT ![p] = Invalid]
    <3> HIDE DEF Goal
    <3> QED
      BY <1>3, <1>5, <2>1
  <2>2. CASE log_file' # [log_file EXCEPT ![p] = Invalid]
    <3> DEFINE h == [file |-> FileOf[path], pos |-> 0]
    <3>1. path \in Paths /\ at[t] = from /\ log_file' = [log_file EXCEPT ![p] = h]
      BY <1>9, <2>2 DEF CreateFile, Step, Stands
    <3>2. h \in Handle /\ h.file = FileOf[path]
      BY <3>1, LoggingAssumption DEF Handle
    <3> HIDE DEF h
    <3>3. Goal(h)
      BY <1>9, <3>1, <3>2
    <3> HIDE DEF Goal
    <3> QED
      BY <1>5, <3>1, <3>2, <3>3
  <2> QED
    BY <2>1, <2>2
<1>10. CASE OpenLogFile(t) \/ OpenFallback(t)
  BY <1>9, <1>10 DEF OpenLogFile, OpenFallback
<1>11. CASE SeekEnd(t) \/ Seek(t)
  <2>1. \E from, to : SetFilePointer(t, from, to)
    BY <1>11 DEF SeekEnd, Seek
  <2>2. CASE log_file[p] \notin Handle
    BY <1>6, <2>1, <2>2 DEF SetFilePointer
  <2>3. CASE log_file[p] \in Handle
    <3> DEFINE h == [log_file[p] EXCEPT !.pos = Len(content[log_file[p].file])]
    <3>1. log_file' = [log_file EXCEPT ![p] = h]
      BY <2>1, <2>3 DEF SetFilePointer
    <3>2. Len(content[log_file[p].file]) \in Nat
      BY <1>1, <2>3 DEF Handle
    <3>3. h \in Handle /\ h.file = log_file[p].file
      BY <2>3, <3>2 DEF Handle
    <3> HIDE DEF h
    <3> QED
      BY <1>5, <2>3, <3>1, <3>3
  <2> QED
    BY <2>2, <2>3
<1> HIDE DEF Goal
<1> QED
  BY <1>7, <1>8, <1>10, <1>11 DEF FileStep

\* What a thread does in the component, LoggingLock sees as a step of its own.
LEMMA StepUsesLock == LoggingInv /\ [Next]_vars => [LockNext]_lockVars
<1> SUFFICES ASSUME LoggingInv, [Next]_vars PROVE LockNext \/ UNCHANGED lockVars
  OBVIOUS
<1> USE DEF nonFileVars
<1>1. ASSUME NEW t \in Threads, LockStep(t) PROVE LockNext
  BY <1>1 DEF LockNext
<1>2. ASSUME NEW t \in Threads, Trace(t) PROVE LockNext \/ UNCHANGED lockVars
  BY <1>2, FaultCrashes DEF Trace, ExitCause
<1>3. ASSUME NEW t \in Threads, CallHandler(t) \/ CallAssert(t) \/ CopyPath(t) \/ AssignName(t)
      PROVE LockNext \/ UNCHANGED lockVars
  BY <1>3, FaultCrashes DEF CallHandler, CallAssert, CopyPath, AssignName
<1>4. ASSUME NEW t \in Threads, TestFile(t) PROVE LockNext \/ UNCHANGED lockVars
  BY <1>4 DEF TestFile, LockNext
<1>5. ASSUME NEW t \in Threads, TestFatal(t) PROVE LockNext \/ UNCHANGED lockVars
  BY <1>5, FaultCrashes DEF TestFatal, ExitCause
<1>6. ASSUME NEW t \in Threads, TestDialog(t) \/ CloseDialog(t)
      PROVE LockNext \/ UNCHANGED lockVars
  BY <1>6, FaultCrashes DEF TestDialog, CloseDialog, ExitCause
<1>7. ASSUME NEW t \in Threads, LeaveScope(t) \/ SpawnThread(t) \/ CloseLogFile(t)
      PROVE LockNext
  BY <1>7 DEF LeaveScope, SpawnThread, CloseLogFile, LockNext
<1>8. ASSUME NEW p \in Procs, Kill(p) PROVE LockNext
  BY <1>8 DEF Kill, LockNext, Crash, ExitCause
<1>9. ASSUME NEW t \in Threads,
             \/ TestHandler(t) \/ TestDebug(t) \/ FileStep(t) \/ DeleteFilePath(t)
             \/ WriteFile(t) \/ GetLogFileFullPath(t)
             \/ \E severity : Log(t, severity)
             \/ \E s : InitLogging(t, s)
             \/ \E h : SetLogMessageHandler(t, h) \/ SetLogAssertHandler(t, h)
             \/ \E enable : SetShowErrorDialogs(t, enable)
      PROVE UNCHANGED lockVars
  BY <1>9, FileStepMoves
  DEF TestHandler, TestDebug, DeleteFilePath, WriteFile, GetLogFileFullPath, Log, InitLogging,
      SetLogMessageHandler, SetLogAssertHandler, SetShowErrorDialogs
<1>10. CASE UNCHANGED vars
  BY <1>10 DEF vars
<1> QED
  BY <1>1, <1>2, <1>3, <1>4, <1>5, <1>6, <1>7, <1>8, <1>9, <1>10, InitEntersLock
  DEF Next, CallStep, HostStep

-----------------------------------------------------------------------------
(***************************************************************************)
(* LoggingInv: the invariants of every use.                                *)
(***************************************************************************)

\* Inside the functions of LoggingLock a thread moves on to the lock, or out of it.
LEMMA LockMoves ==
  ASSUME LockTypeOK, NEW t \in Threads, LockStep(t)
  PROVE  /\ \A u \in Threads \ {t} : pc'[u] \in {pc[u], "dead"}
         /\ \/ pc[t] \in Before \cup Taking /\ pc'[t] \in Before \cup Taking \cup {"in", "dead"}
            \/ pc[t] \in Leaving /\ pc'[t] \in Leaving \cup {"out", "dead"}
<1>1. pc \in [Threads -> Location]
  BY DEF LockTypeOK
<1> USE <1>1 DEF Before, Taking, Leaving, Goto
<1>2. ASSUME NEW p, NEW c, Terminate(p, c)
      PROVE  \A u \in Threads : pc'[u] \in {pc[u], "dead"}
  BY <1>2 DEF Terminate
<1>3. CASE EnterLock(t) \/ LeaveLock(t)
  <2>1. CASE Terminate(ProcOf[t], "nullLock")
    BY <1>2, <1>3, <2>1 DEF EnterLock, LeaveLock, Terminate
  <2>2. CASE ~Terminate(ProcOf[t], "nullLock")
    BY <1>3, <2>2 DEF EnterLock, LeaveLock
  <2> QED
    BY <2>1, <2>2
<1>4. CASE CheckInitialized(t) \/ SetMode(t) \/ TestMode(t) \/ TestMutex(t)
  BY <1>4 DEF CheckInitialized, SetMode, TestMode, TestMutex
<1>5. CASE CreateMutex(t) \/ TestCreated(t) \/ NewLock(t) \/ SetInitialized(t)
  BY <1>5 DEF CreateMutex, TestCreated, NewLock, SetInitialized
<1>6. CASE LockMode(t) \/ WaitMutex(t) \/ Acquire(t)
  BY <1>6 DEF LockMode, WaitMutex, Acquire
<1>7. CASE UnlockMode(t) \/ ReleaseMutex(t)
  BY <1>7 DEF UnlockMode, ReleaseMutex
<1> QED
  BY <1>3, <1>4, <1>5, <1>6, <1>7 DEF LockStep

\* The location a thread inside the component moves to, when nothing ends.
LEMMA PlaceInvStep == LoggingInv /\ [Next]_vars => PlaceInv'
<1> SUFFICES ASSUME LoggingInv, [Next]_vars PROVE PlaceInv'
  OBVIOUS
<1>1. pc \in [Threads -> Location] /\ at \in [Threads -> Outside \cup Locked]
  BY DEF LoggingInv, LockTypeOK, LoggingTypeOK
<1>2. PlaceInv /\ CallInv
  BY DEF LoggingInv
<1> USE <1>1, <1>2 DEF PlaceInv, CallInv, Stands, Step, Goto, Outside, Locked, Leaving, LogPlaces,
                       InitPlaces, logVars, callVars, nonFileVars, lockVars
<1>3. ASSUME NEW t \in Threads, LockStep(t), UNCHANGED at PROVE PlaceInv'
  <2>1. \A u \in Threads \ {t} : pc'[u] \in {pc[u], "dead"}
    BY <1>3, LockMoves DEF LoggingInv
  <2>2. \/ pc[t] \in Before \cup Taking /\ pc'[t] \in Before \cup Taking \cup {"in", "dead"}
        \/ pc[t] \in Leaving /\ pc'[t] \in Leaving \cup {"out", "dead"}
    BY <1>3, LockMoves DEF LoggingInv
  <2> QED
    BY <1>3, <2>1, <2>2 DEF Before, Taking
<1>4. ASSUME NEW p, NEW c, Terminate(p, c), UNCHANGED at PROVE PlaceInv'
  BY <1>4 DEF Terminate
<1>5. ASSUME NEW t \in Threads, NEW where, NEW from, Fault(t, where, from) PROVE PlaceInv'
  BY <1>4, <1>5 DEF Fault
<1>6. ASSUME NEW t \in Threads,
             \/ Trace(t) \/ TestHandler(t) \/ CallHandler(t) \/ TestDebug(t)
      PROVE  PlaceInv'
  BY <1>4, <1>5, <1>6 DEF Trace, TestHandler, CallHandler, TestDebug
<1>7. ASSUME NEW t \in Threads, TestFile(t) PROVE PlaceInv'
  BY <1>7 DEF TestFile, LogMessageEnters, Before
<1>8. ASSUME NEW t \in Threads, TestFatal(t) PROVE PlaceInv'
  BY <1>4, <1>8 DEF TestFatal
<1>9. ASSUME NEW t \in Threads, CallAssert(t) \/ TestDialog(t) \/ CopyPath(t) \/ CloseDialog(t)
      PROVE  PlaceInv'
  BY <1>4, <1>5, <1>9 DEF CallAssert, TestDialog, CopyPath, CloseDialog
<1>10. ASSUME NEW t \in Threads, TestDestination(t) PROVE PlaceInv'
  BY <1>10 DEF TestDestination, InitLoggingEnters, Before
<1>11. ASSUME NEW t \in Threads, FileStep(t) PROVE PlaceInv'
  BY <1>11, FileStepMoves DEF FileMove, Closed, Ready
<1>12. ASSUME NEW t \in Threads, AssignName(t) PROVE PlaceInv'
  BY <1>5, <1>12 DEF AssignName
<1>13. ASSUME NEW t \in Threads, DeleteFilePath(t) \/ WriteFile(t) PROVE PlaceInv'
  BY <1>13 DEF DeleteFilePath, WriteFile
<1>14. ASSUME NEW t \in Threads, LeaveScope(t) PROVE PlaceInv'
  BY <1>14 DEF LeaveScope, Leave
<1>15. ASSUME NEW t \in Threads, CloseLogFile(t) PROVE PlaceInv'
  BY <1>15 DEF CloseLogFile, CloseLogFileEnters, Taking
<1>16. ASSUME NEW t \in Threads,
              \/ GetLogFileFullPath(t)
              \/ \E severity : Log(t, severity)
              \/ \E s : InitLogging(t, s)
       PROVE  PlaceInv'
  BY <1>16 DEF GetLogFileFullPath, Log, InitLogging
<1>17. ASSUME NEW t \in Threads, SpawnThread(t) PROVE PlaceInv'
  BY <1>17 DEF SpawnThread, Spawn, Before, Taking
<1>18. ASSUME NEW t \in Threads,
              \/ \E h : SetLogMessageHandler(t, h) \/ SetLogAssertHandler(t, h)
              \/ \E enable : SetShowErrorDialogs(t, enable)
       PROVE  PlaceInv'
  BY <1>18 DEF SetLogMessageHandler, SetLogAssertHandler, SetShowErrorDialogs
<1>19. ASSUME NEW p \in Procs, Kill(p) PROVE PlaceInv'
  BY <1>4, <1>19 DEF Kill
<1>20. CASE UNCHANGED vars
  BY <1>20 DEF vars
<1> QED
  BY <1>3, <1>6, <1>7, <1>8, <1>9, <1>10, <1>11, <1>12, <1>13, <1>14, <1>15, <1>16, <1>17,
     <1>18, <1>19, <1>20
  DEF Next, CallStep, HostStep

\* A call is what its location says, and keeps its arguments until it is over.
LEMMA CallInvStep == LoggingInv /\ [Next]_vars => CallInv'
<1> SUFFICES ASSUME LoggingInv, [Next]_vars PROVE CallInv'
  OBVIOUS
<1>1. /\ at \in [Threads -> Outside \cup Locked] /\ DOMAIN op = Threads
      /\ inits \in [Procs -> 0 .. MaxInits]
  BY DEF LoggingInv, LoggingTypeOK
<1>2. CallInv
  BY DEF LoggingInv
<1> USE <1>1, <1>2, ProcessAssumption
    DEF CallInv, Stands, Step, Finish, LogPlaces, InitPlaces, logVars, callVars,
        nonFileVars, traceVars
<1>3. CASE UNCHANGED <<at, op, inits>>
  BY <1>3
<1>4. ASSUME NEW t \in Threads, NEW where, NEW from, Fault(t, where, from) PROVE CallInv'
  BY <1>3, <1>4 DEF Fault
<1>5. ASSUME NEW t \in Threads, Trace(t) PROVE CallInv'
  BY <1>5 DEF Trace
<1>6. ASSUME NEW t \in Threads, CallHandler(t) PROVE CallInv'
  BY <1>4, <1>6 DEF CallHandler
<1>7. ASSUME NEW t \in Threads, TestHandler(t) \/ TestDebug(t) \/ TestFile(t) PROVE CallInv'
  BY <1>7 DEF TestHandler, TestDebug, TestFile
<1>8. ASSUME NEW t \in Threads, TestFatal(t) PROVE CallInv'
  BY <1>8 DEF TestFatal
<1>9. ASSUME NEW t \in Threads, CallAssert(t) \/ CopyPath(t) PROVE CallInv'
  BY <1>4, <1>9 DEF CallAssert, CopyPath
<1>10. ASSUME NEW t \in Threads, TestDialog(t) \/ CloseDialog(t) PROVE CallInv'
  BY <1>10 DEF TestDialog, CloseDialog
<1>11. ASSUME NEW t \in Threads, TestDestination(t) PROVE CallInv'
  BY <1>11 DEF TestDestination
<1>12. ASSUME NEW t \in Threads, FileStep(t) PROVE CallInv'
  <2>1. /\ UNCHANGED <<op, inits>>
        /\ \E to : at' = [at EXCEPT ![t] = to] /\ FileMove(t, at[t], to)
    BY <1>12, FileStepMoves
  <2> QED
    BY <2>1 DEF FileMove, Closed, Ready
<1>13. ASSUME NEW t \in Threads, AssignName(t) PROVE CallInv'
  BY <1>4, <1>13 DEF AssignName
<1>14. ASSUME NEW t \in Threads, DeleteFilePath(t) \/ WriteFile(t) PROVE CallInv'
  BY <1>14 DEF DeleteFilePath, WriteFile
<1>16. ASSUME NEW t \in Threads, LeaveScope(t) PROVE CallInv'
  BY <1>16 DEF LeaveScope
<1>17. ASSUME NEW t \in Threads, NEW severity, Log(t, severity) PROVE CallInv'
  <2>1. op'[t].kind = "log" /\ op'[t].msg.thread = t
    BY <1>17 DEF Log
  <2>2. op'[t].msg.whole = TRUE
    BY <1>17 DEF Log
  <2>3. op'[t].msg.whole
    BY <2>2, Zenon
  <2>4. \A u \in Threads \ {t} : at'[u] = at[u] /\ op'[u] = op[u]
    BY <1>17 DEF Log
  <2>5. at'[t] \in {"trace", "testHandler"} /\ UNCHANGED inits
    BY <1>17 DEF Log
  <2> QED
    BY <2>1, <2>3, <2>4, <2>5
<1>18. ASSUME NEW t \in Threads, NEW s \in SettingsOf[ProcOf[t]], InitLogging(t, s)
       PROVE  CallInv'
  <2>1. op'[t].kind = "init" /\ op'[t].settings = s /\ at'[t] = "testDestination"
    BY <1>18 DEF InitLogging
  <2>2. \A u \in Threads \ {t} : at'[u] = at[u] /\ op'[u] = op[u]
    BY <1>18 DEF InitLogging
  <2>3. inits'[ProcOf[t]] > 0 /\ \A p \in Procs : inits[p] > 0 => inits'[p] > 0
    BY <1>18, LoggingAssumption DEF InitLogging
  <2> QED
    BY <2>1, <2>2, <2>3
<1>19. ASSUME NEW t \in Threads, CloseLogFile(t) \/ GetLogFileFullPath(t) PROVE CallInv'
  BY <1>19 DEF CloseLogFile, GetLogFileFullPath
<1>20. ASSUME NEW t \in Threads,
              \/ SpawnThread(t)
              \/ \E h : SetLogMessageHandler(t, h) \/ SetLogAssertHandler(t, h)
              \/ \E enable : SetShowErrorDialogs(t, enable)
       PROVE  CallInv'
  BY <1>3, <1>20 DEF SpawnThread, SetLogMessageHandler, SetLogAssertHandler, SetShowErrorDialogs
<1>21. CASE UNCHANGED vars
  BY <1>3, <1>21 DEF vars
<1>22. CASE \E p \in Procs : Kill(p)
  BY <1>3, <1>22 DEF Kill
<1> HIDE DEF CallInv
<1> QED
  BY <1>5, <1>6, <1>7, <1>8, <1>9, <1>10, <1>11, <1>12, <1>13, <1>14, <1>16, <1>17,
     <1>18, <1>19, <1>20, <1>21, <1>22, <1>3
  DEF Next, CallStep, HostStep

\* InitLogging stores the destination; a file name is never taken away again.
LEMMA GlobalInvStep == LoggingInv /\ [Next]_vars => GlobalInv'
<1> SUFFICES ASSUME LoggingInv, [Next]_vars PROVE GlobalInv'
  OBVIOUS
<1>1. /\ at \in [Threads -> Outside \cup Locked]
      /\ logging_destination \in [Procs -> SUBSET {"file", "debug"}]
      /\ log_file_name \in [Procs -> Paths \cup {NULL, EmptyPath}]
      /\ inits \in [Procs -> 0 .. MaxInits] /\ GlobalInv
  BY DEF LoggingInv, LoggingTypeOK
<1> USE <1>1, ProcessAssumption, LockAssumption
    DEF GlobalInv, Nameds, Stands, Step, logVars, callVars, globalVars, fileVars, nonFileVars, traceVars
<1>2. CASE UNCHANGED <<at, logging_destination, inits, log_file_name>>
  BY <1>2
<1>3. ASSUME NEW t \in Threads, NEW to, at' = [at EXCEPT ![t] = to],
             to \notin Nameds, UNCHANGED <<logging_destination, inits, log_file_name>>
      PROVE  GlobalInv'
  BY <1>3
<1>4. ASSUME NEW t \in Threads, NEW where, NEW from, Fault(t, where, from) PROVE GlobalInv'
  BY <1>2, <1>4 DEF Fault
<1>5. ASSUME NEW t \in Threads, Trace(t) \/ TestHandler(t) \/ CallHandler(t) \/ TestDebug(t)
      PROVE  GlobalInv'
  BY <1>3, <1>4, <1>5, <1>2 DEF Trace, TestHandler, CallHandler, TestDebug
<1>6. ASSUME NEW t \in Threads, TestFile(t) \/ TestFatal(t) \/ CallAssert(t) PROVE GlobalInv'
  BY <1>2, <1>3, <1>4, <1>6 DEF TestFile, TestFatal, CallAssert
<1>7. ASSUME NEW t \in Threads, TestDialog(t) \/ CloseDialog(t) \/ CopyPath(t) PROVE GlobalInv'
  BY <1>2, <1>3, <1>4, <1>7 DEF TestDialog, CloseDialog, CopyPath
<1>8. ASSUME NEW t \in Threads, TestDestination(t) PROVE GlobalInv'
  BY <1>3, <1>8 DEF TestDestination
<1>9. ASSUME NEW t \in Threads, AssignName(t) PROVE GlobalInv'
  BY <1>4, <1>9 DEF AssignName
<1>10. ASSUME NEW t \in Threads, FileStep(t) PROVE GlobalInv'
  <2> DEFINE p == ProcOf[t]
  <2>1. /\ UNCHANGED <<logging_destination, inits>>
        /\ \E to : at' = [at EXCEPT ![t] = to] /\ FileMove(t, at[t], to)
    BY <1>10, FileStepMoves
  <2>2. \A q \in Procs : log_file_name'[q] = NULL => log_file_name[q] = NULL
    <3>1. NULL # EmptyPath /\ NULL # DefaultPath
      BY LoggingAssumption
    <3> QED
      BY <1>10, <3>1, FileStepNames
  <2>3. at'[t] \in Nameds => log_file_name'[p] # NULL
    <3>1. CASE at[t] = "testName"
      <4>1. UNCHANGED log_file_name
        BY <1>10, <3>1, FileStepNames
      <4> QED
        BY <1>10, <3>1, <4>1, FileStepNames
    <3>2. CASE at[t] = "defaultName"
      BY <1>10, <3>2, FileStepNames
    <3>3. CASE at[t] \notin {"testName", "defaultName"}
      BY <2>1, <2>2, <3>3 DEF FileMove, Closed, Ready
    <3> QED
      BY <3>1, <3>2, <3>3
  <2> QED
    BY <2>1, <2>2, <2>3
<1>11. ASSUME NEW t \in Threads, DeleteFilePath(t) PROVE GlobalInv'
  BY <1>3, <1>11 DEF DeleteFilePath
<1>14. ASSUME NEW t \in Threads, WriteFile(t) \/ LeaveScope(t) PROVE GlobalInv'
  <2>2. CASE WriteFile(t)
    BY <1>3, <2>2 DEF WriteFile
  <2>3. CASE LeaveScope(t)
    BY <1>3, <2>3 DEF LeaveScope
  <2> QED
    BY <1>14, <2>2, <2>3
<1>15. ASSUME NEW t \in Threads, CloseLogFile(t) \/ \E severity : Log(t, severity)
       PROVE  GlobalInv'
  BY <1>3, <1>15 DEF CloseLogFile, Log
<1>16. ASSUME NEW t \in Threads, GetLogFileFullPath(t) PROVE GlobalInv'
  BY <1>16 DEF GetLogFileFullPath
<1>17. ASSUME NEW t \in Threads, NEW s \in SettingsOf[ProcOf[t]], InitLogging(t, s)
       PROVE  GlobalInv'
  <2>1. /\ inits'[ProcOf[t]] > 0 /\ logging_destination'[ProcOf[t]] = s.logging_dest
        /\ \A p \in Procs \ {ProcOf[t]} :
             inits'[p] = inits[p] /\ logging_destination'[p] = logging_destination[p]
    BY <1>17, LoggingAssumption DEF InitLogging
  <2>2. UNCHANGED log_file_name
    BY <1>17 DEF InitLogging
  <2>3. \A u \in Threads : at'[u] \in Nameds => log_file_name'[ProcOf[u]] # NULL
    BY <1>17, <2>2 DEF InitLogging
  <2> QED
    BY <2>1, <2>3
<1>18. ASSUME NEW t \in Threads,
              \/ SpawnThread(t)
              \/ \E h : SetLogMessageHandler(t, h) \/ SetLogAssertHandler(t, h)
              \/ \E enable : SetShowErrorDialogs(t, enable)
       PROVE  GlobalInv'
  BY <1>2, <1>18 DEF SpawnThread, SetLogMessageHandler, SetLogAssertHandler, SetShowErrorDialogs
<1>19. CASE UNCHANGED vars
  BY <1>2, <1>19 DEF vars
<1> QED
  BY <1>2, <1>5, <1>6, <1>7, <1>8, <1>9, <1>10, <1>11, <1>14, <1>15, <1>16, <1>17,
     <1>18, <1>19
  DEF Next, CallStep, HostStep, Kill

\* The arguments that come with a call of each kind.
LEMMA CallArguments ==
  ASSUME NEW c \in Calls
  PROVE  /\ c.kind = "log" => c.msg \in Message
         /\ c.kind = "init" => c.settings \in LoggingSettings
<1>1. CASE c \in [kind : {"none", "close", "path"}]
  BY <1>1
<1>2. CASE c \in [kind : {"log"}, msg : Message]
  BY <1>2
<1>3. CASE c \in [kind : {"init"}, settings : LoggingSettings]
  BY <1>3
<1> QED
  BY <1>1, <1>2, <1>3, Zenon DEF Calls

\* What the disk is full for leaves a message that is not whole.
LEMMA CutType ==
  ASSUME NEW m \in Message
  PROVE  Cut(m) \in Message /\ Cut(m).id = m.id
<1>1. FALSE \in BOOLEAN
  OBVIOUS
<1> QED
  BY <1>1 DEF Cut, Message

\* A write leaves a sequence of messages, one longer or as long as before.
LEMMA WrittenType ==
  ASSUME NEW file \in Seq(Message), NEW pos \in Nat, NEW m \in Message
  PROVE  Written(file, pos, m) \in Seq(Message)
<1> DEFINE M == Message
<1>0. m \in M /\ file \in Seq(M)
  OBVIOUS
<1> HIDE DEF M
<1>1. CASE pos < Len(file)
  <2>1. [file EXCEPT ![pos + 1] = m] \in Seq(M)
    BY <1>0, <1>1
  <2> QED
    BY <1>1, <2>1 DEF Written, M
<1>2. CASE ~(pos < Len(file))
  <2>1. Append(file, m) \in Seq(M)
    BY <1>0
  <2> QED
    BY <1>2, <2>1 DEF Written, M
<1> QED
  BY <1>1, <1>2

\* The calls in progress.
CallsTyped ==
  /\ at \in [Threads -> Outside \cup Locked]
  /\ op \in [Threads -> Calls]
  /\ seen \in [Threads -> HandlerKinds \cup {NULL}]

\* The globals of each process.
GlobalsTyped ==
  /\ logging_destination \in [Procs -> SUBSET {"file", "debug"}]
  /\ log_file_name \in [Procs -> Paths \cup {NULL, EmptyPath}]
  /\ log_file \in [Procs -> Handle \cup {NULL, Invalid}]
  /\ log_message_handler \in [Procs -> HandlerKinds \cup {NULL}]
  /\ log_assert_handler \in [Procs -> HandlerKinds \cup {NULL}]
  /\ show_error_dialogs \in [Procs -> BOOLEAN]
  /\ inits \in [Procs -> 0 .. MaxInits]

\* What has been written.
OutputTyped ==
  /\ content \in [Files -> Seq(Message)]
  /\ printed \subseteq Message
  /\ issued \in 0 .. MaxMsgs

\* Every step leaves each thread with arguments of its call's types.
LEMMA CallsTypedStep ==
  ASSUME LoggingInv, [Next]_vars PROVE CallsTyped'
<1>1. CallsTyped /\ CallInv
  BY DEF LoggingInv, LoggingTypeOK, CallsTyped
<1>2. /\ log_message_handler \in [Procs -> HandlerKinds \cup {NULL}]
      /\ log_assert_handler \in [Procs -> HandlerKinds \cup {NULL}]
      /\ issued \in 0 .. MaxMsgs
  BY DEF LoggingInv, LoggingTypeOK
<1>3. \A k \in {"none", "close", "path"} : [kind |-> k] \in Calls
  BY DEF Calls
<1>4. \A m \in Message : [kind |-> "log", msg |-> m] \in Calls
  BY DEF Calls
<1>5. \A s \in LoggingSettings : [kind |-> "init", settings |-> s] \in Calls
  BY DEF Calls
<1> USE <1>1, <1>2, <1>3, ProcessAssumption
    DEF CallsTyped, Stands, Step, Finish, Outside, Locked, logVars, callVars, nonFileVars
<1>6. CASE UNCHANGED callVars
  BY <1>6
<1>7. ASSUME NEW t \in Threads, NEW where, NEW from, Fault(t, where, from) PROVE CallsTyped'
  BY <1>6, <1>7 DEF Fault
<1>8. ASSUME NEW t \in Threads, TestHandler(t) PROVE CallsTyped'
  BY <1>8 DEF TestHandler
<1>9. ASSUME NEW t \in Threads, Trace(t) \/ CallHandler(t) \/ TestDebug(t) PROVE CallsTyped'
  BY <1>7, <1>9 DEF Trace, CallHandler, TestDebug
<1>10. ASSUME NEW t \in Threads, TestFile(t) \/ TestFatal(t) PROVE CallsTyped'
  BY <1>10 DEF TestFile, TestFatal
<1>11. ASSUME NEW t \in Threads, CallAssert(t) \/ CopyPath(t) PROVE CallsTyped'
  BY <1>7, <1>11 DEF CallAssert, CopyPath
<1>12. ASSUME NEW t \in Threads, TestDialog(t) \/ CloseDialog(t) PROVE CallsTyped'
  BY <1>12 DEF TestDialog, CloseDialog
<1>13. ASSUME NEW t \in Threads, TestDestination(t) PROVE CallsTyped'
  BY <1>13 DEF TestDestination
<1>14. ASSUME NEW t \in Threads, AssignName(t) \/ DeleteFilePath(t) PROVE CallsTyped'
  BY <1>7, <1>14 DEF AssignName, DeleteFilePath
<1>15. ASSUME NEW t \in Threads, FileStep(t) PROVE CallsTyped'
  <2>1. /\ UNCHANGED <<op, seen>>
        /\ \E to : at' = [at EXCEPT ![t] = to] /\ FileMove(t, at[t], to)
    BY <1>15, FileStepMoves
  <2>2. at' \in [Threads -> Outside \cup Locked]
    BY <2>1 DEF FileMove, Closed, Ready
  <2> QED
    BY <2>1, <2>2
<1>16. ASSUME NEW t \in Threads, WriteFile(t) \/ LeaveScope(t) PROVE CallsTyped'
  BY <1>16 DEF WriteFile, LeaveScope
<1>17. ASSUME NEW t \in Threads, NEW severity \in Severities, Log(t, severity)
       PROVE  CallsTyped'
  <2> DEFINE m == [id |-> issued', thread |-> t, severity |-> severity, whole |-> TRUE]
  <2>1. TRUE \in BOOLEAN
    OBVIOUS
  <2>2. issued' \in 1 .. MaxMsgs
    BY <1>17, LoggingAssumption DEF Log
  <2>3. m \in Message
    BY <2>1, <2>2, Zenon DEF Message
  <2>4. [kind |-> "log", msg |-> m] \in Calls
    BY <1>4, <2>3
  <2>5. op' = [op EXCEPT ![t] = [kind |-> "log", msg |-> m]]
    BY <1>17 DEF Log
  <2> DEFINE c == [kind |-> "log", msg |-> m]
  <2>6. op' = [op EXCEPT ![t] = c] /\ c \in Calls
    BY <2>4, <2>5
  <2> HIDE DEF c
  <2>7. op' \in [Threads -> Calls]
    BY <2>6
  <2>8. at' \in [Threads -> Outside \cup Locked] /\ UNCHANGED seen
    BY <1>17 DEF Log
  <2> QED
    BY <2>7, <2>8
<1>18. ASSUME NEW t \in Threads, NEW s \in SettingsOf[ProcOf[t]], InitLogging(t, s)
       PROVE  CallsTyped'
  <2>1. s \in LoggingSettings
    BY LockAssumption
  <2> QED
    BY <1>5, <1>18, <2>1 DEF InitLogging
<1>19. ASSUME NEW t \in Threads, CloseLogFile(t) \/ GetLogFileFullPath(t) PROVE CallsTyped'
  BY <1>19 DEF CloseLogFile, GetLogFileFullPath
<1>20. ASSUME NEW t \in Threads,
              \/ SpawnThread(t)
              \/ \E h : SetLogMessageHandler(t, h) \/ SetLogAssertHandler(t, h)
              \/ \E enable : SetShowErrorDialogs(t, enable)
       PROVE  CallsTyped'
  BY <1>6, <1>20 DEF SpawnThread, SetLogMessageHandler, SetLogAssertHandler, SetShowErrorDialogs
<1>21. CASE UNCHANGED vars
  BY <1>6, <1>21 DEF vars
<1> QED
  BY <1>6, <1>8, <1>9, <1>10, <1>11, <1>12, <1>13, <1>14, <1>15, <1>16, <1>17,
     <1>18, <1>19, <1>20, <1>21
  DEF Next, CallStep, HostStep, Kill

\* Every step leaves the globals of each process with their types.
LEMMA GlobalsTypedStep ==
  ASSUME LoggingInv, [Next]_vars PROVE GlobalsTyped'
<1>1. GlobalsTyped /\ content \in [Files -> Seq(Message)]
  BY DEF LoggingInv, LoggingTypeOK, GlobalsTyped
<1>2. op \in [Threads -> Calls]
  BY DEF LoggingInv, LoggingTypeOK
<1>3. \A t \in Threads : op[t].kind = "init" => op[t].settings \in LoggingSettings
  BY <1>2, CallArguments
<1> USE <1>1, ProcessAssumption, LockAssumption, LoggingAssumption
    DEF GlobalsTyped, logVars, globalVars, handlerVars, fileVars, nonFileVars, traceVars
<1>4. CASE UNCHANGED <<globalVars, inits>>
  BY <1>4
<1>5. ASSUME NEW t \in Threads, NEW where, NEW from, Fault(t, where, from) PROVE GlobalsTyped'
  BY <1>4, <1>5 DEF Fault
<1>6. ASSUME NEW t \in Threads,
             \/ Trace(t) \/ TestHandler(t) \/ CallHandler(t) \/ TestDebug(t) \/ TestFile(t)
             \/ TestFatal(t) \/ CallAssert(t) \/ TestDialog(t) \/ CloseDialog(t) \/ CopyPath(t)
             \/ TestDestination(t) \/ LeaveScope(t)
             \/ SpawnThread(t) \/ CloseLogFile(t) \/ GetLogFileFullPath(t)
             \/ \E severity : Log(t, severity)
      PROVE  GlobalsTyped'
  BY <1>4, <1>5, <1>6
  DEF Trace, TestHandler, CallHandler, TestDebug, TestFile, TestFatal, CallAssert, TestDialog,
      CloseDialog, CopyPath, TestDestination, LeaveScope, SpawnThread,
      CloseLogFile, GetLogFileFullPath, Log
<1>7. ASSUME NEW t \in Threads, FileStep(t) PROVE GlobalsTyped'
  <2>1. UNCHANGED <<logging_destination, handlerVars, inits>>
    BY <1>7, FileStepMoves
  <2>2. log_file' \in [Procs -> Handle \cup {NULL, Invalid}]
    BY <1>7, FileStepHandles DEF LoggingInv
  <2>3. log_file_name' \in [Procs -> Paths \cup {NULL, EmptyPath}]
    <3>1. \/ UNCHANGED log_file_name
          \/ \E name \in {EmptyPath, DefaultPath} :
               log_file_name' = [log_file_name EXCEPT ![ProcOf[t]] = name]
      BY <1>7, FileStepNames
    <3>2. DefaultPath \in Paths /\ log_file_name \in [Procs -> Paths \cup {NULL, EmptyPath}]
      BY DEF LoggingInv, LoggingTypeOK
    <3>3. ASSUME NEW name \in Paths \cup {EmptyPath},
                 log_file_name' = [log_file_name EXCEPT ![ProcOf[t]] = name]
          PROVE  log_file_name' \in [Procs -> Paths \cup {NULL, EmptyPath}]
      BY <3>2, <3>3
    <3> QED
      BY <3>1, <3>2, <3>3
  <2> QED
    BY <2>1, <2>2, <2>3
<1>8. ASSUME NEW t \in Threads, AssignName(t) PROVE GlobalsTyped'
  <2>1. CASE \E where, from : Fault(t, where, from)
    BY <1>5, <2>1
  <2>2. CASE ~\E where, from : Fault(t, where, from)
    <3>1. op[t].settings \in LoggingSettings /\ op[t].settings.log_file # NULL
      BY <1>3, <1>8, <2>2 DEF AssignName, Stands, LoggingInv, CallInv, InitPlaces
    <3>2. op[t].settings.log_file \in Paths
      BY <3>1 DEF LoggingSettings
    <3>0. log_file_name' = [log_file_name EXCEPT ![ProcOf[t]] = op[t].settings.log_file]
      BY <1>8, <2>2 DEF AssignName
    <3>3. log_file_name' \in [Procs -> Paths \cup {NULL, EmptyPath}]
      BY <3>0, <3>2
    <3> QED
      BY <1>8, <2>2, <3>3 DEF AssignName
  <2> QED
    BY <2>1, <2>2
<1>9. ASSUME NEW t \in Threads, DeleteFilePath(t) PROVE GlobalsTyped'
  BY <1>9 DEF DeleteFilePath
<1>13. ASSUME NEW t \in Threads, WriteFile(t) PROVE GlobalsTyped'
  <2> DEFINE p == ProcOf[t]  h == log_file[p]
  <2>1. log_file' \in [Procs -> Handle \cup {NULL, Invalid}]
    <3>1. CASE UNCHANGED log_file
      BY <3>1
    <3>2. CASE ~ UNCHANGED log_file
      <4>1. h \in Handle /\ log_file' = [log_file EXCEPT ![p].pos = h.pos + 1]
        BY <1>13, <3>2 DEF WriteFile
      <4>2. h.pos + 1 \in Nat
        BY <4>1 DEF Handle
      <4>3. [h EXCEPT !.pos = h.pos + 1] \in Handle
        BY <4>1, <4>2 DEF Handle
      <4> QED
        BY <4>1, <4>3
    <3> QED
      BY <3>1, <3>2
  <2> QED
    BY <1>13, <2>1 DEF WriteFile
<1>14. ASSUME NEW t \in Threads, NEW s \in SettingsOf[ProcOf[t]], InitLogging(t, s)
       PROVE  GlobalsTyped'
  <2>1. s.logging_dest \in SUBSET {"file", "debug"}
    BY DEF LoggingSettings
  <2>2. inits' \in [Procs -> 0 .. MaxInits]
    BY <1>14 DEF InitLogging
  <2> QED
    BY <1>14, <2>1, <2>2 DEF InitLogging
<1>15. ASSUME NEW t \in Threads, NEW h \in MsgHandlers \cup AssertHandlers,
              \/ SetLogMessageHandler(t, h) /\ h \in MsgHandlers
              \/ SetLogAssertHandler(t, h) /\ h \in AssertHandlers
       PROVE  GlobalsTyped'
  <2>1. h \in HandlerKinds \cup {NULL}
    BY DEF HandlerKinds
  <2>2. CASE SetLogMessageHandler(t, h)
    BY <2>1, <2>2 DEF SetLogMessageHandler
  <2>3. CASE SetLogAssertHandler(t, h)
    BY <2>1, <2>3 DEF SetLogAssertHandler
  <2> QED
    BY <1>15, <2>2, <2>3
<1>16. ASSUME NEW t \in Threads, NEW enable \in Dialogs, SetShowErrorDialogs(t, enable)
       PROVE  GlobalsTyped'
  <2>1. enable \in BOOLEAN
    BY Zenon
  <2>2. show_error_dialogs' \in [Procs -> BOOLEAN]
    BY <1>16, <2>1 DEF SetShowErrorDialogs
  <2> QED
    BY <1>16, <2>2 DEF SetShowErrorDialogs
<1>17. CASE UNCHANGED vars
  BY <1>4, <1>17 DEF vars
<1> QED
  BY <1>4, <1>6, <1>7, <1>8, <1>9, <1>13, <1>14, <1>15, <1>16, <1>17
  DEF Next, CallStep, HostStep, Kill

\* Every step leaves the files and the printed messages sequences and sets of
\* types.
LEMMA OutputTypedStep ==
  ASSUME LoggingInv, [Next]_vars PROVE OutputTyped'
<1>1. /\ OutputTyped /\ CallInv /\ op \in [Threads -> Calls]
      /\ log_file \in [Procs -> Handle \cup {NULL, Invalid}]
  BY DEF LoggingInv, LoggingTypeOK, OutputTyped
<1>2. \A t \in Threads : op[t].kind = "log" => op[t].msg \in Message
  BY <1>1, CallArguments
<1> USE <1>1, ProcessAssumption, LoggingAssumption
    DEF OutputTyped, logVars, globalVars, fileVars, nonFileVars, traceVars, callVars
<1>3. CASE UNCHANGED <<content, printed, issued>>
  BY <1>3
<1>4. ASSUME NEW t \in Threads, NEW where, NEW from, Fault(t, where, from) PROVE OutputTyped'
  BY <1>3, <1>4 DEF Fault
<1>5. ASSUME NEW t \in Threads,
             \/ Trace(t) \/ TestHandler(t) \/ CallHandler(t) \/ TestFile(t)
             \/ TestFatal(t) \/ CallAssert(t) \/ TestDialog(t) \/ CloseDialog(t) \/ CopyPath(t)
             \/ TestDestination(t) \/ LeaveScope(t) \/ SpawnThread(t) \/ CloseLogFile(t)
             \/ GetLogFileFullPath(t) \/ AssignName(t) \/ FileStep(t)
      PROVE  OutputTyped'
  BY <1>3, <1>4, <1>5, FileStepMoves
  DEF Trace, TestHandler, CallHandler, TestFile, TestFatal, CallAssert, TestDialog, CloseDialog,
      CopyPath, TestDestination, LeaveScope, SpawnThread, CloseLogFile, GetLogFileFullPath,
      AssignName
<1>6. ASSUME NEW t \in Threads, TestDebug(t) PROVE OutputTyped'
  <2>1. op[t].msg \in Message
    BY <1>2, <1>6 DEF TestDebug, Step, Stands, CallInv, LogPlaces
  <2> QED
    BY <1>6, <2>1 DEF TestDebug
<1>7. ASSUME NEW t \in Threads, DeleteFilePath(t) PROVE OutputTyped'
  <2> DEFINE f == FileOf[log_file_name[ProcOf[t]]]
  <2>1. content' = content \/ content' = [content EXCEPT ![f] = <<>>]
    BY <1>7 DEF DeleteFilePath
  <2>2. <<>> \in Seq(Message)
    OBVIOUS
  <2>3. content' \in [Files -> Seq(Message)]
    BY <2>1, <2>2
  <2> QED
    BY <1>7, <2>3 DEF DeleteFilePath
<1>8. ASSUME NEW t \in Threads, WriteFile(t) PROVE OutputTyped'
  <2> DEFINE p == ProcOf[t]  h == log_file[p]
  <2>1. op[t].msg \in Message
    BY <1>2, <1>8 DEF WriteFile, Step, Stands, CallInv, LogPlaces
  <2>2. UNCHANGED <<printed, issued>>
    BY <1>8 DEF WriteFile
  <2>3. CASE UNCHANGED content
    BY <2>2, <2>3
  <2>4. CASE ~ UNCHANGED content
    <3>1. h \in Handle
      BY <1>8, <2>4 DEF WriteFile
    <3>2. PICK m \in {op[t].msg, Cut(op[t].msg)} :
            content' = [content EXCEPT ![h.file] = Written(@, h.pos, m)]
      BY <1>8, <2>4 DEF WriteFile
    <3>3. m \in Message
      BY <2>1, <3>2, CutType
    <3>4. h.file \in Files /\ h.pos \in Nat /\ content[h.file] \in Seq(Message)
      BY <3>1 DEF Handle
    <3>5. Written(content[h.file], h.pos, m) \in Seq(Message)
      BY <3>3, <3>4, WrittenType
    <3>6. content' \in [Files -> Seq(Message)]
      BY <3>2, <3>5
    <3> QED
      BY <2>2, <3>6
  <2> QED
    BY <2>3, <2>4
<1>9. ASSUME NEW t \in Threads, NEW severity, Log(t, severity) PROVE OutputTyped'
  BY <1>9 DEF Log
<1>10. ASSUME NEW t \in Threads,
              \/ \E s : InitLogging(t, s)
              \/ \E h : SetLogMessageHandler(t, h) \/ SetLogAssertHandler(t, h)
              \/ \E enable : SetShowErrorDialogs(t, enable)
       PROVE  OutputTyped'
  BY <1>3, <1>10 DEF InitLogging, SetLogMessageHandler, SetLogAssertHandler, SetShowErrorDialogs
<1>11. CASE UNCHANGED vars
  BY <1>3, <1>11 DEF vars
<1> QED
  BY <1>3, <1>5, <1>6, <1>7, <1>8, <1>9, <1>10, <1>11
  DEF Next, CallStep, HostStep, Kill

\* A process starts without a handle, a handler, or a call.
LEMMA LoggingInvInit == LoggingInit => LoggingInv
<1> SUFFICES ASSUME LoggingInit PROVE LoggingInv
  OBVIOUS
<1>1. LockTypeOK
  BY ProcessAssumption, LockAssumption
  DEF LoggingInit, LockInit, LockTypeOK, Location, Before, Taking, Inside, Objects, Free,
      OnDemand, LogLockingState
<1>2. CallsTyped
  BY DEF LoggingInit, CallsTyped, Outside, Locked, Calls
<1>3. GlobalsTyped
  <2>1. FALSE \in BOOLEAN
    OBVIOUS
  <2>2. show_error_dialogs \in [Procs -> BOOLEAN]
    BY <2>1 DEF LoggingInit
  <2> QED
    BY <2>2, LoggingAssumption DEF LoggingInit, GlobalsTyped
<1>4. OutputTyped
  BY LoggingAssumption DEF LoggingInit, OutputTyped
<1>5. LoggingTypeOK
  BY <1>2, <1>3, <1>4 DEF LoggingTypeOK, CallsTyped, GlobalsTyped, OutputTyped
<1>6. CallInv /\ PlaceInv /\ GlobalInv
  BY DEF LoggingInit, LockInit, CallInv, PlaceInv, GlobalInv, Nameds, LogPlaces, InitPlaces,
         Outside, Locked
<1> QED
  BY <1>1, <1>5, <1>6 DEF LoggingInv

\* Every step keeps the types and the places of calls in the lock.
LEMMA LoggingInvStep == LoggingInv /\ [Next]_vars => LoggingInv'
<1> SUFFICES ASSUME LoggingInv, [Next]_vars PROVE LoggingInv'
  OBVIOUS
<1>1. LockTypeOK'
  BY StepUsesLock, LockTypeStep DEF LoggingInv
<1>2. LoggingTypeOK'
  BY CallsTypedStep, GlobalsTypedStep, OutputTypedStep
  DEF LoggingTypeOK, CallsTyped, GlobalsTyped, OutputTyped
<1> QED
  BY <1>1, <1>2, CallInvStep, PlaceInvStep, GlobalInvStep DEF LoggingInv

\* In any use of the component, whatever its threads race for, every call has the
\* arguments its location needs, stands in the lock where its location says, and
\* opens and deletes files by a name only once there is one.
THEOREM LoggingInvariant == Spec => []LoggingInv
BY LoggingInvInit, LoggingInvStep, PTL DEF Spec

\* LoggingTypeOK is an invariant of every use of the component.
THEOREM LoggingTypeCorrect == Spec => []LoggingTypeOK
<1>1. LoggingInv => LoggingTypeOK
  BY DEF LoggingInv
<1> QED
  BY <1>1, LoggingInvariant, PTL

\* The component uses LoggingLock as its specification says: what is proved of
\* LoggingLock holds of every log statement, InitLogging and CloseLogFile.
THEOREM LoggingUsesLock == Spec => LockSpec
<1>1. LoggingInit => LockInit
  BY DEF LoggingInit
<1> QED
  BY <1>1, LoggingInvariant, StepUsesLock, PTL DEF Spec, LockSpec

-----------------------------------------------------------------------------
(***************************************************************************)
(* The FATAL message of a process that ends by one is on stderr.           *)
(***************************************************************************)

\* A process ends as "fatal" at three places, with a FATAL message in hand.
LEMMA FatalEnds ==
  ASSUME LoggingInv, [Next]_vars, NEW p \in Procs, status'[p] = "fatal", status[p] # "fatal"
  PROVE  \E t \in Threads :
           /\ ProcOf[t] = p /\ pc[t] = "out" /\ at[t] \in {"testFatal", "testDialog", "dialog"}
           /\ op[t].kind = "log" /\ op[t].msg.severity = LOG_FATAL
           /\ UNCHANGED <<globalVars, traceVars>>
<1>1. status \in [Procs -> {"running", "nullLock"} \cup ExitCause] /\ CallInv
  BY DEF LoggingInv, LockTypeOK
<1> USE <1>1, ProcessAssumption DEF lockVars, nonFileVars
<1>2. ASSUME NEW q, NEW c, c # "fatal", Terminate(q, c) PROVE FALSE
  BY <1>2 DEF Terminate
<1>3. ASSUME UNCHANGED status PROVE FALSE
  BY <1>3
<1>4. ASSUME NEW t \in Threads, LockStep(t) PROVE FALSE
  BY <1>2, <1>3, <1>4
  DEF LockStep, CheckInitialized, SetMode, TestMode, TestMutex, CreateMutex, TestCreated,
      NewLock, SetInitialized, LockMode, WaitMutex, EnterLock, Acquire, UnlockMode,
      ReleaseMutex, LeaveLock
<1>5. ASSUME NEW t \in Threads,
             \/ Trace(t) \/ TestHandler(t) \/ CallHandler(t) \/ TestDebug(t) \/ TestFile(t)
             \/ CallAssert(t) \/ CopyPath(t) \/ TestDestination(t) \/ AssignName(t)
             \/ DeleteFilePath(t) \/ FileStep(t) \/ WriteFile(t) \/ LeaveScope(t)
      PROVE  FALSE
  BY <1>2, <1>3, <1>5, FileStepMoves
  DEF Trace, TestHandler, CallHandler, TestDebug, TestFile, CallAssert, CopyPath,
      TestDestination, AssignName, DeleteFilePath, WriteFile, LeaveScope, Fault,
      LogMessageEnters, InitLoggingEnters, Leave
<1>6. ASSUME NEW t \in Threads, ~CloseDialog(t), HostStep(t) PROVE FALSE
  BY <1>3, <1>6
  DEF HostStep, SpawnThread, Spawn, CloseLogFile, CloseLogFileEnters, GetLogFileFullPath, Log,
      InitLogging, SetLogMessageHandler, SetLogAssertHandler, SetShowErrorDialogs
<1>7. ASSUME NEW q \in Procs, Kill(q) PROVE FALSE
  BY <1>2, <1>7 DEF Kill
<1>8. ASSUME UNCHANGED vars PROVE FALSE
  BY <1>3, <1>8 DEF vars
<1>9. PICK t \in Threads : TestFatal(t) \/ TestDialog(t) \/ CloseDialog(t)
  BY <1>4, <1>5, <1>6, <1>7, <1>8 DEF Next, CallStep
<1>10. Terminate(ProcOf[t], "fatal") /\ UNCHANGED <<globalVars, traceVars>>
  BY <1>3, <1>9 DEF TestFatal, TestDialog, CloseDialog, logVars
<1>11. ProcOf[t] = p
  BY <1>10 DEF Terminate
<1>12. pc[t] = "out" /\ at[t] \in {"testFatal", "testDialog", "dialog"}
  BY <1>9 DEF TestFatal, TestDialog, CloseDialog, Stands, Step
<1>13. op[t].kind = "log"
  BY <1>12 DEF CallInv, LogPlaces
<1>14. op[t].msg.severity = LOG_FATAL
  BY <1>3, <1>9, <1>12 DEF CallInv, TestFatal, TestDialog, CloseDialog, Stands
<1> QED
  BY <1>10, <1>11, <1>12, <1>13, <1>14

\* A step of one thread leaves the calls of the others alone, but may end them.
LEMMA OthersStay ==
  ASSUME LoggingInv, NEW t \in Threads, CallStep(t) \/ HostStep(t)
  PROVE  \A u \in Threads \ {t} :
           /\ at'[u] = at[u] /\ op'[u] = op[u] /\ seen'[u] = seen[u]
           /\ pc'[u] \in {pc[u], "dead"}
<1> DEFINE Stay == \A u \in Threads \ {t} :
                     /\ at'[u] = at[u] /\ op'[u] = op[u] /\ seen'[u] = seen[u]
                     /\ pc'[u] \in {pc[u], "dead"}
<1>1. /\ DOMAIN at = Threads /\ DOMAIN op = Threads /\ DOMAIN seen = Threads
      /\ DOMAIN pc = Threads
  BY DEF LoggingInv, LockTypeOK, LoggingTypeOK
<1> USE <1>1 DEF Stands, Step, Finish, Goto, lockVars, nonFileVars, logVars, callVars
<1>2. ASSUME NEW p, NEW c, Terminate(p, c), UNCHANGED callVars PROVE Stay
  BY <1>2 DEF Terminate
<1>3. ASSUME NEW where, NEW from, Fault(t, where, from) PROVE Stay
  BY <1>2, <1>3 DEF Fault
<1>4. CASE LockStep(t) /\ UNCHANGED logVars
  BY <1>4, LockMoves DEF LoggingInv
<1>5. CASE Trace(t) \/ TestHandler(t) \/ CallHandler(t)
  BY <1>2, <1>3, <1>5 DEF Trace, TestHandler, CallHandler
<1>6. CASE TestDebug(t) \/ TestFile(t)
  BY <1>6 DEF TestDebug, TestFile, LogMessageEnters
<1>7. CASE TestFatal(t)
  <2>1. CASE \E c : Terminate(ProcOf[t], c) /\ UNCHANGED callVars
    BY <1>2, <2>1
  <2>2. CASE ~\E c : Terminate(ProcOf[t], c) /\ UNCHANGED callVars
    BY <1>7, <2>2 DEF TestFatal
  <2> QED
    BY <2>1, <2>2
<1>8. CASE CallAssert(t) \/ TestDialog(t) \/ CopyPath(t) \/ CloseDialog(t)
  BY <1>2, <1>3, <1>8 DEF CallAssert, TestDialog, CopyPath, CloseDialog
<1>9. CASE TestDestination(t)
  BY <1>9 DEF TestDestination, InitLoggingEnters
<1>10. CASE AssignName(t) \/ DeleteFilePath(t) \/ WriteFile(t)
  BY <1>3, <1>10 DEF AssignName, DeleteFilePath, WriteFile
<1>11. CASE FileStep(t)
  BY <1>11, FileStepMoves
<1>12. CASE LeaveScope(t)
  BY <1>12 DEF LeaveScope, Leave
<1>13. CASE CloseLogFile(t)
  BY <1>13 DEF CloseLogFile, CloseLogFileEnters
<1>14. CASE SpawnThread(t)
  BY <1>14 DEF SpawnThread, Spawn
<1>15. CASE \/ GetLogFileFullPath(t)
            \/ \E severity : Log(t, severity)
            \/ \E s : InitLogging(t, s)
  BY <1>15 DEF GetLogFileFullPath, Log, InitLogging
<1>16. CASE \/ \E h : SetLogMessageHandler(t, h) \/ SetLogAssertHandler(t, h)
            \/ \E enable : SetShowErrorDialogs(t, enable)
  BY <1>16 DEF SetLogMessageHandler, SetLogAssertHandler, SetShowErrorDialogs
<1> QED
  BY <1>4, <1>5, <1>6, <1>7, <1>8, <1>9, <1>10, <1>11, <1>12, <1>13, <1>14, <1>15, <1>16
  DEF CallStep, HostStep

\* The steps of a call print, and neither number messages nor count InitLogging.
LEMMA CallStepKeeps ==
  ASSUME NEW t \in Threads, CallStep(t)
  PROVE  UNCHANGED <<inits, issued>> /\ printed \subseteq printed'
<1> USE DEF logVars, traceVars, nonFileVars, Fault
<1>1. CASE LockStep(t) /\ UNCHANGED logVars
  BY <1>1
<1>2. CASE Trace(t) \/ TestHandler(t) \/ CallHandler(t) \/ TestDebug(t) \/ TestFile(t)
  BY <1>2 DEF Trace, TestHandler, CallHandler, TestDebug, TestFile
<1>3. CASE TestFatal(t) \/ CallAssert(t) \/ TestDialog(t) \/ CopyPath(t)
  BY <1>3 DEF TestFatal, CallAssert, TestDialog, CopyPath
<1>4. CASE TestDestination(t) \/ AssignName(t) \/ DeleteFilePath(t)
  BY <1>4 DEF TestDestination, AssignName, DeleteFilePath
<1>5. CASE FileStep(t)
  BY <1>5, FileStepMoves
<1>6. CASE WriteFile(t) \/ LeaveScope(t)
  BY <1>6 DEF WriteFile, LeaveScope
<1> QED
  BY <1>1, <1>2, <1>3, <1>4, <1>5, <1>6 DEF CallStep

\* Nothing takes back what has been printed, or the number of a message.
LEMMA OutputGrows ==
  ASSUME [Next]_vars
  PROVE  /\ printed \subseteq printed'
         /\ issued' = issued \/ \E t \in Threads : \E severity : Log(t, severity)
<1> USE DEF logVars, traceVars, nonFileVars
<1>1. CASE \E t \in Threads : CallStep(t)
  BY <1>1, CallStepKeeps
<1>2. CASE \E t \in Threads : HostStep(t)
  BY <1>2
  DEF HostStep, SpawnThread, CloseDialog, CloseLogFile, GetLogFileFullPath, Log, InitLogging,
      SetLogMessageHandler, SetLogAssertHandler, SetShowErrorDialogs
<1>3. CASE \E p \in Procs : Kill(p)
  BY <1>3 DEF Kill
<1>4. CASE UNCHANGED vars
  BY <1>4 DEF vars
<1> QED
  BY <1>1, <1>2, <1>3, <1>4 DEF Next

\* Where a log statement stands before its message is printed, and after the
\* write.
Early == {"trace", "testHandler", "callHandler", "testDebug"}
Late == {"leave", "testFatal", "callAssert", "testDialog", "dialog"}

\* It writes the file, or does without.
PassesFile(t) ==
  \/ WriteFile(t)
  \/ TestFile(t) /\ "file" \notin logging_destination[ProcOf[t]]
  \/ at[t] = "fail" /\ OpenFails

\* A log statement in progress was in progress before the step, or has just been
\* called; it becomes late only by the write, or where no write follows, and stays
\* so.
LEMMA LogMoves ==
  ASSUME LoggingInv, [Next]_vars, NEW t \in Threads, InCall(t, "log")'
  PROVE  \/ at[t] = "idle" /\ at'[t] \in Early /\ \E severity : Log(t, severity)
         \/ /\ InCall(t, "log") /\ op'[t] = op[t]
            /\ \/ at'[t] = at[t]
               \/ at'[t] \in Early /\ at[t] \in Early
               \/ TestDebug(t)
               \/ /\ at[t] \notin Early /\ at'[t] \notin Early
                  /\ at[t] \in Late => at'[t] \in Late
                  /\ at'[t] \in Late => at[t] \in Late \/ PassesFile(t)
<1> DEFINE Moves ==
      \/ at[t] = "idle" /\ at'[t] \in Early /\ \E severity : Log(t, severity)
      \/ /\ InCall(t, "log") /\ op'[t] = op[t]
         /\ \/ at'[t] = at[t]
            \/ at'[t] \in Early /\ at[t] \in Early
            \/ TestDebug(t)
            \/ /\ at[t] \notin Early /\ at'[t] \notin Early
               /\ at[t] \in Late => at'[t] \in Late
               /\ at'[t] \in Late => at[t] \in Late \/ PassesFile(t)
<1>1. /\ at \in [Threads -> Outside \cup Locked] /\ DOMAIN op = Threads
      /\ DOMAIN pc = Threads
  BY DEF LoggingInv, LoggingTypeOK, LockTypeOK
<1>2. CallInv /\ CallInv'
  BY CallInvStep DEF LoggingInv
<1>3. op'[t].kind = "log" /\ pc'[t] # "dead"
  BY DEF InCall
<1>4. ASSUME NEW u \in Threads, u # t, CallStep(u) \/ HostStep(u) PROVE Moves
  BY <1>3, <1>4, OthersStay DEF InCall
<1>5. CASE UNCHANGED vars
  BY <1>3, <1>5 DEF vars, logVars, callVars, lockVars, InCall
<1>6. ASSUME NEW p, Kill(p) PROVE Moves
  BY <1>1, <1>3, <1>6 DEF Kill, Terminate, logVars, callVars, InCall
<1> USE <1>1, <1>3 DEF Stands, Step, Finish, logVars, callVars, nonFileVars, lockVars, InCall
<1>7. ASSUME NEW c, Terminate(ProcOf[t], c) PROVE FALSE
  BY <1>7 DEF Terminate
<1>8. ASSUME NEW where, NEW from, Fault(t, where, from) PROVE FALSE
  BY <1>7, <1>8 DEF Fault
<1>9. CASE LockStep(t) /\ UNCHANGED logVars
  <2>1. pc[t] # "dead"
    BY <1>9, LockMoves DEF LoggingInv, Before, Taking, Leaving
  <2> QED
    BY <1>9, <2>1
<1>10. CASE Trace(t) \/ TestHandler(t) \/ CallHandler(t) \/ TestDebug(t)
  BY <1>7, <1>8, <1>10 DEF Trace, TestHandler, CallHandler, TestDebug, Early
<1>11. CASE TestFile(t)
  <2>1. /\ at[t] = "testFile" /\ op'[t] = op[t] /\ pc[t] = "out"
        /\ \/ at'[t] = "testHandle"
           \/ at'[t] = "testFatal" /\ "file" \notin logging_destination[ProcOf[t]]
    BY <1>11 DEF TestFile
  <2> QED
    BY <1>11, <2>1 DEF Early, Late, PassesFile
<1>12. CASE TestFatal(t) \/ TestDialog(t) \/ CloseDialog(t)
  <2>1. /\ op[t].kind = "log" => op'[t] = op[t]
        /\ at[t] \in {"testFatal", "testDialog", "dialog"} /\ pc[t] = "out"
        /\ at'[t] \in {at[t], "callAssert", "testDialog", "dialog"}
    BY <1>7, <1>12 DEF TestFatal, TestDialog, CloseDialog
  <2>2. op[t].kind = "log"
    BY <1>2, <2>1 DEF CallInv, LogPlaces
  <2> QED
    BY <2>1, <2>2 DEF Early, Late
<1>13. CASE CallAssert(t) \/ CopyPath(t) \/ TestDestination(t)
  BY <1>2, <1>8, <1>13 DEF CallAssert, CopyPath, TestDestination, CallInv, InitPlaces, LogPlaces
<1>14. CASE AssignName(t) \/ DeleteFilePath(t)
  BY <1>2, <1>8, <1>14 DEF AssignName, DeleteFilePath, CallInv, InitPlaces
<1>15. CASE FileStep(t)
  <2>1. /\ op'[t] = op[t] /\ pc[t] = "in"
        /\ \E to : at' = [at EXCEPT ![t] = to] /\ FileMove(t, at[t], to)
    BY <1>15, FileStepMoves
  <2>2. at[t] \notin {"close", "closeFile", "reset"} /\ (at[t] = "fail" => OpenFails)
    BY <1>2, <2>1 DEF CallInv
  <2>3. Ready(t) = "seek"
    BY <2>1 DEF Ready
  <2> QED
    BY <2>1, <2>2, <2>3 DEF FileMove, Early, Late, PassesFile
<1>17. CASE WriteFile(t) \/ LeaveScope(t)
  <2>1. /\ op'[t] = op[t] /\ pc[t] = "in"
        /\ \/ WriteFile(t) /\ at[t] = "write" /\ at'[t] = "leave"
           \/ at[t] = "leave" /\ at'[t] = "testFatal"
    <3>2. CASE WriteFile(t)
      <4>1. op'[t] = op[t] /\ pc[t] = "in" /\ at[t] = "write" /\ at'[t] = "leave"
        BY <3>2 DEF WriteFile
      <4> QED
        BY <3>2, <4>1
    <3>3. CASE LeaveScope(t)
      BY <3>3 DEF LeaveScope
    <3> QED
      BY <1>17, <3>2, <3>3
  <2> QED
    BY <2>1 DEF Early, Late, PassesFile
<1>18. CASE \E severity : Log(t, severity)
  BY <1>18 DEF Log, Early
<1>19. CASE HostStep(t) /\ ~CloseDialog(t) /\ ~\E severity : Log(t, severity)
  <2>1. CASE CloseLogFile(t) \/ GetLogFileFullPath(t) \/ \E s : InitLogging(t, s)
    BY <2>1 DEF CloseLogFile, GetLogFileFullPath, InitLogging
  <2>2. CASE SpawnThread(t)
    BY <2>2 DEF SpawnThread, Spawn, Goto
  <2>3. CASE \/ \E h : SetLogMessageHandler(t, h) \/ SetLogAssertHandler(t, h)
             \/ \E enable : SetShowErrorDialogs(t, enable)
    BY <2>3 DEF SetLogMessageHandler, SetLogAssertHandler, SetShowErrorDialogs
  <2> QED
    BY <1>19, <2>1, <2>2, <2>3 DEF HostStep
<1> QED
  BY <1>4, <1>5, <1>6, <1>9, <1>10, <1>11, <1>12, <1>13, <1>14, <1>15, <1>17, <1>18, <1>19
  DEF Next, CallStep

\* The test of the destination prints every FATAL message, and nothing before it
\* ends a process as "fatal".
LEMMA PrintedInvStep == LoggingInv /\ PrintedInv /\ [Next]_vars => PrintedInv'
<1> SUFFICES ASSUME LoggingInv, PrintedInv, [Next]_vars PROVE PrintedInv'
  OBVIOUS
<1>1. printed \subseteq printed'
  BY OutputGrows
<1>2. ASSUME NEW t \in Threads, InCall(t, "log")', op'[t].msg.severity = LOG_FATAL,
             at'[t] \notin Early
      PROVE  op'[t].msg \in printed'
  <2>1. InCall(t, "log") /\ op'[t] = op[t]
    BY <1>2, LogMoves
  <2>2. CASE at[t] \notin Early
    <3>1. op[t].msg \in printed
      BY <1>2, <2>1, <2>2 DEF PrintedInv, Early
    <3> QED
      BY <1>1, <2>1, <3>1
  <2>3. CASE at[t] \in Early
    <3>1. TestDebug(t)
      BY <1>2, <2>1, <2>3, LogMoves
    <3>2. op[t].msg.severity >= kAlwaysPrintErrorLevel
      BY <1>2, <2>1 DEF LOG_FATAL, kAlwaysPrintErrorLevel, LOG_ERROR
    <3> QED
      BY <2>1, <3>1, <3>2 DEF TestDebug
  <2> QED
    BY <2>2, <2>3
<1>3. ASSUME NEW p \in Procs, status'[p] = "fatal"
      PROVE  \E m \in printed' : FatalText(m, p)
  <2>1. CASE status[p] = "fatal"
    BY <1>1, <2>1 DEF PrintedInv
  <2>2. CASE status[p] # "fatal"
    <3>1. PICK t \in Threads :
            /\ ProcOf[t] = p /\ pc[t] = "out" /\ at[t] \in {"testFatal", "testDialog", "dialog"}
            /\ op[t].kind = "log" /\ op[t].msg.severity = LOG_FATAL
      BY <1>3, <2>2, FatalEnds
    <3>2. op[t].msg \in printed
      BY <3>1 DEF PrintedInv, InCall
    <3>3. op[t].msg.thread = t
      BY <3>1 DEF LoggingInv, CallInv
    <3> QED
      BY <1>1, <3>1, <3>2, <3>3 DEF FatalText
  <2> QED
    BY <2>1, <2>2
<1> QED
  BY <1>2, <1>3 DEF PrintedInv, Early, FatalText, InCall

\* Whatever handlers, destinations and failures there are, a process that ends by
\* a FATAL message has printed it to stderr.
THEOREM LoggingFatalPrinted == Spec => []PrintedInv
<1>1. LoggingInit => PrintedInv
  BY ProcessAssumption DEF LoggingInit, LockInit, PrintedInv, InCall
<1> QED
  BY <1>1, LoggingInvariant, PrintedInvStep, PTL DEF Spec

-----------------------------------------------------------------------------
(***************************************************************************)
(* Without InitLogging nothing faults.                                     *)
(***************************************************************************)

\* InitLogging calls are counted, never forgotten.
LEMMA InitsGrow ==
  ASSUME LoggingInv, [Next]_vars
  PROVE  \A p \in Procs : inits'[p] = 0 => inits[p] = 0
<1>1. inits \in [Procs -> 0 .. MaxInits]
  BY DEF LoggingInv, LoggingTypeOK
<1> USE <1>1 DEF logVars, traceVars, nonFileVars
<1>2. CASE \E t \in Threads : CallStep(t)
  <2>1. UNCHANGED inits
    BY <1>2, CallStepKeeps
  <2> QED
    BY <2>1
<1>3. ASSUME NEW t \in Threads, NEW s, InitLogging(t, s)
      PROVE  \A p \in Procs : inits'[p] = 0 => inits[p] = 0
  BY <1>3, LoggingAssumption, ProcessAssumption DEF InitLogging
<1>4. CASE \E t \in Threads : HostStep(t) /\ ~\E s : InitLogging(t, s)
  <2>1. UNCHANGED inits
    BY <1>4
    DEF HostStep, SpawnThread, CloseDialog, CloseLogFile, GetLogFileFullPath, Log,
        SetLogMessageHandler, SetLogAssertHandler, SetShowErrorDialogs
  <2> QED
    BY <2>1
<1>5. CASE \E p \in Procs : Kill(p)
  BY <1>5 DEF Kill
<1>6. CASE UNCHANGED vars
  BY <1>6 DEF vars
<1> QED
  BY <1>2, <1>3, <1>4, <1>5, <1>6 DEF Next

\* A handler that has been tested is still there when it is called.
LEMMA HandlersThereStep ==
  ASSUME HandlersStay, LoggingInv, HandlersThere, [Next]_vars
  PROVE  HandlersThere'
<1>1. /\ DOMAIN at = Threads /\ DOMAIN seen = Threads
      /\ DOMAIN log_message_handler = Procs /\ DOMAIN log_assert_handler = Procs
  BY DEF LoggingInv, LoggingTypeOK
<1> USE <1>1, ProcessAssumption
    DEF HandlersThere, Stands, Step, Finish, logVars, callVars, globalVars, handlerVars,
        nonFileVars
<1>2. CASE UNCHANGED <<at, seen, handlerVars>>
  BY <1>2
<1>3. ASSUME NEW t \in Threads, NEW to, to \notin {"callHandler", "callAssert"},
             at' = [at EXCEPT ![t] = to], UNCHANGED handlerVars,
             UNCHANGED seen \/ seen' = [seen EXCEPT ![t] = NULL]
      PROVE  HandlersThere'
  BY <1>3
<1>4. ASSUME NEW t \in Threads, NEW where, NEW from, Fault(t, where, from) PROVE HandlersThere'
  BY <1>2, <1>4 DEF Fault
<1>5. ASSUME NEW t \in Threads, TestHandler(t) PROVE HandlersThere'
  BY <1>5 DEF TestHandler
<1>6. ASSUME NEW t \in Threads, TestFatal(t) PROVE HandlersThere'
  BY <1>6 DEF TestFatal
<1>7. ASSUME NEW t \in Threads,
             \/ Trace(t) \/ CallHandler(t) \/ TestDebug(t) \/ TestFile(t) \/ CallAssert(t)
             \/ TestDialog(t) \/ CloseDialog(t) \/ CopyPath(t) \/ TestDestination(t)
      PROVE  HandlersThere'
  BY <1>2, <1>3, <1>4, <1>7
  DEF Trace, CallHandler, TestDebug, TestFile, CallAssert, TestDialog, CloseDialog, CopyPath,
      TestDestination
<1>8. ASSUME NEW t \in Threads,
             AssignName(t) \/ DeleteFilePath(t) \/ WriteFile(t) \/ LeaveScope(t)
      PROVE  HandlersThere'
  BY <1>3, <1>4, <1>8 DEF AssignName, DeleteFilePath, WriteFile, LeaveScope
<1>9. ASSUME NEW t \in Threads, FileStep(t) PROVE HandlersThere'
  <2>1. /\ UNCHANGED <<seen, handlerVars>>
        /\ \E to : at' = [at EXCEPT ![t] = to] /\ FileMove(t, at[t], to)
    BY <1>9, FileStepMoves
  <2> QED
    BY <1>3, <2>1 DEF FileMove, Closed, Ready
<1>10. ASSUME NEW t \in Threads,
              \/ CloseLogFile(t) \/ GetLogFileFullPath(t)
              \/ \E severity : Log(t, severity)
              \/ \E s : InitLogging(t, s)
       PROVE  HandlersThere'
  BY <1>3, <1>10 DEF CloseLogFile, GetLogFileFullPath, Log, InitLogging
<1>11. ASSUME NEW t \in Threads, NEW h,
              \/ h \in MsgHandlers /\ SetLogMessageHandler(t, h)
              \/ h \in AssertHandlers /\ SetLogAssertHandler(t, h)
       PROVE  HandlersThere'
  BY <1>11 DEF SetLogMessageHandler, SetLogAssertHandler, HandlersStay
<1>12. ASSUME NEW t \in Threads, SpawnThread(t) \/ \E enable : SetShowErrorDialogs(t, enable)
       PROVE  HandlersThere'
  BY <1>2, <1>12 DEF SpawnThread, SetShowErrorDialogs
<1>13. CASE UNCHANGED vars
  BY <1>2, <1>13 DEF vars
<1> QED
  BY <1>2, <1>5, <1>6, <1>7, <1>8, <1>9, <1>10, <1>11, <1>12, <1>13
  DEF Next, CallStep, HostStep, Kill

\* Until InitLogging asks for it, nothing leads to a critical section.
LEMMA MutexOnlyStep ==
  ASSUME LoggingInv, MutexOnly, [Next]_vars
  PROVE  MutexOnly'
<1>1. /\ DOMAIN pc = Threads /\ DOMAIN call = Threads /\ DOMAIN lock_log_file = Procs
      /\ inits \in [Procs -> 0 .. MaxInits]
  BY DEF LoggingInv, LockTypeOK, LoggingTypeOK
<1>2. \A p \in Procs : inits'[p] = 0 => inits[p] = 0
  BY InitsGrow
<1> USE <1>1, <1>2, ProcessAssumption DEF MutexOnly, Goto, nonFileVars
<1>3. CASE UNCHANGED <<pc, call, lock_log_file>>
  BY <1>3
<1>4. ASSUME NEW p, NEW c, Terminate(p, c) PROVE MutexOnly'
  BY <1>4 DEF Terminate
<1>5. ASSUME NEW t \in Threads, NEW where, NEW from, Fault(t, where, from) PROVE MutexOnly'
  BY <1>4, <1>5 DEF Fault
<1>6. ASSUME NEW t \in Threads, NEW from, NEW to, Goto(t, from, to),
             to \notin {"newLock", "enterLock", "leaveLock"},
             UNCHANGED <<call, lock_log_file>>
      PROVE  MutexOnly'
  BY <1>6
<1>7. ASSUME NEW t \in Threads, LockStep(t) PROVE MutexOnly'
  <2>1. CASE SetMode(t) \/ TestMode(t) \/ LockMode(t) \/ UnlockMode(t)
    BY <2>1 DEF SetMode, TestMode, LockMode, UnlockMode
  <2>2. CASE EnterLock(t) \/ LeaveLock(t)
    BY <1>4, <1>6, <2>2 DEF EnterLock, LeaveLock
  <2>3. CASE \/ CheckInitialized(t) \/ TestMutex(t) \/ CreateMutex(t) \/ TestCreated(t)
             \/ SetInitialized(t) \/ NewLock(t) \/ WaitMutex(t) \/ Acquire(t) \/ ReleaseMutex(t)
    <3>1. /\ \E from, to : Goto(t, from, to) /\ to \notin {"newLock", "enterLock", "leaveLock"}
          /\ UNCHANGED <<call, lock_log_file>>
      BY <2>3
      DEF CheckInitialized, TestMutex, CreateMutex, TestCreated, SetInitialized, NewLock,
          WaitMutex, Acquire, ReleaseMutex
    <3> QED
      BY <1>6, <3>1
  <2> QED
    BY <1>7, <2>1, <2>2, <2>3 DEF LockStep
<1>8. ASSUME NEW t \in Threads,
             \/ Trace(t) \/ TestHandler(t) \/ CallHandler(t) \/ TestDebug(t) \/ TestFatal(t)
             \/ CallAssert(t) \/ TestDialog(t) \/ CloseDialog(t) \/ CopyPath(t)
             \/ FileStep(t) \/ AssignName(t) \/ DeleteFilePath(t) \/ WriteFile(t)
      PROVE  MutexOnly'
  BY <1>3, <1>4, <1>5, <1>8, FileStepMoves
  DEF Trace, TestHandler, CallHandler, TestDebug, TestFatal, CallAssert, TestDialog,
      CloseDialog, CopyPath, AssignName, DeleteFilePath, WriteFile, lockVars
<1>9. ASSUME NEW t \in Threads, TestFile(t) PROVE MutexOnly'
  BY <1>3, <1>9 DEF TestFile, LogMessageEnters, OnDemand, lockVars
<1>10. ASSUME NEW t \in Threads, TestDestination(t) PROVE MutexOnly'
  <2>1. inits[ProcOf[t]] > 0 /\ UNCHANGED inits
    BY <1>10 DEF TestDestination, Stands, LoggingInv, CallInv, InitPlaces, traceVars
  <2>2. \A u \in Threads \ {t} : pc'[u] = pc[u] /\ call'[u] = call[u]
    BY <1>10 DEF TestDestination, InitLoggingEnters
  <2>3. UNCHANGED lock_log_file
    BY <1>10 DEF TestDestination, InitLoggingEnters
  <2> QED
    BY <2>1, <2>2, <2>3
<1>11. ASSUME NEW t \in Threads, LeaveScope(t) \/ CloseLogFile(t) \/ SpawnThread(t)
       PROVE  MutexOnly'
  BY <1>6, <1>11 DEF LeaveScope, Leave, CloseLogFile, CloseLogFileEnters, SpawnThread, Spawn
<1>12. ASSUME NEW t \in Threads,
              \/ GetLogFileFullPath(t)
              \/ \E severity : Log(t, severity)
              \/ \E s : InitLogging(t, s)
              \/ \E h : SetLogMessageHandler(t, h) \/ SetLogAssertHandler(t, h)
              \/ \E enable : SetShowErrorDialogs(t, enable)
       PROVE  MutexOnly'
  BY <1>3, <1>12
  DEF GetLogFileFullPath, Log, InitLogging, SetLogMessageHandler, SetLogAssertHandler,
      SetShowErrorDialogs, lockVars
<1>13. ASSUME NEW p \in Procs, Kill(p) PROVE MutexOnly'
  BY <1>4, <1>13 DEF Kill
<1>14. CASE UNCHANGED vars
  BY <1>3, <1>14 DEF vars, lockVars
<1> QED
  BY <1>7, <1>8, <1>9, <1>10, <1>11, <1>12, <1>13, <1>14 DEF Next, CallStep, HostStep

\* Where a process faults, and on which pointer.
LEMMA FaultsWhere ==
  ASSUME LoggingInv, [Next]_vars, NEW p \in Procs,
         status'[p] \in {"fault", "nullLock"}, status[p] \notin {"fault", "nullLock"}
  PROVE  \E t \in Threads :
           /\ ProcOf[t] = p
           /\ \/ pc[t] \in {"enterLock", "leaveLock"} /\ status'[p] = "nullLock"
              \/ at[t] = "callHandler" /\ NULL \in {seen[t], log_message_handler[p]}
              \/ at[t] = "callAssert" /\ NULL \in {seen[t], log_assert_handler[p]}
              \/ at[t] = "assign" /\ op[t].settings.log_file = NULL
              \/ /\ at[t] = "copyPath" /\ pc[t] = "out"
                 /\ \E u \in Threads : ProcOf[u] = p /\ pc[u] = "in" /\ at[u] = "assign"
<1>1. DOMAIN status = Procs
  BY DEF LoggingInv, LockTypeOK
<1> DEFINE Goal == \E t \in Threads :
           /\ ProcOf[t] = p
           /\ \/ pc[t] \in {"enterLock", "leaveLock"} /\ status'[p] = "nullLock"
              \/ at[t] = "callHandler" /\ NULL \in {seen[t], log_message_handler[p]}
              \/ at[t] = "callAssert" /\ NULL \in {seen[t], log_assert_handler[p]}
              \/ at[t] = "assign" /\ op[t].settings.log_file = NULL
              \/ /\ at[t] = "copyPath" /\ pc[t] = "out"
                 /\ \E u \in Threads : ProcOf[u] = p /\ pc[u] = "in" /\ at[u] = "assign"
<1> USE <1>1, ProcessAssumption DEF nonFileVars, lockVars, Stands
<1>2. ASSUME UNCHANGED status PROVE FALSE
  BY <1>2
<1>3. ASSUME NEW q, NEW c, c \notin {"fault", "nullLock"}, Terminate(q, c) PROVE FALSE
  BY <1>3 DEF Terminate
<1>4. ASSUME NEW t \in Threads, NEW c, Terminate(ProcOf[t], c) PROVE ProcOf[t] = p /\ status'[p] = c
  BY <1>4 DEF Terminate
<1>5. ASSUME NEW t \in Threads, LockStep(t) PROVE Goal
  <2>1. CASE EnterLock(t) \/ LeaveLock(t)
    <3>1. pc[t] \in {"enterLock", "leaveLock"} /\ Terminate(ProcOf[t], "nullLock")
      BY <1>2, <2>1 DEF EnterLock, LeaveLock
    <3> QED
      BY <1>4, <3>1
  <2>2. CASE ~(EnterLock(t) \/ LeaveLock(t))
    BY <1>2, <1>5, <2>2
    DEF LockStep, CheckInitialized, SetMode, TestMode, TestMutex, CreateMutex, TestCreated,
        NewLock, SetInitialized, LockMode, WaitMutex, Acquire, UnlockMode, ReleaseMutex
  <2> QED
    BY <2>1, <2>2
<1>6. ASSUME NEW t \in Threads, CallHandler(t) \/ CallAssert(t) PROVE Goal
  <2>1. \E where, from : Fault(t, where, from)
    BY <1>2, <1>6 DEF CallHandler, CallAssert
  <2>2. ProcOf[t] = p
    BY <1>4, <2>1 DEF Fault
  <2>3. CASE CallHandler(t)
    BY <1>2, <2>2, <2>3 DEF CallHandler, Fault
  <2>4. CASE CallAssert(t)
    BY <1>2, <2>2, <2>4 DEF CallAssert, Fault
  <2> QED
    BY <1>6, <2>3, <2>4
<1>7. ASSUME NEW t \in Threads, AssignName(t) PROVE Goal
  <2>1. at[t] = "assign" /\ op[t].settings.log_file = NULL /\ \E where, from : Fault(t, where, from)
    BY <1>2, <1>7 DEF AssignName
  <2> QED
    BY <1>4, <2>1 DEF Fault
<1>8. ASSUME NEW t \in Threads, CopyPath(t) PROVE Goal
  <2>1. /\ Fault(t, "out", "copyPath")
        /\ \/ log_file_name[ProcOf[t]] = NULL
           \/ \E u \in Threads : ProcOf[u] = ProcOf[t] /\ pc[u] = "in" /\ at[u] = "assign"
    BY <1>2, <1>8 DEF CopyPath
  <2>2. at[t] = "copyPath" /\ pc[t] = "out" /\ ProcOf[t] = p
    BY <1>4, <2>1 DEF Fault
  <2>3. log_file_name[ProcOf[t]] # NULL
    BY <2>2 DEF LoggingInv, GlobalInv, Nameds
  <2> QED
    BY <2>1, <2>2, <2>3
<1>9. ASSUME NEW t \in Threads, Trace(t) \/ TestFatal(t) \/ TestDialog(t) \/ CloseDialog(t)
      PROVE  FALSE
  BY <1>2, <1>3, <1>9 DEF Trace, TestFatal, TestDialog, CloseDialog
<1>10. ASSUME NEW t \in Threads,
              \/ TestHandler(t) \/ TestDebug(t) \/ TestFile(t) \/ TestDestination(t)
              \/ FileStep(t) \/ DeleteFilePath(t) \/ WriteFile(t) \/ LeaveScope(t)
       PROVE  FALSE
  BY <1>2, <1>10, FileStepMoves
  DEF TestHandler, TestDebug, TestFile, TestDestination, DeleteFilePath, WriteFile, LeaveScope,
      LogMessageEnters, InitLoggingEnters, Leave
<1>11. ASSUME NEW t \in Threads, HostStep(t) /\ ~CloseDialog(t) PROVE FALSE
  BY <1>2, <1>11
  DEF HostStep, SpawnThread, Spawn, CloseLogFile, CloseLogFileEnters, GetLogFileFullPath, Log,
      InitLogging, SetLogMessageHandler, SetLogAssertHandler, SetShowErrorDialogs
<1>12. ASSUME NEW q \in Procs, Kill(q) PROVE FALSE
  BY <1>3, <1>12 DEF Kill
<1>13. ASSUME UNCHANGED vars PROVE FALSE
  BY <1>2, <1>13 DEF vars
<1> HIDE DEF Goal
<1>14. Goal
  BY <1>5, <1>6, <1>7, <1>8, <1>9, <1>10, <1>11, <1>12, <1>13 DEF Next, CallStep, HostStep
<1> QED
  BY <1>14 DEF Goal

\* Each of the places where a process can fault is out of reach before InitLogging.
LEMMA NoFaultStep ==
  ASSUME LoggingInv, HandlersThere, MutexOnly, NoFaultOnDemand, [Next]_vars
  PROVE  NoFaultOnDemand'
<1> SUFFICES ASSUME NEW p \in Procs, status'[p] \in {"fault", "nullLock"}, inits'[p] = 0
             PROVE  FALSE
  <2>1. inits' \in [Procs -> 0 .. MaxInits]
    BY LoggingInvStep DEF LoggingInv, LoggingTypeOK
  <2> QED
    BY <2>1 DEF NoFaultOnDemand
<1>1. inits[p] = 0
  BY InitsGrow
<1>2. status[p] \notin {"fault", "nullLock"}
  BY <1>1 DEF NoFaultOnDemand
<1>3. \A t \in Threads : ProcOf[t] = p => pc[t] \notin {"enterLock", "leaveLock"} /\ at[t] # "assign"
  BY <1>1 DEF MutexOnly, LoggingInv, CallInv, InitPlaces
<1> QED
  BY <1>2, <1>3, FaultsWhere DEF HandlersThere

\* As long as a process has not called InitLogging, none of its calls faults,
\* whatever its threads race for, provided it never resets a handler to NULL: a
\* handler reset between its test and its call is a fault (see NoFault).
THEOREM LoggingNoFaultOnDemand == HandlersStay /\ Spec => []NoFaultOnDemand
<1>1. LoggingInit => DemandInv
  BY ProcessAssumption
  DEF LoggingInit, LockInit, DemandInv, HandlersThere, MutexOnly, NoFaultOnDemand, OnDemand
<1>2. HandlersStay => (LoggingInv /\ DemandInv /\ [Next]_vars => DemandInv')
  BY HandlersThereStep, MutexOnlyStep, NoFaultStep DEF DemandInv
<1>3. DemandInv => NoFaultOnDemand
  BY DEF DemandInv
<1>4. ASSUME HandlersStay PROVE Spec => []NoFaultOnDemand
  BY <1>1, <1>2, <1>3, <1>4, LoggingInvariant, PTL DEF Spec
<1> QED
  BY <1>4

-----------------------------------------------------------------------------
(***************************************************************************)
(* With InitLogging first, by name, nothing faults.                        *)
(***************************************************************************)

\* Threads are started between two calls of the main thread, after its first
\* InitLogging, so that no call runs beside that one.
LEMMA FirstInvStep ==
  ASSUME Disciplined, LoggingInv, FirstInv, [Next]_vars
  PROVE  FirstInv'
<1>1. /\ DOMAIN at = Threads /\ DOMAIN pc = Threads /\ DOMAIN op = Threads
      /\ inits \in [Procs -> 0 .. MaxInits]
      /\ CallInv
  BY DEF LoggingInv, LoggingTypeOK, LockTypeOK
<1> USE <1>1, ProcessAssumption
    DEF FirstInv, Stands, Step, Finish, Goto, logVars, callVars, traceVars, nonFileVars, lockVars
\* No thread starts, and no call of InitLogging.
<1>2. ASSUME UNCHANGED inits, \A u \in Threads : op'[u] = op[u] \/ op'[u].kind \notin {"init", "path"},
             \A u \in Threads : pc'[u] \in {pc[u], "dead"} \/ pc[u] \notin {"unborn", "start", "dead"}
      PROVE  FirstInv'
  BY <1>2
<1>3. ASSUME NEW p, NEW c, Terminate(p, c), UNCHANGED logVars PROVE FirstInv'
  <2>1. \A u \in Threads : pc'[u] \in {pc[u], "dead"}
    BY <1>3 DEF Terminate
  <2> QED
    BY <1>2, <1>3, <2>1
<1>4. ASSUME NEW t \in Threads, NEW where, NEW from, Fault(t, where, from) PROVE FirstInv'
  BY <1>3, <1>4 DEF Fault
<1>5. ASSUME NEW t \in Threads, pc[t] \notin {"unborn", "start", "dead"}, UNCHANGED inits,
             CallStep(t) \/ HostStep(t), op'[t] = op[t] \/ op'[t].kind \notin {"init", "path"}
      PROVE  FirstInv'
  <2>1. \A u \in Threads \ {t} : op'[u] = op[u] /\ pc'[u] \in {pc[u], "dead"}
    BY <1>5, OthersStay
  <2> QED
    BY <1>2, <1>5, <2>1
<1>6. ASSUME NEW t \in Threads, LockStep(t), UNCHANGED logVars PROVE FirstInv'
  <2>1. pc[t] \notin {"unborn", "start", "dead"}
    BY <1>6, LockMoves DEF LoggingInv, Before, Taking, Leaving
  <2> QED
    BY <1>5, <1>6, <2>1 DEF CallStep
<1>7. ASSUME NEW t \in Threads,
             \/ Trace(t) \/ TestHandler(t) \/ CallHandler(t) \/ TestDebug(t) \/ TestFile(t)
             \/ TestFatal(t) \/ CallAssert(t) \/ TestDialog(t) \/ CloseDialog(t) \/ CopyPath(t)
             \/ CloseLogFile(t) \/ \E severity \in Severities : Log(t, severity)
      PROVE  FirstInv'
  <2>1. pc[t] = "out" /\ UNCHANGED inits /\ (op'[t] = op[t] \/ op'[t].kind \notin {"init", "path"})
    BY <1>7
    DEF Trace, TestHandler, CallHandler, TestDebug, TestFile, TestFatal, CallAssert, TestDialog,
        CloseDialog, CopyPath, Fault, CloseLogFile, Log
  <2> QED
    BY <1>5, <1>7, <2>1 DEF CallStep, HostStep
<1>8. ASSUME NEW t \in Threads,
             \/ FileStep(t) \/ AssignName(t) \/ DeleteFilePath(t) \/ WriteFile(t)
             \/ LeaveScope(t)
      PROVE  FirstInv'
  <2>1. pc[t] = "in" /\ UNCHANGED inits /\ (op'[t] = op[t] \/ op'[t].kind \notin {"init", "path"})
    BY <1>8, FileStepMoves DEF AssignName, DeleteFilePath, WriteFile, LeaveScope, Fault
  <2> QED
    BY <1>5, <1>8, <2>1 DEF CallStep
<1>9. ASSUME NEW t \in Threads, TestDestination(t) PROVE FirstInv'
  <2>1. /\ op[t].kind = "init" /\ inits[ProcOf[t]] > 0 /\ UNCHANGED inits
        /\ op'[t] = op[t] \/ op'[t].kind \notin {"init", "path"}
    BY <1>9 DEF TestDestination, CallInv, InitPlaces
  <2>2. t = MainOf[ProcOf[t]]
    BY <2>1
  <2>3. \A u \in Threads \ {t} : op'[u] = op[u] /\ pc'[u] \in {pc[u], "dead"}
    BY <1>9, OthersStay DEF CallStep
  <2>4. \A u \in Threads : op'[u].kind \in {"init", "path"} => op'[u] = op[u]
    BY <2>1, <2>3
  <2>5. ASSUME MaxInits <= 1, NEW u \in Threads, NEW v \in Threads, op'[u].kind = "init",
               v # u, ProcOf[v] = ProcOf[u]
        PROVE  pc'[v] \in {"unborn", "start", "dead"}
    <3>1. op[u].kind = "init" /\ pc[v] \in {"unborn", "start", "dead"}
      BY <2>4, <2>5
    <3>2. v # t
      BY <2>2, <2>5, <3>1
    <3> QED
      BY <2>3, <3>1, <3>2
  <2>6. \A u \in Threads : pc'[u] \notin {"unborn", "start", "dead"} => inits'[ProcOf[u]] > 0
    BY <2>1, <2>3
  <2> QED
    BY <2>4, <2>5, <2>6
<1>10. ASSUME NEW t \in Threads, NEW s, InitLogging(t, s) PROVE FirstInv'
  <2> DEFINE p == ProcOf[t]
  <2>1. /\ t = MainOf[p] /\ inits[p] < MaxInits /\ UNCHANGED pc
        /\ op'[t].kind = "init" /\ inits' = [inits EXCEPT ![p] = inits[p] + 1]
        /\ \A u \in Threads \ {t} : op'[u] = op[u]
    BY <1>10 DEF InitLogging, Disciplined
  <2>2. MaxInits <= 1 => \A u \in Threads : ProcOf[u] = p => pc[u] \in {"unborn", "start", "dead"}
    BY <2>1, LoggingAssumption
  <2>3. \A q \in Procs : inits[q] > 0 => inits'[q] > 0
    BY <2>1
  <2>4. inits'[p] > 0
    BY <2>1
  <2> QED
    BY <2>1, <2>2, <2>3, <2>4
<1>11. ASSUME NEW t \in Threads, GetLogFileFullPath(t) PROVE FirstInv'
  <2>1. /\ t \in PathCallers /\ op'[t].kind = "path" /\ UNCHANGED <<pc, inits>>
        /\ \A u \in Threads \ {t} : op'[u] = op[u]
    BY <1>11 DEF GetLogFileFullPath
  <2> QED
    BY <2>1
<1>12. ASSUME NEW t \in Threads, SpawnThread(t) PROVE FirstInv'
  <2> DEFINE m == MainOf[ProcOf[t]]
  <2>1. m \in Threads /\ ProcOf[m] = ProcOf[t] /\ pc[m] = "out" /\ at[m] = "idle"
    BY <1>12 DEF SpawnThread, Spawn
  <2>2. op[m].kind = "none" /\ inits[ProcOf[t]] > 0
    BY <2>1 DEF CallInv
  <2>3. UNCHANGED <<op, inits>> /\ \A u \in Threads \ {t} : pc'[u] = pc[u]
    BY <1>12 DEF SpawnThread, Spawn
  <2>4. \A u \in Threads : op[u].kind = "init" => ProcOf[u] # ProcOf[t]
    BY <2>2
  <2> QED
    BY <2>2, <2>3, <2>4
<1>13. ASSUME NEW t \in Threads,
              \/ \E h : SetLogMessageHandler(t, h) \/ SetLogAssertHandler(t, h)
              \/ \E enable : SetShowErrorDialogs(t, enable)
       PROVE  FirstInv'
  BY <1>2, <1>13 DEF SetLogMessageHandler, SetLogAssertHandler, SetShowErrorDialogs
<1>14. ASSUME NEW p \in Procs, Kill(p) PROVE FirstInv'
  BY <1>3, <1>14 DEF Kill
<1>15. CASE UNCHANGED vars
  BY <1>2, <1>15 DEF vars
<1> QED
  BY <1>6, <1>7, <1>8, <1>9, <1>10, <1>11, <1>12, <1>13, <1>14, <1>15 DEF Next, CallStep, HostStep

\* The places where a process can fault are out of reach.
LEMMA FaultlessStep ==
  ASSUME FaultlessUse, LoggingInv, NoNullLock, FaultlessInv, [Next]_vars
  PROVE  FaultlessInv'
<1>1. HandlersThere' /\ FirstInv'
  BY HandlersThereStep, FirstInvStep DEF FaultlessUse, FaultlessInv
<1>2. ASSUME NEW p \in Procs, status'[p] = "fault" PROVE FALSE
  <2>1. status[p] \notin {"fault", "nullLock"}
    BY DEF FaultlessInv, NoNullLock
  <2>2. PICK t \in Threads :
          /\ ProcOf[t] = p
          /\ \/ at[t] = "callHandler" /\ NULL \in {seen[t], log_message_handler[p]}
             \/ at[t] = "callAssert" /\ NULL \in {seen[t], log_assert_handler[p]}
             \/ at[t] = "assign" /\ op[t].settings.log_file = NULL
             \/ /\ at[t] = "copyPath" /\ pc[t] = "out"
                /\ \E u \in Threads : ProcOf[u] = p /\ pc[u] = "in" /\ at[u] = "assign"
    BY <1>2, <2>1, FaultsWhere
  <2>3. at[t] \notin {"callHandler", "callAssert"}
    BY <2>2 DEF FaultlessInv, HandlersThere
  <2>4. at[t] # "assign"
    <3>1. at[t] = "assign" => op[t].settings \in SettingsOf[p]
      BY <2>2 DEF LoggingInv, CallInv, InitPlaces
    <3>2. at[t] = "assign" => op[t].settings.log_file # NULL
      BY <3>1 DEF FaultlessUse
    <3> QED
      BY <2>2, <3>2
  <2>5. PICK u \in Threads : ProcOf[u] = p /\ at[u] = "assign" /\ at[t] = "copyPath" /\ pc[t] = "out"
    BY <2>2, <2>3, <2>4
  <2>6. op[t].kind = "path" /\ op[u].kind = "init"
    BY <2>5 DEF LoggingInv, CallInv, InitPlaces
  <2>7. MaxInits <= 1
    BY <2>6 DEF FaultlessInv, FirstInv, FaultlessUse
  <2> QED
    BY <2>2, <2>5, <2>6, <2>7 DEF FaultlessInv, FirstInv
<1> QED
  BY <1>1, <1>2 DEF FaultlessInv

\* No call ever goes through a NULL pointer, when every InitLogging comes first and
\* names its file, no handler is reset, and GetLogFileFullPath is not called
\* beside a second InitLogging.
THEOREM LoggingNoFault == FaultlessUse /\ Spec => []NoFault
<1>1. ASSUME Disciplined, LoggingInit PROVE FaultlessInv
  <2>1. \A t \in Threads : pc[t] \in {"unborn", "start"}
    BY <1>1 DEF Disciplined, LoggingInit, LockInit
  <2> QED
    BY <1>1, <2>1 DEF LoggingInit, LockInit, FaultlessInv, HandlersThere, FirstInv
<1>2. FaultlessInv /\ NoNullLock => NoFault
  BY DEF FaultlessInv, NoNullLock, NoFault
<1>3. ASSUME FaultlessUse PROVE Spec => []NoFault
  <2>1. Disciplined
    BY <1>3 DEF FaultlessUse
  <2>2. LockSpec => []NoNullLock
    BY <2>1, LockNeverNull
  <2>3. LoggingInit => FaultlessInv
    BY <1>1, <2>1
  <2>4. LoggingInv /\ NoNullLock /\ FaultlessInv /\ [Next]_vars => FaultlessInv'
    BY <1>3, FaultlessStep
  <2> QED
    BY <1>2, <2>2, <2>3, <2>4, LoggingUsesLock, LoggingInvariant, PTL DEF Spec
<1> QED
  BY <1>3

-----------------------------------------------------------------------------
(***************************************************************************)
(* A FATAL statement does not return.                                      *)
(***************************************************************************)

\* No consuming message handler and no assert handler is ever set or read.
LEMMA ObserveInvStep ==
  ASSUME HandlersReturnNot, LoggingInv, ObserveInv, [Next]_vars
  PROVE  ObserveInv'
<1>1. /\ DOMAIN at = Threads /\ DOMAIN seen = Threads
      /\ DOMAIN log_message_handler = Procs /\ DOMAIN log_assert_handler = Procs
      /\ NULL # "consume"
  BY LoggingAssumption DEF LoggingInv, LoggingTypeOK, HandlerKinds
<1> USE <1>1, ProcessAssumption
    DEF ObserveInv, Stands, Step, Finish, logVars, callVars, globalVars, handlerVars,
        nonFileVars
<1>2. CASE UNCHANGED <<at, seen, handlerVars>>
  BY <1>2
<1>3. ASSUME NEW t \in Threads, NEW to, to # "callAssert",
             at' = [at EXCEPT ![t] = to], UNCHANGED handlerVars,
             UNCHANGED seen \/ seen' = [seen EXCEPT ![t] = NULL]
      PROVE  ObserveInv'
  BY <1>3
<1>4. ASSUME NEW t \in Threads, NEW where, NEW from, Fault(t, where, from) PROVE ObserveInv'
  BY <1>2, <1>4 DEF Fault
<1>5. ASSUME NEW t \in Threads, TestHandler(t) \/ TestFatal(t) PROVE ObserveInv'
  BY <1>5 DEF TestHandler, TestFatal
<1>6. ASSUME NEW t \in Threads,
             \/ Trace(t) \/ CallHandler(t) \/ TestDebug(t) \/ TestFile(t) \/ CallAssert(t)
             \/ TestDialog(t) \/ CloseDialog(t) \/ CopyPath(t) \/ TestDestination(t)
      PROVE  ObserveInv'
  BY <1>2, <1>3, <1>4, <1>6
  DEF Trace, CallHandler, TestDebug, TestFile, CallAssert, TestDialog, CloseDialog, CopyPath,
      TestDestination
<1>7. ASSUME NEW t \in Threads,
             AssignName(t) \/ DeleteFilePath(t) \/ WriteFile(t) \/ LeaveScope(t)
      PROVE  ObserveInv'
  BY <1>3, <1>4, <1>7 DEF AssignName, DeleteFilePath, WriteFile, LeaveScope
<1>8. ASSUME NEW t \in Threads, FileStep(t) PROVE ObserveInv'
  <2>1. /\ UNCHANGED <<seen, handlerVars>>
        /\ \E to : at' = [at EXCEPT ![t] = to] /\ FileMove(t, at[t], to)
    BY <1>8, FileStepMoves
  <2> QED
    BY <1>3, <2>1 DEF FileMove, Closed, Ready
<1>9. ASSUME NEW t \in Threads,
             \/ CloseLogFile(t) \/ GetLogFileFullPath(t)
             \/ \E severity : Log(t, severity)
             \/ \E s : InitLogging(t, s)
      PROVE  ObserveInv'
  BY <1>3, <1>9 DEF CloseLogFile, GetLogFileFullPath, Log, InitLogging
<1>10. ASSUME NEW t \in Threads, NEW h,
              \/ h \in MsgHandlers /\ SetLogMessageHandler(t, h)
              \/ h \in AssertHandlers /\ SetLogAssertHandler(t, h)
       PROVE  ObserveInv'
  BY <1>10 DEF SetLogMessageHandler, SetLogAssertHandler, HandlersReturnNot
<1>11. ASSUME NEW t \in Threads, SpawnThread(t) \/ \E enable : SetShowErrorDialogs(t, enable)
       PROVE  ObserveInv'
  BY <1>2, <1>11 DEF SpawnThread, SetShowErrorDialogs
<1>12. CASE UNCHANGED vars
  BY <1>2, <1>12 DEF vars
<1> QED
  BY <1>2, <1>5, <1>6, <1>7, <1>8, <1>9, <1>10, <1>11, <1>12
  DEF Next, CallStep, HostStep, Kill

\* A step that ends a log statement is the return of a consuming handler, of an
\* assert handler, or of a statement below FATAL.
LEMMA FatalStays ==
  ASSUME LoggingInv, ObserveInv, [Next]_vars, NEW t \in Threads,
         InCall(t, "log"), op[t].msg.severity = LOG_FATAL
  PROVE  op'[t] = op[t]
<1>1. op[t].kind = "log" /\ pc[t] # "dead" /\ CallInv /\ at[t] # "callAssert"
      /\ log_message_handler[ProcOf[t]] # "consume" /\ seen[t] # "consume"
  BY ProcessAssumption DEF InCall, LoggingInv, ObserveInv
<1>2. at[t] \notin {"idle", "copyPath", "close"} \cup InitPlaces
  BY <1>1 DEF CallInv, InitPlaces
<1>3. CASE UNCHANGED op
  BY <1>3
<1>4. ASSUME NEW u \in Threads, u # t, CallStep(u) \/ HostStep(u) PROVE op'[t] = op[t]
  BY <1>4, OthersStay
<1> USE <1>1, <1>2 DEF Stands, Step, InitPlaces, logVars, callVars, nonFileVars
<1>5. CASE CallHandler(t) \/ TestFatal(t) \/ CallAssert(t) \/ LeaveScope(t)
  BY <1>5 DEF CallHandler, TestFatal, CallAssert, LeaveScope, Fault
<1>6. CASE CopyPath(t) \/ TestDestination(t)
  BY <1>6 DEF CopyPath, TestDestination, Fault
<1>7. CASE CallStep(t) /\ ~(CallHandler(t) \/ TestFatal(t) \/ CallAssert(t) \/ LeaveScope(t)
                            \/ CopyPath(t) \/ TestDestination(t))
  BY <1>7, FileStepMoves
  DEF CallStep, Trace, TestHandler, TestDebug, TestFile, TestDialog, AssignName, DeleteFilePath,
      WriteFile, Fault
<1>8. CASE HostStep(t)
  BY <1>8
  DEF HostStep, SpawnThread, CloseDialog, CloseLogFile, GetLogFileFullPath, Log, InitLogging,
      SetLogMessageHandler, SetLogAssertHandler, SetShowErrorDialogs
<1>9. CASE \E p \in Procs : Kill(p)
  BY <1>9 DEF Kill
<1>10. CASE UNCHANGED vars
  BY <1>10 DEF vars
<1> QED
  BY <1>4, <1>5, <1>6, <1>7, <1>8, <1>9, <1>10 DEF Next

\* "Logging a message at the FATAL severity level causes the program to
\* terminate": unless the client has set a message handler that consumes messages
\* or an assert handler, the statement never returns to its caller.
THEOREM LoggingFatalNeverReturns == HandlersReturnNot /\ Spec => FatalNeverReturns
<1>1. LoggingInit => ObserveInv
  BY LoggingAssumption DEF LoggingInit, ObserveInv, HandlerKinds
<1>2. HandlersReturnNot => (LoggingInv /\ ObserveInv /\ [Next]_vars => ObserveInv')
  BY ObserveInvStep
<1>3. LoggingInv /\ ObserveInv /\ [Next]_vars =>
        [\A t \in Threads : InCall(t, "log") /\ op[t].msg.severity = LOG_FATAL =>
           op'[t] = op[t]]_vars
  BY FatalStays
<1>4. ASSUME HandlersReturnNot PROVE Spec => FatalNeverReturns
  BY <1>1, <1>2, <1>3, <1>4, LoggingInvariant, PTL DEF Spec, FatalNeverReturns
<1> QED
  BY <1>4

-----------------------------------------------------------------------------
(***************************************************************************)
(* Two ways of using the component keep two writers of one file apart.     *)
(***************************************************************************)

\* With InitLogging first, the file name is one that was asked for by the time
\* anything but InitLogging needs it.
LEMMA FilesInvStep ==
  ASSUME Disciplined, LoggingInv, FirstInv, FilesInv, [Next]_vars
  PROVE  FilesInv'
<1>1. /\ at \in [Threads -> Outside \cup Locked] /\ DOMAIN pc = Threads /\ DOMAIN op = Threads
      /\ log_file_name \in [Procs -> Paths \cup {NULL, EmptyPath}]
      /\ log_file \in [Procs -> Handle \cup {NULL, Invalid}]
      /\ CallInv /\ GlobalInv /\ PlaceInv
      /\ inits \in [Procs -> 0 .. MaxInits]
  BY DEF LoggingInv, LoggingTypeOK, LockTypeOK
<1> USE <1>1, ProcessAssumption
    DEF FilesInv, Naming, Stands, Step, Finish, Goto, logVars, callVars, globalVars, fileVars,
        nonFileVars, lockVars
<1>2. ASSUME UNCHANGED <<at, op, log_file_name, log_file>>,
             \A t \in Threads : pc'[t] \in {pc[t], "dead"}
      PROVE  FilesInv'
  BY <1>2
<1>3. ASSUME NEW p, NEW c, Terminate(p, c), UNCHANGED logVars PROVE FilesInv'
  BY <1>2, <1>3 DEF Terminate
<1>4. ASSUME NEW t \in Threads, NEW where, NEW from, Fault(t, where, from) PROVE FilesInv'
  BY <1>3, <1>4 DEF Fault
<1>5. ASSUME NEW t \in Threads, LockStep(t), UNCHANGED logVars PROVE FilesInv'
  <2>1. pc[t] \notin {"unborn", "start", "dead"}
    BY <1>5, LockMoves DEF LoggingInv, Before, Taking, Leaving
  <2>2. \A u \in Threads \ {t} : pc'[u] \in {pc[u], "dead"}
    BY <1>5, LockMoves DEF LoggingInv
  <2>3. pc'[t] = "in" => at[t] # "emptyName"
    BY <1>5, LockMoves DEF LoggingInv, PlaceInv, Before, Taking, Leaving, Locked
  <2> QED
    BY <1>5, <2>1, <2>2, <2>3
\* A thread that finds the file name set leaves it and the handle alone.
<1>6. ASSUME NEW t \in Threads, pc[t] \notin {"unborn", "start", "dead"}, ~Naming(t),
             CallStep(t) \/ HostStep(t), UNCHANGED <<log_file_name, log_file>>,
             at'[t] \notin {"defaultName", "fallback", "emptyName"}
      PROVE  FilesInv'
  BY <1>6, OthersStay
<1>7. ASSUME NEW t \in Threads,
             \/ Trace(t) \/ TestHandler(t) \/ CallHandler(t) \/ TestDebug(t) \/ TestFile(t)
             \/ TestFatal(t) \/ CallAssert(t) \/ TestDialog(t) \/ CloseDialog(t) \/ CopyPath(t)
      PROVE  FilesInv'
  <2>1. /\ pc[t] = "out"
        /\ at[t] \notin {"testDestination", "close", "closeFile", "reset", "rename", "emptyName", "assign"}
        /\ UNCHANGED <<log_file_name, log_file>>
    BY <1>7
    DEF Trace, TestHandler, CallHandler, TestDebug, TestFile, TestFatal, CallAssert, TestDialog,
        CloseDialog, CopyPath, Fault
  <2>2. \/ \E p, c : Terminate(p, c) /\ UNCHANGED logVars
        \/ at'[t] \notin {"defaultName", "fallback", "emptyName"}
    BY <1>7
    DEF Trace, TestHandler, CallHandler, TestDebug, TestFile, TestFatal, CallAssert, TestDialog,
        CloseDialog, CopyPath, Fault
  <2> QED
    BY <1>3, <1>6, <1>7, <2>1, <2>2 DEF CallStep, HostStep
<1>8. ASSUME NEW t \in Threads, LeaveScope(t) \/ DeleteFilePath(t) PROVE FilesInv'
  <2>1. /\ pc[t] = "in" /\ at[t] \in {"leave", "delete"}
        /\ UNCHANGED <<log_file_name, log_file>>
        /\ at'[t] \in {"testFatal", "idle", "testHandle"}
    BY <1>8 DEF LeaveScope, DeleteFilePath
  <2> QED
    BY <1>6, <1>8, <2>1 DEF CallStep
<1>9. ASSUME NEW t \in Threads, TestDestination(t) PROVE FilesInv'
  <2> DEFINE s == op[t].settings
  <2>1. s \in SettingsOf[ProcOf[t]] /\ inits[ProcOf[t]] # 0
    BY <1>9 DEF TestDestination, CallInv, InitPlaces
  <2>2. \A destination \in {s.logging_dest, logging_destination[ProcOf[t]]} : "file" \in destination
    BY <2>1 DEF GlobalInv, Disciplined
  <2>3. at' = [at EXCEPT ![t] = "close"] /\ UNCHANGED op
    BY <1>9, <2>2 DEF TestDestination
  <2>4. op[t].kind = "init"
    BY <1>9 DEF TestDestination, CallInv, InitPlaces
  <2>5. UNCHANGED <<log_file_name, log_file>>
    BY <1>9 DEF TestDestination
  <2>6. \A u \in Threads \ {t} : pc'[u] = pc[u]
    BY <1>9 DEF TestDestination, InitLoggingEnters
  <2> QED
    BY <2>3, <2>4, <2>5, <2>6
<1>10. ASSUME NEW t \in Threads, FileStep(t) PROVE FilesInv'
  <2> DEFINE p == ProcOf[t]
  <2>1. /\ pc[t] = "in" /\ UNCHANGED <<pc, op>>
        /\ \E to : at' = [at EXCEPT ![t] = to] /\ FileMove(t, at[t], to)
    BY <1>10, FileStepMoves
  <2>2. PICK to : at' = [at EXCEPT ![t] = to] /\ FileMove(t, at[t], to)
    BY <2>1
  <2>3. /\ at[t] = "emptyName" => log_file_name[p] = NULL /\ op[t].kind = "init"
        /\ at[t] # "defaultName"
    BY <2>1 DEF CallInv, InitPlaces
  <2>4. \/ UNCHANGED log_file_name
        \/ /\ at[t] = "emptyName" /\ log_file_name[p] = NULL /\ op[t].kind = "init"
           /\ log_file_name' = [log_file_name EXCEPT ![p] = EmptyPath]
    BY <1>10, <2>3, FileStepNames
  <2>5. ~Naming(t) => log_file_name[p] \notin {NULL, EmptyPath} /\ UNCHANGED log_file_name
    BY <2>1, <2>4
  <2>6. \A q \in Procs : log_file_name'[q] \notin {NULL, EmptyPath} =>
          \E s \in SettingsOf[q] : log_file_name'[q] = s.log_file
    BY <2>4
  <2>7. at[t] = "fallback" => OpenFails
    OBVIOUS
  <2>8. log_file'[p] \in Handle => log_file'[p].file \in MayOpen(p)
    <3>1. CASE log_file[p] \in Handle /\ log_file'[p].file = log_file[p].file
      BY <3>1
    <3>2. CASE /\ at[t] = "open" /\ log_file_name[p] \in Paths
               /\ log_file'[p].file = FileOf[log_file_name[p]]
      <4>1. log_file_name[p] \notin {NULL, EmptyPath}
        BY <2>5, <3>2
      <4>2. PICK s \in SettingsOf[p] : log_file_name[p] = s.log_file
        BY <4>1
      <4> QED
        BY <3>2, <4>1, <4>2 DEF MayOpen, SafeName
    <3>3. CASE at[t] = "fallback" /\ log_file'[p].file = FileOf[FallbackPath]
      BY <2>7, <3>3 DEF MayOpen, Fallback
    <3> QED
      BY <1>10, <3>1, <3>2, <3>3, FileStepHandles DEF LoggingInv
  <2>9. \A q \in Procs \ {p} : log_file'[q] = log_file[q]
    BY <1>10, FileStepHandles DEF LoggingInv
  <2>10. /\ at'[t] # "defaultName"
         /\ at'[t] = "fallback" => OpenFails
         /\ at'[t] = "emptyName" => log_file_name'[p] = NULL
    <3>1. at'[t] = to
      BY <2>2
    <3>2. CASE at[t] = "testName"
      <4>1. log_file_name[p] # NULL
        BY <2>1, <3>2 DEF CallInv
      <4> QED
        BY <1>10, <3>2, <4>1, FileStepNames
    <3>3. CASE at[t] = "open"
      <4>1. log_file_name[p] # EmptyPath
        BY <2>5, <3>3
      <4> QED
        BY <1>10, <2>2, <3>1, <3>3, <4>1, FileStepNames DEF FileMove
    <3>4. CASE at[t] = "rename"
      BY <1>10, <2>2, <2>4, <3>1, <3>4, FileStepNames DEF FileMove
    <3>5. CASE at[t] \notin {"testName", "open", "rename"}
      BY <2>2, <3>1, <3>5 DEF FileMove, Closed, Ready
    <3> QED
      BY <3>2, <3>3, <3>4, <3>5
  <2>11. Naming(t) => Naming(t)'
    BY <2>1, <2>2 DEF FileMove, Closed
  <2>12. /\ at'[t] # "defaultName" /\ (at'[t] = "fallback" => OpenFails)
         /\ pc'[t] = "in" /\ at'[t] = "emptyName" => log_file_name'[p] = NULL
         /\ pc'[t] \notin {"unborn", "start", "dead"} /\ ~(Naming(t)') =>
              log_file_name'[p] \notin {NULL, EmptyPath}
    BY <2>5, <2>10, <2>11
  <2>13. ASSUME NEW u \in Threads \ {t}
         PROVE  /\ at'[u] # "defaultName" /\ (at'[u] = "fallback" => OpenFails)
                /\ pc'[u] = "in" /\ at'[u] = "emptyName" => log_file_name'[ProcOf[u]] = NULL
                /\ pc'[u] \notin {"unborn", "start", "dead"} /\ ~(Naming(u)') =>
                     log_file_name'[ProcOf[u]] \notin {NULL, EmptyPath}
    <3>1. at'[u] = at[u] /\ pc'[u] = pc[u] /\ op'[u] = op[u]
      BY <2>1, <2>2
    <3>2. CASE UNCHANGED log_file_name \/ ProcOf[u] # p
      <4>1. log_file_name'[ProcOf[u]] = log_file_name[ProcOf[u]]
        BY <2>4, <3>2
      <4> QED
        BY <3>1, <4>1
    <3>3. CASE log_file_name' # log_file_name /\ ProcOf[u] = p
      <4>1. op[t].kind = "init" /\ log_file_name[p] = NULL
        BY <2>4, <3>3
      <4>2. at[u] # "emptyName"
        BY <3>3, <4>1 DEF FirstInv, CallInv, InitPlaces
      <4> QED
        BY <3>1, <3>3, <4>1, <4>2
    <3> QED
      BY <3>2, <3>3
  <2> QED
    BY <2>6, <2>8, <2>9, <2>12, <2>13
<1>11. ASSUME NEW t \in Threads, AssignName(t) PROVE FilesInv'
  <2>1. CASE \E where, from : Fault(t, where, from)
    BY <1>4, <2>1
  <2>2. CASE ~\E where, from : Fault(t, where, from)
    <3> DEFINE name == op[t].settings.log_file
    <3>1. /\ name # NULL
          /\ log_file_name' = [log_file_name EXCEPT ![ProcOf[t]] = name]
          /\ UNCHANGED <<pc, op, log_file>> /\ pc[t] = "in" /\ at[t] = "assign"
          /\ at' \in {[at EXCEPT ![t] = "delete"], [at EXCEPT ![t] = "testHandle"]}
      BY <1>11, <2>2 DEF AssignName
    <3>2. op[t].settings \in SettingsOf[ProcOf[t]] /\ op[t].kind = "init"
      BY <3>1 DEF CallInv, InitPlaces
    <3>3. name \notin {NULL, EmptyPath}
      <4>1. op[t].settings \in LoggingSettings
        BY <3>2, LockAssumption
      <4> QED
        BY <3>1, <4>1, LoggingAssumption DEF LoggingSettings
    <3>4. \A u \in Threads \ {t} : ProcOf[u] = ProcOf[t] => at[u] # "emptyName"
      BY <3>2 DEF FirstInv, CallInv, InitPlaces
    <3> HIDE DEF name
    <3>5. \A u \in Threads \ {t} :
            pc'[u] = "in" /\ at'[u] = "emptyName" => log_file_name'[ProcOf[u]] = NULL
      BY <3>1, <3>4
    <3> QED
      BY <3>1, <3>2, <3>3, <3>5 DEF name
  <2> QED
    BY <2>1, <2>2
<1>13. ASSUME NEW t \in Threads, WriteFile(t) PROVE FilesInv'
  <2>1. /\ UNCHANGED <<pc, op, log_file_name>> /\ pc[t] = "in" /\ at[t] = "write"
        /\ at' = [at EXCEPT ![t] = "leave"]
    BY <1>13 DEF WriteFile
  <2>2. \A p \in Procs : log_file'[p] \in Handle =>
          log_file[p] \in Handle /\ log_file'[p].file = log_file[p].file
    BY <1>13 DEF WriteFile, Handle
  <2> QED
    BY <2>1, <2>2
<1>15. ASSUME NEW t \in Threads,
              CloseLogFile(t) \/ GetLogFileFullPath(t) \/ \E severity \in Severities : Log(t, severity)
       PROVE  FilesInv'
  <2>1. /\ pc[t] = "out" /\ at[t] = "idle"
        /\ UNCHANGED <<log_file_name, log_file>>
        /\ at'[t] \notin {"defaultName", "fallback", "emptyName"}
    BY <1>15 DEF CloseLogFile, GetLogFileFullPath, Log
  <2> QED
    BY <1>6, <1>15, <2>1 DEF HostStep
<1>16. ASSUME NEW t \in Threads, NEW s, InitLogging(t, s) PROVE FilesInv'
  <2>1. /\ op'[t].kind = "init" /\ at'[t] = "testDestination" /\ UNCHANGED <<pc, log_file_name, log_file>>
        /\ \A u \in Threads \ {t} : at'[u] = at[u] /\ op'[u] = op[u]
    BY <1>16 DEF InitLogging
  <2> QED
    BY <2>1
<1>17. ASSUME NEW t \in Threads, SpawnThread(t) PROVE FilesInv'
  <2> DEFINE m == MainOf[ProcOf[t]]
  <2>1. m \in Threads /\ ProcOf[m] = ProcOf[t] /\ pc[m] = "out" /\ at[m] = "idle"
    BY <1>17 DEF SpawnThread, Spawn
  <2>2. log_file_name[ProcOf[t]] \notin {NULL, EmptyPath}
    BY <2>1
  <2>3. pc[t] = "unborn" /\ pc' = [pc EXCEPT ![t] = "out"] /\ UNCHANGED logVars
    BY <1>17 DEF SpawnThread, Spawn
  <2> QED
    BY <2>2, <2>3
<1>18. ASSUME NEW t \in Threads,
              \/ \E h : SetLogMessageHandler(t, h) \/ SetLogAssertHandler(t, h)
              \/ \E enable : SetShowErrorDialogs(t, enable)
       PROVE  FilesInv'
  BY <1>2, <1>18 DEF SetLogMessageHandler, SetLogAssertHandler, SetShowErrorDialogs
<1>19. ASSUME NEW p \in Procs, Kill(p) PROVE FilesInv'
  BY <1>3, <1>19 DEF Kill
<1>20. CASE UNCHANGED vars
  BY <1>2, <1>20 DEF vars
<1> QED
  BY <1>5, <1>7, <1>8, <1>9, <1>10, <1>11, <1>13, <1>15, <1>16, <1>17, <1>18, <1>19, <1>20
  DEF Next, CallStep, HostStep

\* With InitLogging first, every open file is one that the settings of its process
\* allow, and every thread that logs finds the file name set.
THEOREM LoggingFiles == Disciplined /\ Spec => []FilesInv
<1>1. ASSUME Disciplined, LoggingInit PROVE FirstInv /\ FilesInv
  <2>1. \A t \in Threads : pc[t] \in {"unborn", "start"}
    BY <1>1 DEF Disciplined, LoggingInit, LockInit
  <2>2. NULL \notin Handle
    BY LoggingAssumption
  <2> QED
    BY <1>1, <2>1, <2>2, ProcessAssumption DEF LoggingInit, FirstInv, FilesInv
<1>2. ASSUME Disciplined PROVE Spec => []FilesInv
  <2>1. LoggingInv /\ FirstInv /\ FilesInv /\ [Next]_vars => FilesInv'
    BY <1>2, FilesInvStep
  <2>2. LoggingInv /\ FirstInv /\ [Next]_vars => FirstInv'
    BY <1>2, FirstInvStep
  <2>3. LoggingInit => FirstInv /\ FilesInv
    BY <1>1, <1>2
  <2> QED
    BY <2>1, <2>2, <2>3, LoggingInvariant, PTL DEF Spec
<1> QED
  BY <1>2

\* Without InitLogging one thread of the machine at most is inside.
LEMMA DemandGuards == OnDemandInv => Guarded
<1> SUFFICES ASSUME OnDemandInv, NEW t \in Threads, NEW u \in Threads, pc[t] = "in", pc[u] = "in"
             PROVE  t = u
  BY DEF Guarded
<1>1. lock[DefaultPath] = [owner |-> t, count |-> 1] /\ lock[DefaultPath] = [owner |-> u, count |-> 1]
  BY DEF OnDemandInv, DefaultOwned, Inside
<1>2. t = lock[DefaultPath].owner /\ u = lock[DefaultPath].owner
  BY <1>1
<1> QED
  BY <1>2

\* With it, two threads inside have different locks; processes with one file open
\* would have the same.
LEMMA NamesGuard ==
  ASSUME FilesShareLock, LockInv, LockNamed, FilesInv
  PROVE  Guarded
<1> SUFFICES ASSUME NEW t \in Threads, NEW u \in Threads, t # u, pc[t] = "in", pc[u] = "in"
             PROVE  LET p == ProcOf[t]  q == ProcOf[u] IN
                    p # q /\ (log_file[p] \in Handle /\ log_file[q] \in Handle =>
                                log_file[p].file # log_file[q].file)
  BY DEF Guarded
<1> DEFINE p == ProcOf[t]  q == ProcOf[u]
<1>1. LockOf(p) # LockOf(q)
  BY OwnersExclude DEF MutualExclusion, Inside
<1>2. p \in Procs /\ q \in Procs /\ p # q
  BY <1>1, ProcessAssumption
<1>3. LockOf(p) # NULL /\ LockOf(q) # NULL
  <2>1. LockOf(p) \in Objects /\ LockOf(q) \in Objects
    BY OwnersFacts DEF Inside
  <2> QED
    BY <2>1, LockAssumption DEF Objects
<1>4. ASSUME log_file[p] \in Handle, log_file[q] \in Handle, log_file[p].file = log_file[q].file
      PROVE  FALSE
  <2>1. MayOpen(p) \cap MayOpen(q) # {} /\ MayOpen(q) \cap MayOpen(p) # {}
    BY <1>2, <1>4 DEF FilesInv
  <2>2. /\ \A s \in SettingsOf[p] : s.lock_log = "LOCK_LOG_FILE"
        /\ \A s \in SettingsOf[q] : s.lock_log = "LOCK_LOG_FILE"
        /\ \A s \in SettingsOf[p], r \in SettingsOf[q] : SafeName(s.log_file) = SafeName(r.log_file)
    BY <1>2, <2>1 DEF FilesShareLock
  <2>3. lock_log_file[p] = "LOCK_LOG_FILE" /\ lock_log_file[q] = "LOCK_LOG_FILE"
    BY <1>2, <2>2 DEF LockNamed
  <2>4. log_mutex[p] \in MutexesOf(p) /\ log_mutex[q] \in MutexesOf(q)
    BY <1>2, <1>3, <2>3 DEF LockNamed, LockOf
  <2> QED
    BY <1>1, <2>2, <2>3, <2>4 DEF MutexesOf, LockOf
<1> QED
  BY <1>2, <1>4

\* In both ways of use, threads that have entered the lock are of different
\* processes and have different files open.
THEOREM LoggingGuarded == SafeUse /\ Spec => []Guarded
<1>1. ASSUME OnDemandUse PROVE Spec => []Guarded
  <2>1. LockSpec => []OnDemandInv
    BY <1>1, LockOnDemand
  <2> QED
    BY <2>1, DemandGuards, LoggingUsesLock, PTL
<1>2. ASSUME Disciplined, FilesShareLock PROVE Spec => []Guarded
  <2>1. LockSpec => [](LockInv /\ LockNamed)
    BY <1>2, LockInvariant, LockNaming, PTL
  <2>2. Spec => []FilesInv
    BY <1>2, LoggingFiles
  <2>3. LockInv /\ LockNamed /\ FilesInv => Guarded
    BY <1>2, NamesGuard
  <2> QED
    BY <2>1, <2>2, <2>3, LoggingUsesLock, PTL
<1> QED
  BY <1>1, <1>2 DEF SafeUse

\* "Prevent them from clobbering each other's writes": two threads never write to
\* one file together, on demand from any thread or with InitLogging first and one
\* mutex for a shared file.
THEOREM LoggingWritersExclude == SafeUse /\ Spec => []WritersExclude
<1>1. Guarded => WritersExclude
  BY DEF Guarded, WritersExclude, Writing
<1>2. ASSUME SafeUse PROVE Spec => []WritersExclude
  BY <1>1, <1>2, LoggingGuarded, PTL
<1> QED
  BY <1>2

\* No log statement, InitLogging or CloseLogFile keeps the lock after its scope.
THEOREM LoggingReleased == (Disciplined \/ OnDemandUse) /\ Spec => []UnlockedOnExit
<1>1. ASSUME Disciplined PROVE Spec => []UnlockedOnExit
  BY <1>1, LockReleased, LoggingUsesLock, PTL
<1>2. ASSUME OnDemandUse PROVE Spec => []UnlockedOnExit
  <2>1. OnDemandInv => UnlockedOnExit
    BY DEF OnDemandInv, DefaultOwned, UnlockedOnExit
  <2>2. LockSpec => []OnDemandInv
    BY <1>2, LockOnDemand
  <2> QED
    BY <2>1, <2>2, LoggingUsesLock, PTL
<1> QED
  BY <1>1, <1>2

-----------------------------------------------------------------------------
(***************************************************************************)
(* A thread that is going to write stands at the end of the right file.    *)
(***************************************************************************)

\* HandleInv, thread by thread and process by process.
ThreadHandle(t) ==
  LET h == log_file[ProcOf[t]] IN
  pc[t] = "in" =>
    /\ at[t] \in Unnamed => h = NULL
    /\ at[t] \in Unopened => h \notin Handle
    /\ at[t] = "fallback" => OpenFails
    /\ at[t] = "seekEnd" => h \in Handle
    /\ AlwaysToFile /\ at[t] \in {"seek", "write"} => h \in Handle
    /\ at[t] = "write" /\ h \in Handle => h.pos = Len(content[h.file])

ProcHandle(p) ==
  /\ log_file_name[p] = EmptyPath => Busy(p, {"assign"})
  /\ log_file[p] = Invalid => Busy(p, Unopened)
  /\ log_file[p] \in Handle =>
       /\ log_file_name[p] \in Paths
       /\ log_file[p].file \in {FileOf[log_file_name[p]]} \cup Fallback

\* An empty name or an invalid handle is the doing of the one thread of the process
\* that is inside.
LEMMA BusyHere ==
  ASSUME Guarded, EndedTogether, HandleInv, NEW t \in Threads, pc[t] = "in"
  PROVE  /\ log_file_name[ProcOf[t]] = EmptyPath => at[t] = "assign"
         /\ log_file[ProcOf[t]] = Invalid => at[t] \in Unopened
<1> DEFINE p == ProcOf[t]
<1>1. ASSUME NEW places, Busy(p, places) PROVE at[t] \in places
  <2>1. PICK u \in Threads : ProcOf[u] = p /\ (pc[u] = "dead" \/ (pc[u] = "in" /\ at[u] \in places))
    BY <1>1 DEF Busy
  <2>2. pc[u] # "dead"
    <3>1. status[p] = "running"
      BY DEF EndedTogether
    <3> QED
      BY <2>1, <3>1 DEF EndedTogether
  <2>3. u = t
    BY <2>1, <2>2 DEF Guarded
  <2> QED
    BY <2>1, <2>2, <2>3
<1>2. p \in Procs
  BY ProcessAssumption
<1> QED
  BY <1>1, <1>2 DEF HandleInv

\* A step of the file functions leaves the handle as the place it leads to needs it.
LEMMA FileStepHandle ==
  ASSUME LoggingInv, Guarded, EndedTogether, HandleInv, NEW t \in Threads, FileStep(t)
  PROVE  ThreadHandle(t)' /\ ProcHandle(ProcOf[t])'
<1> DEFINE p == ProcOf[t]
           h == log_file[p]
           Goal == ThreadHandle(t)' /\ ProcHandle(p)'
<1>1. /\ at \in [Threads -> Outside \cup Locked]
      /\ log_file_name \in [Procs -> Paths \cup {NULL, EmptyPath}]
      /\ log_file \in [Procs -> Handle \cup {NULL, Invalid}]
      /\ content \in [Files -> Seq(Message)]
      /\ p \in Procs
  BY ProcessAssumption DEF LoggingInv, LoggingTypeOK
<1>2. /\ pc[t] = "in" /\ pc'[t] = "in" /\ content' = content
      /\ log_file_name[p] = EmptyPath => at[t] = "assign"
      /\ h = Invalid => at[t] \in Unopened
  BY FileStepMoves, BusyHere DEF nonFileVars, lockVars
<1>3. NULL \notin Handle /\ Invalid \notin Handle /\ Invalid # NULL /\ EmptyPath \notin Paths
      /\ EmptyPath # NULL /\ NULL \notin Paths
  BY LoggingAssumption, LockAssumption DEF Invalid, Handle
<1>4. /\ ThreadHandle(t)
      /\ h \in Handle => log_file_name[p] \in Paths /\ h.file \in {FileOf[log_file_name[p]]} \cup Fallback
  BY <1>1, <1>2 DEF HandleInv, ThreadHandle, AtEnd, Writing
\* What it leaves is no handle, an invalid one or a file.
<1>5. ASSUME log_file'[p] = NULL, at'[t] \notin {"fallback", "seekEnd"},
             AlwaysToFile => at'[t] \notin {"seek", "write"},
             log_file_name'[p] = EmptyPath => at'[t] = "assign"
      PROVE  Goal
  <2>1. ThreadHandle(t)'
    BY <1>2, <1>3, <1>5 DEF ThreadHandle
  <2>2. ProcHandle(p)'
    BY <1>2, <1>3, <1>5 DEF ProcHandle, Busy
  <2> QED
    BY <2>1, <2>2
<1>6. ASSUME log_file'[p] = Invalid, at'[t] \in Unopened, at'[t] = "fallback" => OpenFails,
             log_file_name'[p] # EmptyPath
      PROVE  Goal
  <2>1. ThreadHandle(t)'
    BY <1>2, <1>3, <1>6 DEF ThreadHandle, Unopened, Unnamed
  <2>2. ProcHandle(p)'
    BY <1>2, <1>3, <1>6 DEF ProcHandle, Busy
  <2> QED
    BY <2>1, <2>2
<1>7. ASSUME log_file'[p] \in Handle, at'[t] \notin Unnamed \cup Unopened,
             log_file_name'[p] \in Paths,
             log_file'[p].file \in {FileOf[log_file_name'[p]]} \cup Fallback,
             at'[t] = "write" => log_file'[p].pos = Len(content[log_file'[p].file])
      PROVE  Goal
  <2>1. ThreadHandle(t)'
    BY <1>2, <1>3, <1>7 DEF ThreadHandle, Unopened
  <2>2. ProcHandle(p)'
    BY <1>2, <1>3, <1>7 DEF ProcHandle, Busy
  <2> QED
    BY <2>1, <2>2
<1> SUFFICES Goal
  OBVIOUS
<1> HIDE DEF Goal
<1> USE <1>1, <1>2, <1>3, <1>4
    DEF Step, Stands, globalVars, fileVars, nonFileVars, Unnamed, Unopened
<1>8. Closed(t) \in {"rename", "leave"} /\ Ready(t) \in {"seek", "leave"}
  BY DEF Closed, Ready
<1>9. CASE CloseLogFileUnlocked(t)
  <2>1. at[t] = "close" /\ UNCHANGED <<log_file, log_file_name>>
    BY <1>9 DEF CloseLogFileUnlocked
  <2>2. CASE h = NULL
    <3>1. at' = [at EXCEPT ![t] = Closed(t)]
      BY <1>9, <2>2 DEF CloseLogFileUnlocked
    <3> QED
      BY <1>5, <1>8, <2>1, <2>2, <3>1
  <2>3. CASE h # NULL
    <3>1. at' = [at EXCEPT ![t] = "closeFile"]
      BY <1>9, <2>3 DEF CloseLogFileUnlocked
    <3>2. h \in Handle
      BY <2>1, <2>3
    <3> QED
      BY <1>7, <2>1, <3>1, <3>2
  <2> QED
    BY <2>2, <2>3
<1>10. CASE CloseFile(t)
  <2>1. /\ at[t] = "closeFile" /\ UNCHANGED log_file_name /\ at' = [at EXCEPT ![t] = "reset"]
        /\ log_file'[p] = NULL \/ log_file'[p] = Invalid
    BY <1>10 DEF CloseFile
  <2>2. log_file_name'[p] # EmptyPath
    BY <2>1
  <2>3. CASE log_file'[p] = NULL
    BY <1>5, <2>1, <2>2, <2>3
  <2>4. CASE log_file'[p] = Invalid
    BY <1>6, <2>1, <2>2, <2>4
  <2> QED
    BY <2>1, <2>3, <2>4
<1>11. CASE ResetLogFile(t)
  <2>1. /\ at[t] = "reset" /\ UNCHANGED log_file_name /\ at' = [at EXCEPT ![t] = Closed(t)]
        /\ log_file'[p] = NULL
    BY <1>11 DEF ResetLogFile
  <2> QED
    BY <1>5, <1>8, <2>1
<1>12. CASE Rename(t) \/ NewName(t)
  <2>1. /\ at[t] \in {"rename", "emptyName"} /\ UNCHANGED log_file
        /\ \E to \in {"emptyName", "assign"} :
             /\ at' = [at EXCEPT ![t] = to]
             /\ log_file_name'[p] = EmptyPath => to = "assign"
    BY <1>12 DEF Rename, NewName
  <2>2. log_file'[p] = NULL
    BY <2>1 DEF ThreadHandle
  <2> QED
    BY <1>5, <2>1, <2>2
<1>13. CASE TestHandle(t)
  <2>1. at[t] = "testHandle" /\ UNCHANGED <<log_file, log_file_name>>
    BY <1>13 DEF TestHandle
  <2>2. CASE h = NULL
    <3>1. at' = [at EXCEPT ![t] = "testName"]
      BY <1>13, <2>2 DEF TestHandle
    <3> QED
      BY <1>5, <2>1, <2>2, <3>1
  <2>3. CASE h # NULL
    <3>1. at' = [at EXCEPT ![t] = Ready(t)]
      BY <1>13, <2>3 DEF TestHandle
    <3>2. h \in Handle
      BY <2>1, <2>3
    <3> QED
      BY <1>7, <1>8, <2>1, <3>1, <3>2
  <2> QED
    BY <2>2, <2>3
<1>14. CASE TestName(t) \/ DefaultName(t)
  <2>1. /\ at[t] \in {"testName", "defaultName"} /\ UNCHANGED log_file
        /\ log_file_name'[p] \in {log_file_name[p], DefaultPath}
        /\ \E to \in {"defaultName", "reTestFile"} : at' = [at EXCEPT ![t] = to]
    BY <1>14 DEF TestName, DefaultName
  <2>2. log_file'[p] = NULL
    BY <2>1 DEF ThreadHandle
  <2>3. log_file_name'[p] # EmptyPath
    BY <2>1, LockAssumption
  <2> QED
    BY <1>5, <2>1, <2>2, <2>3
<1>15. CASE ReTestFile(t)
  <2>1. /\ at[t] = "reTestFile" /\ UNCHANGED <<log_file, log_file_name>>
        /\ log_file[p] = NULL
    BY <1>15 DEF ReTestFile, ThreadHandle
  <2>2. CASE "file" \in logging_destination[p]
    <3>1. at' = [at EXCEPT ![t] = "open"]
      BY <1>15, <2>2 DEF ReTestFile
    <3> QED
      BY <1>5, <2>1, <3>1
  <2>3. CASE "file" \notin logging_destination[p]
    <3>1. at' = [at EXCEPT ![t] = Ready(t)]
      BY <1>15, <2>3 DEF ReTestFile
    <3>2. ~AlwaysToFile
      BY <2>3 DEF LoggingInv, GlobalInv, AlwaysToFile
    <3> QED
      BY <1>5, <1>8, <2>1, <3>1, <3>2
  <2> QED
    BY <2>2, <2>3
<1>16. ASSUME NEW path, NEW from, NEW failed, CreateFile(t, path, from, failed),
              from # "assign", path \in Paths, failed \in {"fallback", "fail"},
              log_file_name[p] \in Paths, FileOf[path] \in {FileOf[log_file_name[p]]} \cup Fallback
       PROVE  Goal
  <2> DEFINE o == [file |-> FileOf[path], pos |-> 0]
  <2>1. o \in Handle /\ o.file = FileOf[path]
    BY <1>16, LoggingAssumption DEF Handle
  <2>2. UNCHANGED log_file_name
    BY <1>16 DEF CreateFile
  <2>3. \/ log_file' = [log_file EXCEPT ![p] = o] /\ at' = [at EXCEPT ![t] = "seekEnd"]
        \/ log_file' = [log_file EXCEPT ![p] = Invalid] /\ at' = [at EXCEPT ![t] = failed] /\ OpenFails
    BY <1>16 DEF CreateFile
  <2> HIDE DEF o
  <2>4. CASE log_file' = [log_file EXCEPT ![p] = o] /\ at' = [at EXCEPT ![t] = "seekEnd"]
    <3>1. log_file'[p] = o
      BY <2>4
    <3> QED
      BY <1>7, <1>16, <2>1, <2>2, <2>4, <3>1
  <2>5. CASE log_file' = [log_file EXCEPT ![p] = Invalid] /\ at' = [at EXCEPT ![t] = failed] /\ OpenFails
    <3>1. log_file'[p] = Invalid
      BY <2>5
    <3> QED
      BY <1>6, <1>16, <2>2, <2>5, <3>1
  <2> QED
    BY <2>3, <2>4, <2>5
<1>17. CASE OpenLogFile(t)
  <2>1. at[t] = "open" /\ CreateFile(t, log_file_name[p], "open", "fallback")
    BY <1>17 DEF OpenLogFile, CreateFile
  <2>2. log_file_name[p] \in Paths
    BY <2>1 DEF LoggingInv, GlobalInv, Nameds
  <2> QED
    BY <1>16, <2>1, <2>2
<1>18. CASE OpenFallback(t)
  <2>1. at[t] = "fallback" /\ CreateFile(t, FallbackPath, "fallback", "fail")
    BY <1>18 DEF OpenFallback, CreateFile
  <2>2. log_file_name[p] \in Paths
    BY <2>1 DEF LoggingInv, GlobalInv, Nameds
  <2>3. OpenFails
    BY <2>1 DEF ThreadHandle
  <2>4. FallbackPath \in Paths /\ FileOf[FallbackPath] \in Fallback
    BY <2>3, LoggingAssumption DEF Fallback
  <2> QED
    BY <1>16, <2>1, <2>2, <2>4
<1>19. CASE OpenFailed(t)
  <2>1. /\ at[t] = "fail" /\ UNCHANGED log_file_name /\ at' = [at EXCEPT ![t] = "leave"]
        /\ log_file'[p] = NULL
    BY <1>19 DEF OpenFailed
  <2> QED
    BY <1>5, <2>1
<1>20. ASSUME NEW from, NEW to, SetFilePointer(t, from, to), from \in {"seekEnd", "seek"},
              to \in {"seek", "write", "leave"}
       PROVE  Goal
  <2>1. /\ at[t] = from /\ at' = [at EXCEPT ![t] = to] /\ UNCHANGED log_file_name
        /\ log_file' = IF h \in Handle THEN [log_file EXCEPT ![p].pos = Len(content[h.file])]
                       ELSE log_file
    BY <1>20 DEF SetFilePointer
  <2>2. CASE h \in Handle
    <3>1. Len(content[h.file]) \in Nat
      BY <2>2 DEF Handle
    <3>2. /\ log_file'[p] \in Handle /\ log_file'[p].file = h.file
          /\ log_file'[p].pos = Len(content[h.file])
      BY <2>1, <2>2, <3>1 DEF Handle
    <3> QED
      BY <1>7, <1>20, <2>1, <2>2, <3>2
  <2>3. CASE h \notin Handle
    <3>1. from = "seek" /\ ~AlwaysToFile /\ log_file'[p] = NULL /\ log_file_name'[p] # EmptyPath
      BY <1>20, <2>1, <2>3 DEF ThreadHandle
    <3>2. to # "fallback" /\ to # "seekEnd"
      BY <1>20
    <3> QED
      BY <1>5, <2>1, <3>1, <3>2
  <2> QED
    BY <2>2, <2>3
<1>21. CASE SeekEnd(t) \/ Seek(t)
  BY <1>8, <1>20, <1>21 DEF SeekEnd, Seek
<1> QED
  BY <1>9, <1>10, <1>11, <1>12, <1>13, <1>14, <1>15, <1>17, <1>18, <1>19, <1>21 DEF FileStep

\* While only the thread inside changes the handle and the name of its process,
\* only that thread has anything to establish.
LEMMA HandleInvStep ==
  ASSUME LoggingInv, Guarded, EndedTogether, HandleInv, [Next]_vars
  PROVE  HandleInv'
<1>1. /\ at \in [Threads -> Outside \cup Locked] /\ DOMAIN pc = Threads
      /\ log_file_name \in [Procs -> Paths \cup {NULL, EmptyPath}]
      /\ log_file \in [Procs -> Handle \cup {NULL, Invalid}]
      /\ content \in [Files -> Seq(Message)]
  BY DEF LoggingInv, LoggingTypeOK, LockTypeOK
<1>2. /\ \A t \in Threads : ThreadHandle(t)
      /\ \A p \in Procs : ProcHandle(p)
  BY DEF HandleInv, ThreadHandle, ProcHandle, AtEnd, Writing
<1> DEFINE Goal == /\ \A t \in Threads : ThreadHandle(t)'
                   /\ \A p \in Procs : ProcHandle(p)'
<1>3. SUFFICES Goal
  BY DEF HandleInv, ThreadHandle, ProcHandle, AtEnd, Writing
<1> HIDE DEF Goal
<1> USE <1>1, ProcessAssumption
    DEF Stands, Step, Finish, Goto, logVars, callVars, globalVars, fileVars, nonFileVars, lockVars
\* Nothing changes but the locations of threads that end.
<1>4. ASSUME UNCHANGED <<at, fileVars>>, \A t \in Threads : pc'[t] \in {pc[t], "dead"}
      PROVE  Goal
  <2>1. \A p \in Procs : \A places : Busy(p, places) => Busy(p, places)'
    BY <1>4 DEF Busy
  <2> QED
    BY <1>2, <1>4, <2>1 DEF Goal, ThreadHandle, ProcHandle
<1>5. ASSUME NEW p, NEW c, Terminate(p, c), UNCHANGED logVars PROVE Goal
  BY <1>4, <1>5 DEF Terminate
<1>6. ASSUME NEW t \in Threads, NEW where, NEW from, Fault(t, where, from) PROVE Goal
  BY <1>5, <1>6 DEF Fault
\* The files stay as they are, and nobody waits for this thread to repair them.
<1>7. ASSUME NEW t \in Threads, CallStep(t) \/ HostStep(t), UNCHANGED fileVars, ThreadHandle(t)',
             pc[t] # "dead", pc[t] = "in" => at[t] \notin Unopened \cup {"assign"}
      PROVE  Goal
  <2>1. \A u \in Threads \ {t} : at'[u] = at[u] /\ pc'[u] \in {pc[u], "dead"}
    BY <1>7, OthersStay
  <2>2. \A u \in Threads \ {t} : ThreadHandle(u)'
    BY <1>2, <1>7, <2>1 DEF ThreadHandle
  <2>3. ASSUME NEW p \in Procs, NEW places \in {{"assign"}, Unopened}, Busy(p, places)
        PROVE  Busy(p, places)'
    BY <1>7, <2>1, <2>3 DEF Busy
  <2>4. \A p \in Procs : ProcHandle(p)'
    BY <1>2, <1>7, <2>3 DEF ProcHandle
  <2> QED
    BY <1>7, <2>2, <2>4 DEF Goal
\* The thread is inside, and changes the handle or the name of its process only.
<1>8. ASSUME NEW t \in Threads, pc[t] = "in", UNCHANGED pc, CallStep(t),
             \A p \in Procs \ {ProcOf[t]} : log_file'[p] = log_file[p] /\ log_file_name'[p] = log_file_name[p],
             \A u \in Threads \ {t} : Writing(u) =>
               content'[log_file[ProcOf[u]].file] = content[log_file[ProcOf[u]].file],
             ThreadHandle(t)', ProcHandle(ProcOf[t])'
      PROVE  Goal
  <2>1. \A u \in Threads \ {t} : at'[u] = at[u]
    BY <1>8, OthersStay
  <2>2. ASSUME NEW u \in Threads \ {t}, pc'[u] = "in" PROVE ThreadHandle(u)'
    <3>1. pc[u] = "in" /\ at'[u] = at[u]
      BY <1>8, <2>1, <2>2
    <3>2. ProcOf[u] # ProcOf[t]
      BY <1>8, <3>1 DEF Guarded
    <3>3. log_file'[ProcOf[u]] = log_file[ProcOf[u]]
      BY <1>8, <3>2
    <3> QED
      BY <1>2, <1>8, <3>1, <3>3 DEF ThreadHandle, Writing
  <2>3. \A u \in Threads : ThreadHandle(u)'
    BY <1>8, <2>2 DEF ThreadHandle
  <2>4. ASSUME NEW p \in Procs \ {ProcOf[t]}, NEW places, Busy(p, places) PROVE Busy(p, places)'
    BY <1>8, <2>1, <2>4 DEF Busy
  <2>5. \A p \in Procs : ProcHandle(p)'
    BY <1>2, <1>8, <2>4 DEF ProcHandle
  <2> QED
    BY <2>3, <2>5 DEF Goal
<1>9. ASSUME NEW t \in Threads, LockStep(t), UNCHANGED logVars PROVE Goal
  <2>1. /\ pc'[t] = "in" => pc[t] \in Before \cup Taking
        /\ pc[t] \notin {"in", "dead"}
    BY <1>9, LockMoves DEF LoggingInv, Leaving, Before, Taking
  <2>2. pc[t] \in Before \cup Taking => at[t] \in {"close", "testHandle"}
    BY DEF LoggingInv, PlaceInv, Before, Taking, Leaving, Outside, Locked
  <2>3. ThreadHandle(t)'
    BY <1>9, <2>1, <2>2 DEF ThreadHandle, Unnamed, Unopened
  <2> QED
    BY <1>7, <1>9, <2>1, <2>3 DEF CallStep
<1>10. ASSUME NEW t \in Threads,
             \/ Trace(t) \/ TestHandler(t) \/ CallHandler(t) \/ TestDebug(t) \/ TestFile(t)
             \/ TestFatal(t) \/ CallAssert(t) \/ TestDialog(t) \/ CloseDialog(t) \/ CopyPath(t)
             \/ CloseLogFile(t) \/ GetLogFileFullPath(t)
             \/ \E severity \in Severities : Log(t, severity)
      PROVE  Goal
  <2>1. UNCHANGED fileVars /\ pc[t] = "out"
    BY <1>10
    DEF Trace, TestHandler, CallHandler, TestDebug, TestFile, TestFatal, CallAssert, TestDialog,
        CloseDialog, CopyPath, Fault, CloseLogFile, GetLogFileFullPath, Log
  <2>2. pc'[t] # "in"
    BY <1>10
    DEF Trace, TestHandler, CallHandler, TestDebug, TestFile, TestFatal, CallAssert, TestDialog,
        CloseDialog, CopyPath, Fault, CloseLogFile, CloseLogFileEnters, GetLogFileFullPath, Log,
        LogMessageEnters, Terminate
  <2> QED
    BY <1>7, <1>10, <2>1, <2>2 DEF CallStep, HostStep, ThreadHandle
<1>11. ASSUME NEW t \in Threads, LeaveScope(t) PROVE Goal
  <2>1. UNCHANGED fileVars /\ pc[t] = "in" /\ at[t] = "leave" /\ pc'[t] # "in"
    BY <1>11 DEF LeaveScope, Leave
  <2> QED
    BY <1>7, <1>11, <2>1 DEF CallStep, ThreadHandle, Unopened
<1>12. ASSUME NEW t \in Threads, TestDestination(t) \/ \E s \in SettingsOf[ProcOf[t]] : InitLogging(t, s)
       PROVE  Goal
  <2>1. UNCHANGED fileVars /\ pc[t] \in {"start", "out"}
    BY <1>12 DEF TestDestination, InitLoggingEnters, InitLogging
  <2>2. pc'[t] # "in"
    BY <1>12 DEF TestDestination, InitLoggingEnters, InitLogging
  <2> QED
    BY <1>7, <1>12, <2>1, <2>2 DEF ThreadHandle, CallStep, HostStep
<1>13. ASSUME NEW t \in Threads, FileStep(t) PROVE Goal
  <2>1. pc[t] = "in" /\ UNCHANGED <<pc, content>>
    BY <1>13, FileStepMoves
  <2>2. \A p \in Procs \ {ProcOf[t]} : log_file'[p] = log_file[p] /\ log_file_name'[p] = log_file_name[p]
    BY <1>13, FileStepHandles, FileStepNames DEF LoggingInv
  <2>3. ThreadHandle(t)' /\ ProcHandle(ProcOf[t])'
    BY <1>13, FileStepHandle
  <2>4. CallStep(t)
    BY <1>13 DEF CallStep
  <2> QED
    BY <1>8, <2>1, <2>2, <2>3, <2>4
<1>14. ASSUME NEW t \in Threads, AssignName(t) PROVE Goal
  <2> DEFINE p == ProcOf[t]
  <2>1. CASE \E where, from : Fault(t, where, from)
    BY <1>6, <2>1
  <2>2. CASE ~\E where, from : Fault(t, where, from)
    <3>1. /\ pc[t] = "in" /\ at[t] = "assign" /\ UNCHANGED <<pc, log_file, content>>
          /\ at' \in {[at EXCEPT ![t] = "delete"], [at EXCEPT ![t] = "testHandle"]}
          /\ op[t].settings.log_file # NULL
          /\ log_file_name' = [log_file_name EXCEPT ![p] = op[t].settings.log_file]
      BY <1>14, <2>2 DEF AssignName
    <3>2. op[t].settings.log_file \in Paths
      <4>1. op[t].settings \in SettingsOf[p]
        BY <3>1 DEF LoggingInv, CallInv, InitPlaces
      <4>2. op[t].settings \in LoggingSettings
        BY <4>1, LockAssumption
      <4> QED
        BY <3>1, <4>2 DEF LoggingSettings
    <3>3. log_file'[p] = NULL /\ log_file_name'[p] # EmptyPath
      BY <1>2, <3>1, <3>2, LoggingAssumption DEF ThreadHandle, Unnamed
    <3>4. NULL \notin Handle /\ Invalid # NULL
      BY LoggingAssumption
    <3>5. ThreadHandle(t)' /\ ProcHandle(p)'
      BY <3>1, <3>3, <3>4 DEF ThreadHandle, ProcHandle, Unnamed, Unopened
    <3>6. \A q \in Procs \ {p} : log_file_name'[q] = log_file_name[q]
      BY <3>1
    <3> QED
      BY <1>8, <1>14, <3>1, <3>5, <3>6 DEF CallStep
  <2> QED
    BY <2>1, <2>2
<1>18. ASSUME NEW t \in Threads, WriteFile(t) PROVE Goal
  <2> DEFINE p == ProcOf[t]
             h == log_file[p]
  <2>1. /\ pc[t] = "in" /\ at[t] = "write" /\ UNCHANGED <<pc, log_file_name>>
        /\ at' = [at EXCEPT ![t] = "leave"]
    BY <1>18 DEF WriteFile
  <2>2. log_file_name[p] # EmptyPath /\ h # Invalid
    BY <2>1, BusyHere DEF Unopened
  <2>3. CASE UNCHANGED <<content, log_file>>
    <3>1. ThreadHandle(t)' /\ ProcHandle(p)'
      BY <1>2, <2>1, <2>2, <2>3 DEF ThreadHandle, ProcHandle, Unnamed, Unopened
    <3> QED
      BY <1>8, <1>18, <2>1, <2>3, <3>1 DEF CallStep
  <2>4. CASE ~UNCHANGED <<content, log_file>>
    <3>1. /\ h \in Handle
          /\ \A f \in Files \ {h.file} : content'[f] = content[f]
          /\ log_file' = [log_file EXCEPT ![p].pos = h.pos + 1]
      BY <1>18, <2>4 DEF WriteFile
    <3>2. ASSUME NEW u \in Threads \ {t}, Writing(u)
          PROVE  content'[log_file[ProcOf[u]].file] = content[log_file[ProcOf[u]].file]
      <4>1. log_file[ProcOf[u]].file \in Files \ {h.file}
        BY <2>1, <3>1, <3>2 DEF Writing, Guarded, Handle
      <4> QED
        BY <3>1, <4>1
    <3>3. log_file'[p] = [file |-> h.file, pos |-> h.pos + 1]
      BY <3>1 DEF Handle
    <3>4. log_file'[p] # Invalid
      BY <3>1, <3>3, LoggingAssumption DEF Invalid, Handle
    <3>5. log_file_name'[p] \in Paths /\ log_file'[p].file \in {FileOf[log_file_name'[p]]} \cup Fallback
      BY <1>2, <2>1, <3>1, <3>3 DEF ProcHandle
    <3>6. ThreadHandle(t)' /\ ProcHandle(p)'
      BY <2>1, <2>2, <3>4, <3>5 DEF ThreadHandle, ProcHandle, Unnamed, Unopened
    <3> QED
      BY <1>8, <1>18, <2>1, <3>1, <3>2, <3>6 DEF CallStep
  <2> QED
    BY <2>3, <2>4
<1>19. ASSUME NEW t \in Threads, DeleteFilePath(t) PROVE Goal
  <2> DEFINE path == log_file_name[ProcOf[t]]
  <2>1. /\ pc[t] = "in" /\ at[t] = "delete" /\ at' = [at EXCEPT ![t] = "testHandle"]
        /\ UNCHANGED <<pc, log_file_name, log_file>>
        /\ content' = IF path \in Paths /\ ~Open(FileOf[path])
                      THEN [content EXCEPT ![FileOf[path]] = <<>>] ELSE content
    BY <1>19 DEF DeleteFilePath
  <2>2. ASSUME NEW u \in Threads \ {t}, Writing(u)
        PROVE  content'[log_file[ProcOf[u]].file] = content[log_file[ProcOf[u]].file]
    <3>1. status[ProcOf[u]] = "running" /\ log_file[ProcOf[u]] \in Handle
      BY <2>2 DEF EndedTogether, Writing
    <3>2. Open(log_file[ProcOf[u]].file)
      BY <3>1 DEF Open
    <3>3. log_file[ProcOf[u]].file \in Files
      BY <3>1 DEF Handle
    <3> QED
      BY <2>1, <3>2, <3>3
  <2>3. path # EmptyPath /\ log_file[ProcOf[t]] # Invalid
    BY <2>1, BusyHere DEF Unopened
  <2>4. ThreadHandle(t)' /\ ProcHandle(ProcOf[t])'
    BY <1>2, <2>1, <2>3 DEF ThreadHandle, ProcHandle, Unnamed, Unopened
  <2> QED
    BY <1>8, <1>19, <2>1, <2>2, <2>4 DEF CallStep
<1>20. ASSUME NEW t \in Threads, SpawnThread(t) PROVE Goal
  <2>1. UNCHANGED fileVars /\ pc[t] = "unborn" /\ pc'[t] = "out"
    BY <1>20 DEF SpawnThread, Spawn
  <2> QED
    BY <1>7, <1>20, <2>1 DEF HostStep, ThreadHandle
<1>21. ASSUME NEW t \in Threads,
              \/ \E h : SetLogMessageHandler(t, h) \/ SetLogAssertHandler(t, h)
              \/ \E enable : SetShowErrorDialogs(t, enable)
       PROVE  Goal
  BY <1>4, <1>21 DEF SetLogMessageHandler, SetLogAssertHandler, SetShowErrorDialogs
<1>22. ASSUME NEW p \in Procs, Kill(p) PROVE Goal
  BY <1>5, <1>22 DEF Kill
<1>23. ASSUME UNCHANGED vars PROVE Goal
  BY <1>4, <1>23 DEF vars
<1> QED
  BY <1>9, <1>10, <1>11, <1>12, <1>13, <1>14, <1>18, <1>19, <1>20, <1>21, <1>22, <1>23
  DEF Next, CallStep, HostStep

\* In the two ways of use the write of a log statement always finds the file
\* pointer at the end of its file.
THEOREM LoggingHandles == SafeUse /\ Spec => []HandleInv
<1>1. LoggingInit => HandleInv
  <2>1. NULL \notin Handle \cup {Invalid, EmptyPath}
    BY LoggingAssumption
  <2> QED
    BY <2>1, ProcessAssumption DEF LoggingInit, LockInit, HandleInv, AtEnd, Writing
<1>2. LoggingInv /\ Guarded /\ EndedTogether /\ HandleInv /\ [Next]_vars => HandleInv'
  BY HandleInvStep
<1>3. ASSUME SafeUse PROVE Spec => []HandleInv
  <2>1. Spec => []Guarded
    BY <1>3, LoggingGuarded
  <2> QED
    BY <1>1, <1>2, <2>1, LoggingInvariant, LoggingUsesLock, LockEnds, PTL DEF Spec
<1> QED
  BY <1>3

\* At its write a thread stands at the end of the file, wherever other processes
\* have moved it.
THEOREM LoggingAtEnd == SafeUse /\ Spec => []AtEnd
<1>1. HandleInv => AtEnd
  BY DEF HandleInv
<1>2. ASSUME SafeUse PROVE Spec => []AtEnd
  BY <1>1, <1>2, LoggingHandles, PTL
<1> QED
  BY <1>2

\* InitializeLogFileHandle returns true only with the file of the current name, or
\* the fallback, open, as long as every InitLogging asks for LOG_TO_FILE.
THEOREM LoggingHandleReady == SafeUse /\ AlwaysToFile /\ Spec => []HandleReady
<1>1. AlwaysToFile /\ HandleInv => HandleReady
  BY ProcessAssumption DEF HandleInv, HandleReady, Fallback
<1>2. ASSUME SafeUse, AlwaysToFile PROVE Spec => []HandleReady
  BY <1>1, <1>2, LoggingHandles, PTL
<1> QED
  BY <1>2

-----------------------------------------------------------------------------
(***************************************************************************)
(* The FATAL message of a process that ends by one is in a file.           *)
(***************************************************************************)

\* The file functions change the handles only, and the write of a log statement
\* and the deletion of InitLogging the files.
LEMMA FilesMove ==
  ASSUME [Next]_vars
  PROVE  \/ UNCHANGED <<content, log_file>>
         \/ \E t \in Threads : FileStep(t) \/ WriteFile(t) \/ DeleteFilePath(t)
<1> USE DEF logVars, globalVars, fileVars, nonFileVars
<1>1. CASE \E t \in Threads : CallStep(t)
  BY <1>1
  DEF CallStep, Trace, TestHandler, CallHandler, TestDebug, TestFile, TestFatal, CallAssert,
      TestDialog, CopyPath, TestDestination, AssignName, LeaveScope, Fault
<1>2. CASE \E t \in Threads : HostStep(t)
  BY <1>2
  DEF HostStep, SpawnThread, CloseDialog, CloseLogFile, GetLogFileFullPath, Log, InitLogging,
      SetLogMessageHandler, SetLogAssertHandler, SetShowErrorDialogs
<1>3. CASE \E p \in Procs : Kill(p)
  BY <1>3 DEF Kill
<1>4. CASE UNCHANGED vars
  BY <1>4 DEF vars
<1> QED
  BY <1>1, <1>2, <1>3, <1>4 DEF Next

\* The write appends: its message, or what is left of it, to the file that is open.
LEMMA WriteAppends ==
  ASSUME LoggingInv, AtEnd, NEW t \in Threads, WriteFile(t)
  PROVE  LET h == log_file[ProcOf[t]] IN
         \/ UNCHANGED <<content, log_file>> /\ (h \notin Handle \/ WriteFails)
         \/ /\ h \in Handle /\ log_file' = [log_file EXCEPT ![ProcOf[t]].pos = h.pos + 1]
            /\ \E m \in {op[t].msg} \cup IF WriteFails THEN {Cut(op[t].msg)} ELSE {} :
                 content' = [content EXCEPT ![h.file] = Append(content[h.file], m)]
<1> DEFINE h == log_file[ProcOf[t]]
<1>1. CASE UNCHANGED <<content, log_file>> /\ (h \notin Handle \/ WriteFails)
  BY <1>1
<1>2. CASE ~(UNCHANGED <<content, log_file>> /\ (h \notin Handle \/ WriteFails))
  <2>1. h \in Handle /\ log_file' = [log_file EXCEPT ![ProcOf[t]].pos = h.pos + 1]
    BY <1>2 DEF WriteFile
  <2>2. PICK m \in {op[t].msg} \cup IF WriteFails THEN {Cut(op[t].msg)} ELSE {} :
          content' = [content EXCEPT ![h.file] = Written(content[h.file], h.pos, m)]
    BY <1>2 DEF WriteFile
  <2>3. h.file \in Files /\ content[h.file] \in Seq(Message)
    BY <2>1 DEF Handle, LoggingInv, LoggingTypeOK
  <2>4. h.pos = Len(content[h.file])
    BY <2>1 DEF WriteFile, Step, Stands, AtEnd, Writing
  <2>5. Written(content[h.file], h.pos, m) = Append(content[h.file], m)
    BY <2>3, <2>4 DEF Written
  <2> QED
    BY <2>1, <2>2, <2>5
<1> QED
  BY <1>1, <1>2

\* What is in a file stays there, unless an InitLogging deletes the file.
LEMMA HeldStays ==
  ASSUME LoggingInv, AtEnd, Reliable, [Next]_vars, NEW m, Held(m)
  PROVE  HeldIn(content', m)
<1>1. PICK f \in Files : \E i \in DOMAIN content[f] : content[f][i] = m
  BY DEF Held, HeldIn
<1>2. PICK i \in DOMAIN content[f] : content[f][i] = m
  BY <1>1
<1>3. content \in [Files -> Seq(Message)]
  BY DEF LoggingInv, LoggingTypeOK
<1>4. CASE UNCHANGED content
  BY <1>4 DEF Held, HeldIn
<1>5. ASSUME NEW t \in Threads, WriteFile(t), content' # content PROVE HeldIn(content', m)
  <2>1. PICK g \in Files, r \in {op[t].msg} \cup IF WriteFails THEN {Cut(op[t].msg)} ELSE {} :
          content' = [content EXCEPT ![g] = Append(content[g], r)]
    BY <1>5, WriteAppends DEF Handle
  <2>2. content[f] \in Seq(Message)
    BY <1>3
  <2>3. i \in 1 .. Len(content[f])
    BY <1>2, <2>2
  <2>4. i \in DOMAIN content'[f] /\ content'[f][i] = m
    <3>1. CASE g = f
      <4>1. content'[f] = Append(content[f], r)
        BY <1>3, <2>1, <3>1
      <4>2. i \in DOMAIN Append(content[f], r) /\ Append(content[f], r)[i] = content[f][i]
        BY <2>2, <2>3
      <4> QED
        BY <1>2, <4>1, <4>2
    <3>2. CASE g # f
      BY <1>2, <1>3, <2>1, <3>2
    <3> QED
      BY <3>1, <3>2
  <2> QED
    BY <2>4 DEF Held, HeldIn
<1>6. ASSUME NEW t \in Threads, DeleteFilePath(t) PROVE FALSE
  <2>1. /\ op[t].kind = "init" /\ op[t].settings.delete_old
        /\ op[t].settings \in SettingsOf[ProcOf[t]] /\ inits[ProcOf[t]] > 0
    BY <1>6 DEF DeleteFilePath, Step, Stands, LoggingInv, CallInv, InitPlaces
  <2>2. inits[ProcOf[t]] = 0
    BY <2>1, ProcessAssumption DEF Reliable
  <2> QED
    BY <2>1, <2>2
<1>7. ASSUME NEW t \in Threads, FileStep(t) PROVE UNCHANGED content
  BY <1>7, FileStepMoves
<1> QED
  BY <1>4, <1>5, <1>6, <1>7, FilesMove

\* Reliability is lost, never gained, and leaves a log statement no way around
\* its write.
LEMMA ReliableFacts ==
  ASSUME LoggingInv, [Next]_vars, Reliable'
  PROVE  /\ Reliable /\ AlwaysToFile /\ ~OpenFails /\ ~WriteFails
         /\ \A p \in Procs : "file" \in logging_destination[p]
<1>1. Reliable
  BY InitsGrow DEF Reliable
<1>2. AlwaysToFile /\ ~OpenFails /\ ~WriteFails
  BY <1>1 DEF Reliable, AlwaysToFile
<1> QED
  BY <1>1, <1>2 DEF AlwaysToFile, LoggingInv, GlobalInv

\* A log statement passes its write, when nothing fails, only with its message in
\* the file.
LEMMA WrittenInvStep ==
  ASSUME LoggingInv, PrintedInv, HandleInv, WrittenInv, [Next]_vars
  PROVE  WrittenInv'
<1>1. AtEnd
  BY DEF HandleInv
<1>2. ASSUME NEW t \in Threads, InCall(t, "log")', Reliable', at'[t] \in Late
      PROVE  HeldIn(content', op'[t].msg)
  <2>1. /\ Reliable /\ AlwaysToFile /\ ~OpenFails /\ ~WriteFails
        /\ "file" \in logging_destination[ProcOf[t]]
    BY <1>2, ReliableFacts, ProcessAssumption
  <2>2. InCall(t, "log") /\ op'[t] = op[t]
    BY <1>2, LogMoves DEF Early, Late
  <2>3. at[t] \in Late \/ WriteFile(t)
    BY <1>2, <2>1, LogMoves DEF Early, Late, PassesFile, TestDebug, Step, Stands,
       LoggingInv, LoggingTypeOK
  <2>4. CASE at[t] \in Late
    <3>1. Held(op[t].msg)
      BY <2>1, <2>2, <2>4 DEF WrittenInv, Late
    <3> QED
      BY <1>1, <2>1, <2>2, <3>1, HeldStays DEF Held, HeldIn
  <2>5. CASE WriteFile(t)
    <3>1. log_file[ProcOf[t]] \in Handle
      BY <2>1, <2>5 DEF WriteFile, Step, Stands, HandleInv
    <3>2. PICK f \in Files : content' = [content EXCEPT ![f] = Append(content[f], op[t].msg)]
      BY <1>1, <2>1, <2>5, <3>1, WriteAppends DEF Handle
    <3>3. content[f] \in Seq(Message) /\ content'[f] = Append(content[f], op[t].msg)
      BY <3>2 DEF LoggingInv, LoggingTypeOK
    <3>4. op[t].msg \in Message
      <4>1. op[t] \in Calls
        BY DEF LoggingInv, LoggingTypeOK
      <4> QED
        BY <2>2, <4>1, CallArguments DEF InCall
    <3>5. Len(content[f]) + 1 \in DOMAIN content'[f]
          /\ content'[f][Len(content[f]) + 1] = op[t].msg
      BY <3>3, <3>4
    <3> QED
      BY <2>2, <3>5 DEF Held, HeldIn
  <2> QED
    BY <2>3, <2>4, <2>5
<1>3. ASSUME NEW p \in Procs, status'[p] = "fatal"
      PROVE  \E m \in printed' :
               /\ m.severity = LOG_FATAL /\ ProcOf[m.thread] = p
               /\ Reliable' => HeldIn(content', m)
  <2>1. printed \subseteq printed'
    BY OutputGrows
  <2>2. CASE status[p] = "fatal"
    <3>1. PICK m \in printed :
            m.severity = LOG_FATAL /\ ProcOf[m.thread] = p /\ (Reliable => Held(m))
      BY <2>2 DEF WrittenInv, FatalLogged, Held, HeldIn
    <3>2. Reliable' => HeldIn(content', m)
      BY <1>1, <3>1, ReliableFacts, HeldStays
    <3> QED
      BY <2>1, <3>1, <3>2
  <2>3. CASE status[p] # "fatal"
    <3>1. PICK t \in Threads :
            /\ ProcOf[t] = p /\ pc[t] = "out" /\ at[t] \in {"testFatal", "testDialog", "dialog"}
            /\ op[t].kind = "log" /\ op[t].msg.severity = LOG_FATAL
            /\ UNCHANGED <<globalVars, traceVars>>
      BY <1>3, <2>3, FatalEnds
    <3>2. InCall(t, "log") /\ op[t].msg.thread = t
      BY <3>1 DEF InCall, LoggingInv, CallInv
    <3>3. op[t].msg \in printed
      BY <3>1, <3>2 DEF PrintedInv
    <3>4. Reliable => Held(op[t].msg)
      BY <3>1, <3>2 DEF WrittenInv
    <3>5. Reliable' => HeldIn(content', op[t].msg)
      BY <1>1, <3>4, ReliableFacts, HeldStays
    <3> QED
      BY <2>1, <3>1, <3>2, <3>3, <3>5
  <2> QED
    BY <2>2, <2>3
<1> QED
  BY <1>2, <1>3 DEF WrittenInv, FatalLogged, Late, Held, HeldIn, InCall

\* "Terminate (after the message is logged)": in the two ways of use, a process that
\* ends by a FATAL message has printed it, and written it to a file unless the
\* disk, a destination without LOG_TO_FILE or a deletion prevents that.
THEOREM LoggingFatalLogged == SafeUse /\ Spec => []FatalLogged
<1>1. LoggingInit => WrittenInv
  BY ProcessAssumption DEF LoggingInit, LockInit, WrittenInv, FatalLogged, InCall
<1>2. LoggingInv /\ PrintedInv /\ HandleInv /\ WrittenInv /\ [Next]_vars => WrittenInv'
  BY WrittenInvStep
<1>3. WrittenInv => FatalLogged
  BY DEF WrittenInv
<1>4. ASSUME SafeUse PROVE Spec => []FatalLogged
  <2>1. Spec => []HandleInv
    BY <1>4, LoggingHandles
  <2> QED
    BY <1>1, <1>2, <1>3, <2>1, LoggingInvariant, LoggingFatalPrinted, PTL DEF Spec
<1> QED
  BY <1>4

-----------------------------------------------------------------------------
(***************************************************************************)
(* The component keeps its promise: a step of Logging is a step of         *)
(* AtomicLog, or changes none of its variables.                            *)
(***************************************************************************)

\* The message of a log statement in progress.
LEMMA CalledMessages ==
  ASSUME LoggingInv, NEW t \in Threads, InCall(t, "log")
  PROVE  op[t].msg \in Message /\ op[t].msg.thread = t /\ op[t].msg = [op[t].msg EXCEPT !.whole = TRUE]
<1>1. op[t] \in Calls /\ op[t].kind = "log" /\ op[t].msg.thread = t /\ op[t].msg.whole
  BY DEF LoggingInv, LoggingTypeOK, CallInv, InCall
<1>2. op[t].msg \in Message
  BY <1>1, CallArguments
<1>3. op[t].msg.whole = TRUE
  <2>1. op[t].msg.whole \in BOOLEAN
    BY <1>2 DEF Message
  <2> QED
    BY <1>1, <2>1, Zenon
<1>4. \A m \in Message : m.whole = TRUE => m = [m EXCEPT !.whole = TRUE]
  BY DEF Message
<1> QED
  BY <1>1, <1>2, <1>3, <1>4

\* Unless a log statement is called, messages only leave the set of those called.
LEMMA CalledShrinks ==
  ASSUME LoggingInv, [Next]_vars, UNCHANGED issued
  PROVE  Called' \subseteq Called
<1> SUFFICES ASSUME NEW t \in Threads, InCall(t, "log")', at'[t] \notin Late
             PROVE  op'[t].msg \in Called
  BY DEF Called, Late, InCall
<1>1. ASSUME NEW severity, Log(t, severity) PROVE FALSE
  BY <1>1 DEF Log, LoggingInv, LoggingTypeOK
<1>2. InCall(t, "log") /\ op'[t] = op[t] /\ at[t] \notin Late
  BY <1>1, LogMoves DEF Early, Late, TestDebug, Step, Stands
<1> QED
  BY <1>2 DEF Called, Late

\* A log statement puts its message among those called.
LEMMA LogCalls ==
  ASSUME LoggingInv, [Next]_vars, NEW t \in Threads, NEW severity \in Severities, Log(t, severity)
  PROVE  \E m \in Message : Promise!Call(m)
<1> DEFINE m == [id |-> issued', thread |-> t, severity |-> severity, whole |-> TRUE]
<1>1. /\ issued' = issued + 1 /\ UNCHANGED <<pc, status, content, log_file>>
      /\ op' = [op EXCEPT ![t] = [kind |-> "log", msg |-> m]]
      /\ at' \in {[at EXCEPT ![t] = "trace"], [at EXCEPT ![t] = "testHandler"]}
      /\ pc[t] = "out" /\ at[t] = "idle"
  BY DEF Log, Step, Stands, lockVars, globalVars, fileVars
<1>2. DOMAIN op = Threads /\ DOMAIN at = Threads /\ op[t].kind = "none"
  BY <1>1 DEF LoggingInv, LoggingTypeOK, CallInv
<1>3. op'[t].kind = "log" /\ op'[t].msg = m /\ at'[t] \notin Late /\ pc'[t] = "out"
  BY <1>1, <1>2 DEF Late
<1>4. \A u \in Threads \ {t} : op'[u] = op[u] /\ at'[u] = at[u] /\ pc'[u] = pc[u]
  <2>1. HostStep(t)
    BY DEF HostStep
  <2> QED
    BY <1>1, <2>1, OthersStay
<1> HIDE DEF m
<1>5. \A u \in Threads : InCall(u, "log")' /\ at'[u] \notin Late <=>
                           u = t \/ (InCall(u, "log") /\ at[u] \notin Late)
  BY <1>2, <1>3, <1>4 DEF InCall
<1>6. Called' = Called \cup {m}
  <2>1. Called' = {op'[u].msg : u \in {v \in Threads : v = t \/ (InCall(v, "log") /\ at[v] \notin Late)}}
    BY <1>5 DEF Called, Late, InCall
  <2>2. Called = {op[u].msg : u \in {v \in Threads : InCall(v, "log") /\ at[v] \notin Late}}
    BY DEF Called, Late
  <2>3. ~InCall(t, "log")
    BY <1>2 DEF InCall
  <2> QED
    BY <1>3, <1>4, <2>1, <2>2, <2>3
<1>7. m \in Message
  <2>1. op'[t] \in Calls
    BY LoggingInvStep DEF LoggingInv, LoggingTypeOK
  <2> QED
    BY <1>3, <2>1, CallArguments
<1>8. m.whole /\ m.id = issued + 1
  BY <1>1 DEF m
<1>9. {f \in Files : Open(f)}' = {f \in Files : Open(f)}
  BY <1>1 DEF Open
<1> QED
  BY <1>1, <1>6, <1>7, <1>8, <1>9 DEF Promise!Call

\* As long as no process ends, open files are closed by their own process only.
LEMMA OpenStays ==
  ASSUME LoggingInv, [Next]_vars,
         \A p \in Procs : log_file'[p] \in Handle =>
           log_file[p] \in Handle /\ log_file'[p].file = log_file[p].file
  PROVE  \A f : Open(f)' => Open(f)
<1>1. [LockNext]_lockVars
  BY StepUsesLock
<1>2. \A p \in Procs : status'[p] = "running" => status[p] = "running"
  <2>1. CASE UNCHANGED lockVars
    BY <2>1 DEF lockVars
  <2>2. CASE LockNext
    <3>1. CASE UNCHANGED status
      BY <3>1
    <3>2. ASSUME NEW p \in Procs, NEW cause, cause # "running", Terminate(p, cause)
          PROVE  \A q \in Procs : status'[q] = "running" => status[q] = "running"
      BY <3>2 DEF Terminate, LoggingInv, LockTypeOK
    <3> QED
      BY <2>2, <3>1, <3>2, LockStepEnds
  <2> QED
    BY <1>1, <2>1, <2>2
<1> QED
  BY <1>2 DEF Open

\* What the promise calls the open files.
Opened == {f \in Files : Open(f)}

\* A thread in the file functions opens at most one file, and that where no log
\* statement has come to its write.
LEMMA FileStepOpens ==
  ASSUME LoggingInv, HandleInv, [Next]_vars, NEW t \in Threads, FileStep(t)
  PROVE  Promise!PromiseNext
<1> DEFINE p == ProcOf[t]
<1>1. /\ pc[t] = "in" /\ UNCHANGED <<pc, op, content, issued, status>>
      /\ \E to : at' = [at EXCEPT ![t] = to] /\ FileMove(t, at[t], to)
  BY FileStepMoves DEF nonFileVars, lockVars, traceVars
<1>2. PICK to : at' = [at EXCEPT ![t] = to] /\ FileMove(t, at[t], to)
  BY <1>1
<1>3. /\ \A q \in Procs \ {p} : log_file'[q] = log_file[q]
      /\ log_file'[p] \in Handle =>
           \/ log_file[p] \in Handle /\ log_file'[p].file = log_file[p].file
           \/ at[t] \in {"open", "fallback"}
  BY FileStepHandles DEF LoggingInv
<1>4. DOMAIN at = Threads /\ p \in Procs
  BY ProcessAssumption DEF LoggingInv, LoggingTypeOK
<1>5. CASE log_file'[p] \in Handle /\ at[t] \in {"open", "fallback"}
  <2> DEFINE f == log_file'[p].file
  <2>1. log_file[p] \notin Handle
    BY <1>1, <1>5, LoggingAssumption DEF HandleInv, Unnamed, Unopened
  <2>2. \A g : Open(g)' <=> (g = f /\ status[p] = "running") \/ Open(g)
    BY <1>1, <1>3, <1>4, <1>5, <2>1 DEF Open
  <2>3. f \in Files
    BY <1>5 DEF Handle
  <2>4. Opened' = Opened \cup IF status[p] = "running" THEN {f} ELSE {}
    BY <2>2, <2>3 DEF Opened
  <2>5. at'[t] \notin Late /\ at[t] \notin Late
    BY <1>2, <1>4, <1>5 DEF FileMove, Late
  <2>6. \A u \in Threads : InCall(u, "log")' /\ at'[u] \notin Late <=>
                             InCall(u, "log") /\ at[u] \notin Late
    BY <1>1, <1>2, <1>4, <2>5 DEF InCall
  <2>7. Called' = Called
    BY <1>1, <2>6 DEF Called, Late, InCall
  <2>8. CASE status[p] = "running"
    <3>1. Promise!OpenFile(f)
      BY <1>1, <2>4, <2>7, <2>8 DEF Promise!OpenFile, Opened
    <3> QED
      BY <2>3, <3>1 DEF Promise!PromiseNext
  <2>9. CASE status[p] # "running"
    BY <1>1, <2>4, <2>7, <2>9 DEF Promise!PromiseNext, Promise!CloseOrLose, Opened
  <2> QED
    BY <2>8, <2>9
<1>6. CASE ~(log_file'[p] \in Handle /\ at[t] \in {"open", "fallback"})
  <2>1. Opened' \subseteq Opened
    BY <1>3, <1>4, <1>6, OpenStays DEF Opened
  <2> QED
    BY <1>1, <2>1, CalledShrinks DEF Promise!PromiseNext, Promise!CloseOrLose, Opened
<1> QED
  BY <1>5, <1>6

\* The write takes its message to the end of a file, whole or not, or drops it.
LEMMA WriteKeepsPromise ==
  ASSUME LoggingInv, AtEnd, EndedTogether, [Next]_vars, NEW t \in Threads, WriteFile(t)
  PROVE  Promise!PromiseNext
<1> DEFINE m == op[t].msg
           p == ProcOf[t]
           h == log_file[p]
<1>1. /\ pc[t] = "in" /\ at[t] = "write" /\ at' = [at EXCEPT ![t] = "leave"]
      /\ UNCHANGED <<pc, op, issued, status>>
  BY DEF WriteFile, Step, Stands, nonFileVars, lockVars, traceVars
<1>2. InCall(t, "log") /\ p \in Procs /\ log_file \in [Procs -> Handle \cup {NULL, Invalid}]
  <2>1. InCall(t, "log")
    BY <1>1 DEF LoggingInv, CallInv, LogPlaces, InCall
  <2>2. p \in Procs
    BY ProcessAssumption
  <2> QED
    BY <2>1, <2>2 DEF LoggingInv, LoggingTypeOK
<1>3. CASE UNCHANGED <<content, log_file>>
  <2>1. Opened' = Opened
    BY <1>1, <1>3 DEF Opened, Open
  <2> QED
    BY <1>1, <1>3, <2>1, CalledShrinks DEF Promise!PromiseNext, Promise!CloseOrLose, Opened
<1>4. ASSUME h \in Handle, log_file' = [log_file EXCEPT ![p].pos = h.pos + 1], NEW r \in {m, Cut(m)},
             content' = [content EXCEPT ![h.file] = Append(content[h.file], r)]
      PROVE  Promise!PromiseNext
  <2>1. m \in Called
    BY <1>1, <1>2 DEF Called
  <2>2. DOMAIN at = Threads
    BY DEF LoggingInv, LoggingTypeOK
  <2>3. \A u \in Threads : InCall(u, "log")' /\ at'[u] \notin Late <=>
                             u # t /\ InCall(u, "log") /\ at[u] \notin Late
    BY <1>1, <2>2 DEF InCall, Late
  <2>4. \A u \in Threads \ {t} : InCall(u, "log") => op[u].msg # m
    BY <1>2, CalledMessages
  <2>5. Called' = Called \ {m}
    BY <1>1, <2>3, <2>4 DEF Called, Late, InCall
  <2>6. \E whole \in BOOLEAN : r = [m EXCEPT !.whole = whole]
    BY <1>2, <1>4, CalledMessages DEF Cut
  <2>7. h.file \in Files /\ h.pos + 1 \in Nat
    BY <1>4 DEF Handle
  <2>8. \A q \in Procs : /\ log_file'[q] \in Handle <=> log_file[q] \in Handle
                         /\ log_file[q] \in Handle => log_file'[q].file = log_file[q].file
    BY <1>2, <1>4, <2>7 DEF Handle
  <2>9. Opened' = Opened
    BY <1>1, <2>8 DEF Opened, Open
  <2>10. h.file \in Opened
    <3>1. status[p] = "running"
      BY <1>1 DEF EndedTogether
    <3> QED
      BY <1>2, <1>4, <2>7, <3>1 DEF Opened, Open
  <2>11. Promise!Write(m, h.file)
    BY <1>1, <1>4, <2>1, <2>5, <2>6, <2>9, <2>10 DEF Promise!Write, Opened
  <2> QED
    BY <2>1, <2>7, <2>11 DEF Promise!PromiseNext
<1>5. Cut(m) \in {m, Cut(m)}
  OBVIOUS
<1> QED
  BY <1>3, <1>4, <1>5, WriteAppends

\* Each step keeps the promise, if handles are good and writes append.
LEMMA PromiseStep ==
  ASSUME LoggingInv, HandleInv, EndedTogether, [Next]_vars
  PROVE  [Promise!PromiseNext]_Promise!promiseVars
<1>0. AtEnd
  BY DEF HandleInv
<1>1. ASSUME NEW t \in Threads, NEW severity \in Severities, Log(t, severity)
      PROVE  Promise!PromiseNext
  BY <1>1, LogCalls DEF Promise!PromiseNext
<1>2. ASSUME NEW t \in Threads, WriteFile(t) PROVE Promise!PromiseNext
  BY <1>0, <1>2, WriteKeepsPromise
<1>3. ASSUME NEW t \in Threads, DeleteFilePath(t) PROVE Promise!PromiseNext
  <2> DEFINE path == log_file_name[ProcOf[t]]
             f == FileOf[path]
  <2>1. /\ at[t] = "delete" /\ at' = [at EXCEPT ![t] = "testHandle"]
        /\ UNCHANGED <<pc, op, issued, status, log_file>>
        /\ content' = IF path \in Paths /\ ~Open(f) THEN [content EXCEPT ![f] = <<>>] ELSE content
    BY <1>3 DEF DeleteFilePath, Step, Stands, nonFileVars, lockVars, traceVars
  <2>2. op[t].kind = "init" /\ DOMAIN at = Threads
    BY <2>1 DEF LoggingInv, LoggingTypeOK, CallInv, InitPlaces
  <2>3. \A u \in Threads : InCall(u, "log")' /\ at'[u] \notin Late <=>
                             InCall(u, "log") /\ at[u] \notin Late
    BY <2>1, <2>2 DEF InCall
  <2>4. Called' = Called
    BY <2>1, <2>3 DEF Called, Late, InCall
  <2>5. Opened' = Opened
    BY <2>1 DEF Opened, Open
  <2>6. CASE path \in Paths /\ ~Open(f)
    <3>1. f \in Files /\ f \notin Opened
      BY <2>6, LoggingAssumption DEF Opened
    <3>2. Promise!Remove(f)
      BY <2>1, <2>4, <2>5, <2>6, <3>1 DEF Promise!Remove, Opened
    <3> QED
      BY <3>1, <3>2 DEF Promise!PromiseNext
  <2>7. CASE ~(path \in Paths /\ ~Open(f))
    BY <2>1, <2>4, <2>5, <2>7 DEF Promise!PromiseNext, Promise!CloseOrLose, Opened
  <2> QED
    BY <2>6, <2>7
<1>4. CASE UNCHANGED <<content, issued, log_file>>
  <2>1. Opened' \subseteq Opened
    BY <1>4, OpenStays DEF Opened
  <2> QED
    BY <1>4, <2>1, CalledShrinks DEF Promise!PromiseNext, Promise!CloseOrLose, Opened
<1>5. ASSUME NEW t \in Threads, FileStep(t) PROVE Promise!PromiseNext
  BY <1>5, FileStepOpens
<1>6. \/ UNCHANGED issued
      \/ \E t \in Threads : \E severity \in Severities : Log(t, severity)
  <2> USE DEF logVars, traceVars, nonFileVars
  <2>1. CASE \E t \in Threads : HostStep(t)
    BY <2>1
    DEF HostStep, SpawnThread, CloseDialog, CloseLogFile, GetLogFileFullPath, InitLogging,
        SetLogMessageHandler, SetLogAssertHandler, SetShowErrorDialogs
  <2>2. CASE \E t \in Threads : CallStep(t)
    BY <2>2, CallStepKeeps
  <2>3. CASE \E p \in Procs : Kill(p)
    BY <2>3 DEF Kill
  <2>4. CASE UNCHANGED vars
    BY <2>4 DEF vars
  <2> QED
    BY <2>1, <2>2, <2>3, <2>4 DEF Next
<1> QED
  BY <1>1, <1>2, <1>3, <1>4, <1>5, <1>6, FilesMove

\* "Make each log output atomic": in the two ways of use, whatever number of threads
\* and processes share a file, every message is appended to it once and in one
\* piece, or lost with its process or to a full disk, and never written over, nor
\* is a file deleted that a process has open.
THEOREM LoggingAtomicOutput == SafeUse /\ Spec => AtomicOutput
<1>1. LoggingInit => Promise!PromiseInit
  <2>1. NULL \notin Handle
    BY LoggingAssumption
  <2> QED
    BY <2>1 DEF LoggingInit, Promise!PromiseInit, Called, InCall, Open
<1>2. LoggingInv /\ HandleInv /\ EndedTogether /\ [Next]_vars =>
        [Promise!PromiseNext]_Promise!promiseVars
  BY PromiseStep
<1>3. ASSUME SafeUse PROVE Spec => AtomicOutput
  <2>1. Spec => []HandleInv
    BY <1>3, LoggingHandles
  <2> QED
    BY <1>1, <1>2, <2>1, LoggingInvariant, LoggingUsesLock, LockEnds, PTL
    DEF Spec, AtomicOutput, Promise!PromiseSpec
<1> QED
  BY <1>3
=============================================================================
