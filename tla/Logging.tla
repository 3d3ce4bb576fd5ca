------------------------------ MODULE Logging ------------------------------
(***************************************************************************)
(* The logging component of src/src/logging.cc around LoggingLock:         *)
(* ~LogMessage, InitLogging, CloseLogFile and the two handler setters,     *)
(* run by the threads of several processes that may log to one file.       *)
(*                                                                         *)
(* Variable at says where a thread stands in those functions, variable pc  *)
(* (of LoggingLock) where it stands in the lock they take.  Each read or   *)
(* write of a global and each system call is a step of its own; a call     *)
(* takes its arguments from the globals, and its result is stored and      *)
(* tested, in its own step.                                                *)
(*                                                                         *)
(* A message is one record, and a file is the sequence of the messages     *)
(* written to it: a write at the end of the file appends, a write before   *)
(* the end clobbers what is there.                                         *)
(***************************************************************************)
EXTENDS LoggingLock, Integers, Sequences

CONSTANTS
  Files,           \* files on disk
  FileOf,          \* FileOf[path]: the file a path names
  FallbackPath,    \* ".\debug.log"
  Severities,      \* severities logged, a subset of LOG_VERBOSE .. LOG_FATAL
  MsgHandlers,     \* what the host program passes to SetLogMessageHandler
  AssertHandlers,  \* what it passes to SetLogAssertHandler
  Dialogs,         \* what it passes to SetShowErrorDialogs
  PathCallers,     \* the threads that call GetLogFileFullPath
  NDEBUG,          \* the release build
  SymInitFails,    \* SymInitialize may fail
  OpenFails,       \* CreateFile may fail
  WriteFails,      \* WriteFile may fail, or write a part only
  MayBeKilled,     \* a process may be killed from outside
  MaxMsgs,         \* bound: log statements in a behaviour
  MaxInits         \* bound: InitLogging calls of a process

LOG_ERROR == 2
LOG_FATAL == 3
kAlwaysPrintErrorLevel == LOG_ERROR

\* A message handler that returns true consumes the message, one that returns
\* false observes it; an assert handler returns.
HandlerKinds == {"consume", "observe", "assert"}

\* An open file, and where its file pointer stands.
Handle == [file : Files, pos : Nat]

\* A handle that is closed already, or INVALID_HANDLE_VALUE: not NULL, but no
\* system call succeeds on it.
Invalid == [file |-> NULL, pos |-> 0]

\* What a new std::wstring holds.
EmptyPath == ""

ASSUME LoggingAssumption ==
  /\ FileOf \in [Paths -> Files]
  /\ FallbackPath \in Paths
  /\ NULL \notin Files \cup HandlerKinds /\ NULL \notin Handle \cup {Invalid, EmptyPath}
  /\ EmptyPath \notin Paths
  /\ Severities \subseteq -1 .. LOG_FATAL
  /\ MsgHandlers \subseteq {"consume", "observe", NULL}
  /\ AssertHandlers \subseteq {"assert", NULL}
  /\ Dialogs \subseteq BOOLEAN /\ PathCallers \subseteq Threads
  /\ NDEBUG \in BOOLEAN /\ SymInitFails \in BOOLEAN
  /\ OpenFails \in BOOLEAN /\ WriteFails \in BOOLEAN /\ MayBeKilled \in BOOLEAN
  /\ MaxMsgs \in Nat /\ MaxInits \in Nat

VARIABLES
  at,                    \* where each thread stands outside LoggingLock
  op,                    \* the call it is executing
  seen,                  \* the handler it has read
  logging_destination, log_file_name, log_file,   \* globals, per process
  log_message_handler, log_assert_handler, show_error_dialogs,
  content,               \* the messages in each file
  printed,               \* the messages printed to stderr
  issued,                \* log statements called so far
  inits                  \* InitLogging calls of each process so far

callVars == <<at, op, seen>>
handlerVars == <<log_message_handler, log_assert_handler, show_error_dialogs>>
fileVars == <<log_file_name, log_file, content>>
globalVars == <<logging_destination, handlerVars, fileVars>>
traceVars == <<printed, issued, inits>>
nonFileVars == <<lockVars, op, seen, logging_destination, handlerVars, traceVars>>
logVars == <<callVars, globalVars, traceVars>>
vars == <<lockVars, logVars>>

\* A message, or what a write that failed half way has left of it.
Message == [id : 1 .. MaxMsgs, thread : Threads, severity : Severities, whole : BOOLEAN]

\* A call in progress: a LogMessage being destroyed, InitLogging(settings),
\* CloseLogFile() or GetLogFileFullPath().
Calls ==
  [kind : {"none", "close", "path"}]
  \cup [kind : {"log"}, msg : Message]
  \cup [kind : {"init"}, settings : LoggingSettings]

Outside == {"idle", "trace", "testHandler", "callHandler", "testDebug", "testFile",
            "testFatal", "callAssert", "testDialog", "dialog", "testDestination", "copyPath"}
Locked == {"close", "closeFile", "reset", "rename", "emptyName", "assign", "delete",
           "testHandle", "testName", "defaultName", "reTestFile", "open", "fallback",
           "fail", "seekEnd", "seek", "write", "leave"}

LoggingTypeOK ==
  /\ at \in [Threads -> Outside \cup Locked]
  /\ op \in [Threads -> Calls]
  /\ seen \in [Threads -> HandlerKinds \cup {NULL}]
  /\ logging_destination \in [Procs -> SUBSET {"file", "debug"}]
  /\ log_file_name \in [Procs -> Paths \cup {NULL, EmptyPath}]
  /\ log_file \in [Procs -> Handle \cup {NULL, Invalid}]
  /\ log_message_handler \in [Procs -> HandlerKinds \cup {NULL}]
  /\ log_assert_handler \in [Procs -> HandlerKinds \cup {NULL}]
  /\ show_error_dialogs \in [Procs -> BOOLEAN]
  /\ content \in [Files -> Seq(Message)]
  /\ printed \subseteq Message
  /\ issued \in 0 .. MaxMsgs
  /\ inits \in [Procs -> 0 .. MaxInits]

LoggingInit ==
  /\ LockInit
  /\ at = [t \in Threads |-> "idle"]
  /\ op = [t \in Threads |-> [kind |-> "none"]]
  /\ seen = [t \in Threads |-> NULL]
  /\ logging_destination = [p \in Procs |-> {"file"}]
  /\ log_file_name = [p \in Procs |-> NULL]
  /\ log_file = [p \in Procs |-> NULL]
  /\ log_message_handler = [p \in Procs |-> NULL]
  /\ log_assert_handler = [p \in Procs |-> NULL]
  /\ show_error_dialogs = [p \in Procs |-> FALSE]
  /\ content = [f \in Files |-> <<>>]
  /\ printed = {}
  /\ issued = 0
  /\ inits = [p \in Procs |-> 0]

-----------------------------------------------------------------------------
\* A thread outside LoggingLock ("out") or inside it ("in") moves on.
Stands(t, where, from) == pc[t] = where /\ at[t] = from
Step(t, where, from, to) ==
  /\ Stands(t, where, from)
  /\ at' = [at EXCEPT ![t] = to]

\* The call it is executing is over.
Finish(t) ==
  /\ op' = [op EXCEPT ![t] = [kind |-> "none"]]
  /\ seen' = [seen EXCEPT ![t] = NULL]

\* A NULL pointer is called or copied from.
Fault(t, where, from) ==
  /\ Stands(t, where, from)
  /\ Terminate(ProcOf[t], "fault")
  /\ UNCHANGED logVars

(***************************************************************************)
(* ~LogMessage, up to the lock.                                            *)
(***************************************************************************)

\* LOG(severity) << ...: a LogMessage is built and its destructor starts.
Log(t, severity) ==
  /\ issued < MaxMsgs
  /\ Step(t, "out", "idle", IF severity = LOG_FATAL /\ ~NDEBUG THEN "trace" ELSE "testHandler")
  /\ issued' = issued + 1
  /\ op' = [op EXCEPT ![t] = [kind |-> "log", msg |->
              [id |-> issued', thread |-> t, severity |-> severity, whole |-> TRUE]]]
  /\ UNCHANGED <<lockVars, seen, globalVars, printed, inits>>

\* In a debug build a FATAL message begins with a stack trace (SymbolContext);
\* if DbgHelp does not start, an assertion ends the process.
Trace(t) ==
  /\ \/ Step(t, "out", "trace", "testHandler") /\ UNCHANGED lockVars
     \/ /\ SymInitFails
        /\ Stands(t, "out", "trace")
        /\ Terminate(ProcOf[t], "abort")
        /\ UNCHANGED at
  /\ UNCHANGED <<op, seen, globalVars, traceVars>>

\* if (log_message_handler &&
TestHandler(t) ==
  LET h == log_message_handler[ProcOf[t]] IN
  /\ Step(t, "out", "testHandler", IF h = NULL THEN "testDebug" ELSE "callHandler")
  /\ seen' = [seen EXCEPT ![t] = h]
  /\ UNCHANGED <<lockVars, op, globalVars, traceVars>>

\* log_message_handler(...)): the build calls the pointer it has tested or loads
\* it again, and faults if another thread has reset it to NULL in between.
CallHandler(t) ==
  \E h \in {seen[t], log_message_handler[ProcOf[t]]} :
    \/ /\ h = "consume"
       /\ Step(t, "out", "callHandler", "idle")
       /\ Finish(t)
       /\ UNCHANGED <<lockVars, globalVars, traceVars>>
    \/ /\ h = "observe"
       /\ Step(t, "out", "callHandler", "testDebug")
       /\ seen' = [seen EXCEPT ![t] = NULL]
       /\ UNCHANGED <<lockVars, op, globalVars, traceVars>>
    \/ h = NULL /\ Fault(t, "out", "callHandler")

\* Mutant: errors are printed only with LOG_TO_SYSTEM_DEBUG_LOG.
TestDebugOnly(t) ==
  /\ Step(t, "out", "testDebug", "testFile")
  /\ printed' = IF "debug" \in logging_destination[ProcOf[t]]
                THEN printed \cup {op[t].msg} ELSE printed
  /\ UNCHANGED <<lockVars, op, seen, globalVars, issued, inits>>

\* LOG_TO_SYSTEM_DEBUG_LOG prints every message to stderr; errors are printed
\* without it too.
TestDebug(t) ==
  LET m == op[t].msg IN
  /\ Step(t, "out", "testDebug", "testFile")
  /\ printed' = IF \/ "debug" \in logging_destination[ProcOf[t]]
                   \/ m.severity >= kAlwaysPrintErrorLevel
                THEN printed \cup {m} ELSE printed
  /\ UNCHANGED <<lockVars, op, seen, globalVars, issued, inits>>

\* if ((logging_destination & LOG_TO_FILE) != 0) { LoggingLock::Init(...); ...
TestFile(t) ==
  /\ \/ /\ "file" \in logging_destination[ProcOf[t]]
        /\ Step(t, "out", "testFile", "testHandle")
        /\ LogMessageEnters(t)
     \/ /\ "file" \notin logging_destination[ProcOf[t]]
        /\ Step(t, "out", "testFile", "testFatal")
        /\ UNCHANGED lockVars
  /\ UNCHANGED <<op, seen, globalVars, traceVars>>

(***************************************************************************)
(* ~LogMessage after the file: if (severity_ == LOG_FATAL) ...             *)
(***************************************************************************)

\* Mutant: if (severity_ > LOG_FATAL).
TestFatalNever(t) ==
  /\ Step(t, "out", "testFatal", "idle")
  /\ Finish(t)
  /\ UNCHANGED <<lockVars, globalVars, traceVars>>

\* BreakDebugger ends the process, in a debug build after the dialog, unless the
\* client has set an assert handler, which is tested and called like the message
\* handler.
TestFatal(t) ==
  LET h == log_assert_handler[ProcOf[t]] IN
  /\ Stands(t, "out", "testFatal")
  /\ UNCHANGED <<globalVars, traceVars>>
  /\ \/ /\ op[t].msg.severity # LOG_FATAL
        /\ Step(t, "out", "testFatal", "idle")
        /\ Finish(t)
        /\ UNCHANGED lockVars
     \/ /\ op[t].msg.severity = LOG_FATAL /\ h # NULL
        /\ Step(t, "out", "testFatal", "callAssert")
        /\ seen' = [seen EXCEPT ![t] = h]
        /\ UNCHANGED <<lockVars, op>>
     \/ /\ op[t].msg.severity = LOG_FATAL /\ h = NULL /\ ~NDEBUG
        /\ Step(t, "out", "testFatal", "testDialog")
        /\ UNCHANGED <<lockVars, op, seen>>
     \/ /\ op[t].msg.severity = LOG_FATAL /\ h = NULL /\ NDEBUG
        /\ Terminate(ProcOf[t], "fatal")
        /\ UNCHANGED callVars

CallAssert(t) ==
  \E h \in {seen[t], log_assert_handler[ProcOf[t]]} :
    \/ /\ h # NULL
       /\ Step(t, "out", "callAssert", "idle")
       /\ Finish(t)
       /\ UNCHANGED <<lockVars, globalVars, traceVars>>
    \/ h = NULL /\ Fault(t, "out", "callAssert")

\* DisplayDebugMessageInDialog: if (!show_error_dialogs) return; otherwise it
\* waits for debug_message.exe or in a message box.
TestDialog(t) ==
  \/ /\ show_error_dialogs[ProcOf[t]]
     /\ Step(t, "out", "testDialog", "dialog")
     /\ UNCHANGED <<lockVars, op, seen, globalVars, traceVars>>
  \/ /\ ~show_error_dialogs[ProcOf[t]]
     /\ Stands(t, "out", "testDialog")
     /\ Terminate(ProcOf[t], "fatal")
     /\ UNCHANGED logVars

\* The user closes the dialog, if ever.
CloseDialog(t) ==
  /\ Stands(t, "out", "dialog")
  /\ Terminate(ProcOf[t], "fatal")
  /\ UNCHANGED logVars

-----------------------------------------------------------------------------
(***************************************************************************)
(* InitLogging (BaseInitLoggingImpl) and CloseLogFile.                     *)
(***************************************************************************)

\* logging_destination = settings.logging_dest;
InitLogging(t, s) ==
  LET p == ProcOf[t] IN
  /\ InitFirst => t = MainOf[p]
  /\ inits[p] < MaxInits
  /\ pc[t] \in {"start", "out"}
  /\ Step(t, pc[t], "idle", "testDestination")
  /\ op' = [op EXCEPT ![t] = [kind |-> "init", settings |-> s]]
  /\ logging_destination' = [logging_destination EXCEPT ![p] = s.logging_dest]
  /\ inits' = [inits EXCEPT ![p] = @ + 1]
  /\ UNCHANGED <<lockVars, seen, handlerVars, fileVars, printed, issued>>

\* if ((logging_destination & LOG_TO_FILE) == 0) return true;
\* LoggingLock::Init(settings.lock_log, settings.log_file); LoggingLock l;
TestDestination(t) ==
  LET s == op[t].settings IN
  /\ Stands(t, pc[t], "testDestination")
  /\ \E destination \in {s.logging_dest, logging_destination[ProcOf[t]]} :
       /\ InitLoggingEnters(t, s, destination)
       /\ \/ /\ "file" \in destination
             /\ Step(t, pc[t], "testDestination", "close")
             /\ UNCHANGED <<op, seen>>
          \/ /\ "file" \notin destination
             /\ Step(t, pc[t], "testDestination", "idle")
             /\ Finish(t)
  /\ UNCHANGED <<globalVars, traceVars>>

\* CloseLogFile: LoggingLock logging_lock;
CloseLogFile(t) ==
  /\ Step(t, "out", "idle", "close")
  /\ CloseLogFileEnters(t)
  /\ op' = [op EXCEPT ![t] = [kind |-> "close"]]
  /\ UNCHANGED <<seen, globalVars, traceVars>>

\* CloseLogFileUnlocked has returned.
Closed(t) == IF op[t].kind = "init" THEN "rename" ELSE "leave"

\* if (!log_file) return;
CloseLogFileUnlocked(t) ==
  /\ Step(t, "in", "close", IF log_file[ProcOf[t]] = NULL THEN Closed(t) ELSE "closeFile")
  /\ UNCHANGED <<lockVars, op, seen, globalVars, traceVars>>

\* CloseFile(log_file);
CloseFile(t) ==
  /\ Step(t, "in", "closeFile", "reset")
  /\ log_file' = [log_file EXCEPT ![ProcOf[t]] = IF @ = NULL THEN NULL ELSE Invalid]
  /\ UNCHANGED <<nonFileVars, log_file_name, content>>

\* Mutant: log_file is closed but not reset.
ResetLogFileNot(t) ==
  /\ Step(t, "in", "reset", Closed(t))
  /\ UNCHANGED <<lockVars, op, seen, globalVars, traceVars>>

\* log_file = NULL;
ResetLogFile(t) ==
  /\ Step(t, "in", "reset", Closed(t))
  /\ log_file' = [log_file EXCEPT ![ProcOf[t]] = NULL]
  /\ UNCHANGED <<nonFileVars, log_file_name, content>>

\* if (!log_file_name)
Rename(t) ==
  /\ Step(t, "in", "rename", IF log_file_name[ProcOf[t]] = NULL THEN "emptyName" ELSE "assign")
  /\ UNCHANGED <<lockVars, op, seen, globalVars, traceVars>>

\* log_file_name = new PathString();
NewName(t) ==
  /\ Step(t, "in", "emptyName", "assign")
  /\ log_file_name' = [log_file_name EXCEPT ![ProcOf[t]] = EmptyPath]
  /\ UNCHANGED <<nonFileVars, log_file, content>>

\* *log_file_name = settings.log_file: std::wstring cannot be assigned NULL.
AssignName(t) ==
  LET s == op[t].settings IN
  /\ Stands(t, "in", "assign")
  /\ \/ /\ s.log_file # NULL
        /\ Step(t, "in", "assign", IF s.delete_old THEN "delete" ELSE "testHandle")
        /\ log_file_name' = [log_file_name EXCEPT ![ProcOf[t]] = s.log_file]
        /\ UNCHANGED <<nonFileVars, log_file, content>>
     \/ s.log_file = NULL /\ Fault(t, "in", "assign")

\* The file a running process has open cannot be deleted: CreateFile is called
\* without FILE_SHARE_DELETE.
Open(f) ==
  \E p \in Procs : status[p] = "running" /\ log_file[p] \in Handle /\ log_file[p].file = f

\* Mutant: CreateFile is called with FILE_SHARE_DELETE too.
DeleteFileShared(t) ==
  /\ Step(t, "in", "delete", "testHandle")
  /\ content' = [content EXCEPT ![FileOf[log_file_name[ProcOf[t]]]] = <<>>]
  /\ UNCHANGED <<nonFileVars, log_file_name, log_file>>

\* DeleteFile(log_name): its result is ignored.
DeleteFilePath(t) ==
  LET path == log_file_name[ProcOf[t]] IN
  /\ Step(t, "in", "delete", "testHandle")
  /\ content' = IF path \in Paths /\ ~Open(FileOf[path])
                THEN [content EXCEPT ![FileOf[path]] = <<>>] ELSE content
  /\ UNCHANGED <<nonFileVars, log_file_name, log_file>>

-----------------------------------------------------------------------------
(***************************************************************************)
(* InitializeLogFileHandle(), and the write of ~LogMessage.                *)
(***************************************************************************)

\* InitializeLogFileHandle has returned true.
Ready(t) == IF op[t].kind = "log" THEN "seek" ELSE "leave"

\* if (log_file) return true;
TestHandle(t) ==
  /\ Step(t, "in", "testHandle", IF log_file[ProcOf[t]] # NULL THEN Ready(t) ELSE "testName")
  /\ UNCHANGED <<lockVars, op, seen, globalVars, traceVars>>

\* if (!log_file_name)
TestName(t) ==
  /\ Step(t, "in", "testName",
          IF log_file_name[ProcOf[t]] = NULL THEN "defaultName" ELSE "reTestFile")
  /\ UNCHANGED <<lockVars, op, seen, globalVars, traceVars>>

\* log_file_name = new PathString(GetDefaultLogFile());
DefaultName(t) ==
  /\ Step(t, "in", "defaultName", "reTestFile")
  /\ log_file_name' = [log_file_name EXCEPT ![ProcOf[t]] = DefaultPath]
  /\ UNCHANGED <<nonFileVars, log_file, content>>

\* Mutant: the test of LOG_TO_FILE is inverted.
ReTestFileInverted(t) ==
  /\ Step(t, "in", "reTestFile",
          IF "file" \in logging_destination[ProcOf[t]] THEN Ready(t) ELSE "open")
  /\ UNCHANGED <<lockVars, op, seen, globalVars, traceVars>>

\* if ((logging_destination & LOG_TO_FILE) != 0)
ReTestFile(t) ==
  /\ Step(t, "in", "reTestFile",
          IF "file" \in logging_destination[ProcOf[t]] THEN "open" ELSE Ready(t))
  /\ UNCHANGED <<lockVars, op, seen, globalVars, traceVars>>

\* log_file = CreateFile(path, ...): at the beginning of the file, or
\* INVALID_HANDLE_VALUE; there is no file with the empty name.
CreateFile(t, path, from, failed) ==
  \/ /\ path \in Paths
     /\ Step(t, "in", from, "seekEnd")
     /\ log_file' = [log_file EXCEPT ![ProcOf[t]] = [file |-> FileOf[path], pos |-> 0]]
     /\ UNCHANGED <<nonFileVars, log_file_name, content>>
  \/ /\ OpenFails \/ path = EmptyPath
     /\ Step(t, "in", from, failed)
     /\ log_file' = [log_file EXCEPT ![ProcOf[t]] = Invalid]
     /\ UNCHANGED <<nonFileVars, log_file_name, content>>

\* The log file is opened or, if that fails, .\debug.log.
OpenLogFile(t) == CreateFile(t, log_file_name[ProcOf[t]], "open", "fallback")
OpenFallback(t) == CreateFile(t, FallbackPath, "fallback", "fail")

\* Mutant: log_file keeps the INVALID_HANDLE_VALUE.
OpenFailedInvalid(t) ==
  /\ Step(t, "in", "fail", "leave")
  /\ UNCHANGED <<lockVars, op, seen, globalVars, traceVars>>

\* log_file = NULL; return false;
OpenFailed(t) ==
  /\ Step(t, "in", "fail", "leave")
  /\ log_file' = [log_file EXCEPT ![ProcOf[t]] = NULL]
  /\ UNCHANGED <<nonFileVars, log_file_name, content>>

\* SetFilePointer(log_file, 0, 0, FILE_END): its failure is ignored.
SetFilePointer(t, from, to) ==
  LET p == ProcOf[t]  h == log_file[p] IN
  /\ Step(t, "in", from, to)
  /\ log_file' = IF h \in Handle THEN [log_file EXCEPT ![p].pos = Len(content[h.file])]
                 ELSE log_file
  /\ UNCHANGED <<nonFileVars, log_file_name, content>>

\* After CreateFile; return true;
SeekEnd(t) == SetFilePointer(t, "seekEnd", Ready(t))

\* Mutants: the seek is left out; goes to the beginning; stops one short.
SeekNot(t) ==
  /\ Step(t, "in", "seek", "write")
  /\ UNCHANGED <<lockVars, op, seen, globalVars, traceVars>>

SeekBegin(t) ==
  LET p == ProcOf[t] IN
  /\ Step(t, "in", "seek", "write")
  /\ log_file' = IF log_file[p] \in Handle THEN [log_file EXCEPT ![p].pos = 0] ELSE log_file
  /\ UNCHANGED <<nonFileVars, log_file_name, content>>

SeekShort(t) ==
  LET p == ProcOf[t]  h == log_file[p] IN
  /\ Step(t, "in", "seek", "write")
  /\ log_file' = IF h \in Handle THEN [log_file EXCEPT ![p].pos = Len(content[h.file]) - 1]
                 ELSE log_file
  /\ UNCHANGED <<nonFileVars, log_file_name, content>>

\* In ~LogMessage, before the write: other processes append to the file too.
Seek(t) == SetFilePointer(t, "seek", "write")

\* The file after m is written at position pos: appended, or over an earlier message.
Written(file, pos, m) ==
  IF pos < Len(file) THEN [file EXCEPT ![pos + 1] = m] ELSE Append(file, m)

\* What is left of a message when the disk is full.
Cut(m) == [m EXCEPT !.whole = FALSE]

\* WriteFile(log_file, ...): its result and num_written are ignored.
WriteFile(t) ==
  LET p == ProcOf[t]  h == log_file[p] IN
  /\ Step(t, "in", "write", "leave")
  /\ \/ /\ h \in Handle
        /\ \E m \in {op[t].msg} \cup IF WriteFails THEN {Cut(op[t].msg)} ELSE {} :
             content' = [content EXCEPT ![h.file] = Written(@, h.pos, m)]
        /\ log_file' = [log_file EXCEPT ![p].pos = h.pos + 1]
     \/ /\ h \notin Handle \/ WriteFails
        /\ UNCHANGED <<content, log_file>>
  /\ UNCHANGED <<nonFileVars, log_file_name>>

\* The scope of the LoggingLock ends; the call goes on once it has left the lock.
LeaveScope(t) ==
  /\ Leave(t)
  /\ \/ /\ op[t].kind = "log"
        /\ Step(t, "in", "leave", "testFatal")
        /\ UNCHANGED <<op, seen>>
     \/ /\ op[t].kind # "log"
        /\ Step(t, "in", "leave", "idle")
        /\ Finish(t)
  /\ UNCHANGED <<globalVars, traceVars>>

-----------------------------------------------------------------------------
SetLogMessageHandler(t, h) ==
  /\ pc[t] = "out" /\ at[t] = "idle"
  /\ log_message_handler' = [log_message_handler EXCEPT ![ProcOf[t]] = h]
  /\ UNCHANGED <<lockVars, callVars, logging_destination, log_assert_handler,
                 show_error_dialogs, fileVars, traceVars>>

SetLogAssertHandler(t, h) ==
  /\ pc[t] = "out" /\ at[t] = "idle"
  /\ log_assert_handler' = [log_assert_handler EXCEPT ![ProcOf[t]] = h]
  /\ UNCHANGED <<lockVars, callVars, logging_destination, log_message_handler,
                 show_error_dialogs, fileVars, traceVars>>

\* With InitFirst, before anything is logged.
SetShowErrorDialogs(t, enable) ==
  /\ pc[t] = IF InitFirst THEN "start" ELSE "out"
  /\ at[t] = "idle"
  /\ show_error_dialogs' = [show_error_dialogs EXCEPT ![ProcOf[t]] = enable]
  /\ UNCHANGED <<lockVars, callVars, logging_destination, log_message_handler,
                 log_assert_handler, fileVars, traceVars>>

\* Mutant: log_file_name is not tested.
GetLogFileFullPathUntested(t) ==
  /\ t \in PathCallers
  /\ Step(t, "out", "idle", "copyPath")
  /\ op' = [op EXCEPT ![t] = [kind |-> "path"]]
  /\ UNCHANGED <<lockVars, seen, globalVars, traceVars>>

\* if (log_file_name) return *log_file_name; (otherwise it returns at once).
GetLogFileFullPath(t) ==
  /\ t \in PathCallers
  /\ log_file_name[ProcOf[t]] # NULL
  /\ Step(t, "out", "idle", "copyPath")
  /\ op' = [op EXCEPT ![t] = [kind |-> "path"]]
  /\ UNCHANGED <<lockVars, seen, globalVars, traceVars>>

\* The path is copied without the lock: while another thread assigns to it, the
\* copy may go through a pointer that is no longer valid.
CopyPath(t) ==
  \/ /\ log_file_name[ProcOf[t]] # NULL
     /\ Step(t, "out", "copyPath", "idle")
     /\ Finish(t)
     /\ UNCHANGED <<lockVars, globalVars, traceVars>>
  \/ /\ \/ log_file_name[ProcOf[t]] = NULL
        \/ \E u \in Threads : ProcOf[u] = ProcOf[t] /\ Stands(u, "in", "assign")
     /\ Fault(t, "out", "copyPath")

\* The main thread, between two calls, starts another thread.
SpawnThread(t) == at[MainOf[ProcOf[t]]] = "idle" /\ Spawn(t) /\ UNCHANGED logVars

Kill(p) == MayBeKilled /\ Terminate(p, "killed") /\ UNCHANGED logVars

\* The steps of CloseLogFileUnlocked and InitializeLogFileHandle, and those beside
\* them in their callers.
FileStep(t) ==
  \/ CloseLogFileUnlocked(t) \/ CloseFile(t) \/ ResetLogFile(t)
  \/ Rename(t) \/ NewName(t) \/ TestHandle(t) \/ TestName(t) \/ DefaultName(t) \/ ReTestFile(t)
  \/ OpenLogFile(t) \/ OpenFallback(t) \/ OpenFailed(t) \/ SeekEnd(t) \/ Seek(t)

\* The steps a thread takes once it has called the component.
CallStep(t) ==
  \/ LockStep(t) /\ UNCHANGED logVars
  \/ Trace(t) \/ TestHandler(t) \/ CallHandler(t) \/ TestDebug(t) \/ TestFile(t)
  \/ TestFatal(t) \/ CallAssert(t) \/ TestDialog(t) \/ CopyPath(t)
  \/ TestDestination(t) \/ FileStep(t) \/ AssignName(t) \/ DeleteFilePath(t)
  \/ WriteFile(t) \/ LeaveScope(t)

\* The calls the host program may make.
HostStep(t) ==
  \/ SpawnThread(t) \/ CloseDialog(t) \/ CloseLogFile(t) \/ GetLogFileFullPath(t)
  \/ \E severity \in Severities : Log(t, severity)
  \/ \E s \in SettingsOf[ProcOf[t]] : InitLogging(t, s)
  \/ \E h \in MsgHandlers : SetLogMessageHandler(t, h)
  \/ \E h \in AssertHandlers : SetLogAssertHandler(t, h)
  \/ \E enable \in Dialogs : SetShowErrorDialogs(t, enable)

Next ==
  \/ \E t \in Threads : CallStep(t) \/ HostStep(t)
  \/ \E p \in Procs : Kill(p)

Spec == LoggingInit /\ [][Next]_vars

\* A thread that has called the component is scheduled until the call returns,
\* and the system serves the waiters of a lock fairly.  No fairness for calls,
\* nor for the user in front of a dialog.
FairSpec ==
  /\ Spec
  /\ \A t \in Threads :
       WF_vars(CallStep(t)) /\ SF_vars(Acquire(t) /\ UNCHANGED logVars)

-----------------------------------------------------------------------------
(***************************************************************************)
(* Properties.                                                             *)
(***************************************************************************)

InCall(t, kind) == pc[t] # "dead" /\ op[t].kind = kind

\* Log statements that have not come to their WriteFile, or to the decision that
\* there is none.
Called ==
  {op[t].msg : t \in {u \in Threads :
     InCall(u, "log") /\
     at[u] \notin {"leave", "testFatal", "callAssert", "testDialog", "dialog"}}}

\* "Make each log output atomic": every log statement appends its message once,
\* between its call and its return, or loses it or its end to a full disk; nobody
\* ever writes over the message of another thread or process (logging.h:115-120), or
\* deletes a file that a process has open.
Promise == INSTANCE AtomicLog WITH
  Messages <- Message, called <- Called, open <- {f \in Files : Open(f)}
AtomicOutput == Promise!PromiseSpec

\* "Prevent them from clobbering each other's writes" (logging.cc:420-421): two
\* threads are never together between the seek to the end of a file and the
\* write at that place.
Writing(t) == pc[t] = "in" /\ at[t] = "write" /\ log_file[ProcOf[t]] \in Handle
WritersExclude ==
  \A t, u \in Threads : t # u /\ Writing(t) /\ Writing(u) =>
    log_file[ProcOf[t]].file # log_file[ProcOf[u]].file

\* InitializeLogFileHandle returns true only with the file of the current name,
\* or the fallback, open (logging.cc:197-199): the seek and the write that follow
\* never use a NULL or invalid handle or the file of an earlier InitLogging.
HandleReady ==
  \A t \in Threads : LET p == ProcOf[t] IN
    pc[t] = "in" /\ at[t] \in {"seek", "write"} =>
      /\ log_file[p] \in Handle
      /\ log_file[p].file \in
           {FileOf[log_file_name[p]]} \cup IF OpenFails THEN {FileOf[FallbackPath]} ELSE {}

\* At the write the handle stands at the end of the file, wherever the other
\* processes have moved that end since the file was opened.
AtEnd ==
  \A t \in Threads : Writing(t) =>
    LET h == log_file[ProcOf[t]] IN h.pos = Len(content[h.file])

\* No call of the component ever goes through a NULL pointer or copies from one.
NoFault == \A p \in Procs : status[p] \notin {"fault", "nullLock"}

\* Nothing can keep a message out of its file, or delete it with the file.
Reliable ==
  /\ ~OpenFails /\ ~WriteFails
  /\ \A q \in Procs : \A s \in SettingsOf[q] :
       "file" \in s.logging_dest /\ (s.delete_old => inits[q] = 0)

\* A process that ends by a FATAL message has printed it, and written it to a log
\* file unless something prevents that: "terminate (after the message is logged)"
\* (logging.h:90-91).
FatalLogged ==
  \A p \in Procs : status[p] = "fatal" =>
    \E m \in printed :
      /\ m.severity = LOG_FATAL
      /\ ProcOf[m.thread] = p
      /\ Reliable => \E f \in Files : \E i \in DOMAIN content[f] : content[f][i] = m

\* The process has ended, or waits for the user to close the dialog.
Over(t) == pc[t] = "dead" \/ at[t] = "dialog"

\* Every call of the component returns, or its process ends: no log statement
\* waits forever for the lock, even if its owner crashes while it holds it, or has
\* a FATAL message in a dialog that nobody closes.
CallsReturn == \A t \in Threads : op[t].kind # "none" ~> (op[t].kind = "none" \/ Over(t))

\* "Logging a message at the FATAL severity level causes the program to
\* terminate" (logging.h:90-91): a FATAL statement never returns.  With CallsReturn,
\* its process ends, at the latest when the dialog is closed.
FatalNeverReturns ==
  [][\A t \in Threads : InCall(t, "log") /\ op[t].msg.severity = LOG_FATAL =>
       op'[t] = op[t]]_vars

\* GetLogFileFullPath and log statements need no InitLogging: as long as a process
\* has not called it, none of its calls faults, however its threads race to name
\* and open the default file.
NoFaultOnDemand ==
  \A p \in Procs : status[p] \in {"fault", "nullLock"} => inits[p] > 0
=============================================================================
