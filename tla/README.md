# A TLA+ model of chromium_winlog

The repository is Chromium's logging library cut out for Windows: log
statements (`src/logging.h`), where their messages go (`src/logging.cc`), a lock
(`src/lock*.{h,cc}`) and stack traces (`src/stack_trace*`). It is about 2,100
lines of C++, most of which one thread executes quickly and correctly. What is
hard about it is the rest: every thread of every process that logs shares a file,
a mutex and a handful of globals that are read and written with no
synchronisation, and the code runs when the program around it is in trouble.

This directory holds TLA+ modules for those parts, TLC configurations that check
them on small instances, and proofs, for every value of the constants, of all the
safety properties that TLC checks.

Paths below are relative to the repository's root.

## 1. Inventory

| Component | State | Operations | Modelled in |
|---|---|---|---|
| LoggingLock (`src/logging.cc:102-195`) | `initialized`, `lock_log_file`, `log_mutex`, `log_lock`, per process; the mutex, per machine | `Init`, `LockLogging`, `UnlockLogging` | `LoggingLock` |
| Logging core (`src/logging.cc:42-72, 197-355, 385-463, 548-551, 587-591`) | `logging_destination`, `log_file_name`, `log_file`, two handlers, `show_error_dialogs`, per process; the files | `~LogMessage`, `InitLogging`, `CloseLogFile`, `GetLogFileFullPath`, `SetLogMessageHandler`, `SetLogAssertHandler`, `SetShowErrorDialogs`, `DisplayDebugMessageInDialog` | `Logging`, promise in `AtomicLog` |
| Log statements (`src/logging.h:212-651`, `src/logging.cc:274-280, 357-383, 465-582`) | `min_log_level`, the thread's last error, the statement's objects | all macro families, `LogAtLevel`, `LogMessage` and `Win32ErrorLogMessage` lifetimes, `SetMinLogLevel`, `RawLog` | `LogStatements` |
| base::Lock (`src/lock.h`, `lock.cc`, `lock_impl*`) | a critical section; in debug builds `owning_thread_ref_` | `Acquire`, `Release`, `Try`, `AssertAcquired`, `AutoLock`, `AutoUnlock`, `~Lock` | `BaseLock`, promise in `Mutex` |
| Stack traces (`src/stack_trace*`) | `symbol_context_`, its `init_error_` and lock, DbgHelp, `g_previous_filter` | `StackTrace` constructors, `Print`, `OutputToStream`, the exception filter, `EnableInProcessStackDumping` | `SymbolContext` |
| Console redirection (`stack_trace_win.cc:44-100`) | the C runtime's streams and descriptors | `RouteStdioToConsole` | `StdioConsole`, a part of `SymbolContext` |
| Message header (`logging.cc:283-289, 465-507`) | four flags | `SetLogItems`, `LogMessage::Init` | only when it runs |
| Text (`logging.cc:518-530, 595-597`, `chromium_logging_util.*`) | none | `SystemErrorCodeToString`, `operator<<` of wide text, `win_string_convert`, `remove_suffix` | `TextConversion`, used by `LogStatements` |
| Default path (`logging.cc:84-100`) | none | `GetDefaultLogFile` | a constant |
| Demo, build files | none | | no |

How they interact. A statement builds a `LogMessage` (which saves the last error and
writes a header), streams into it and destroys it. `~LogMessage` offers the message
to the handler, prints it, then takes a `LoggingLock` for the file: it calls
`LoggingLock::Init` in case nobody has, makes sure the file is open, seeks to the
end and writes. `InitLogging` and `CloseLogFile` take the same lock to change the
file. In debug builds a FATAL message first prints a stack trace (and last shows a
dialog), under the `base::Lock` of the symbol context; the lock in turn uses the C
runtime's `assert`, not log statements. LoggingLock uses `LockImpl` directly for the
same reason.

What is hard:

* **Interleavings** of the unlocked reads and writes in `LoggingLock::Init`, in
  `SymbolContext::GetInstance`, of the handler pointers, `logging_destination`
  and `min_log_level`.
* **Other processes** move the end of the file between two writes of this one.
* **Crashes** while the machine-wide mutex is held.
* **Partial failure**: no mutex, no file, no symbols, a short or failed write.
* **Waiting** without limit: for a lock, and for the user in front of a dialog.
* **Text** in three encodings and in buffers of a fixed size.
* **Sequences** of legal calls: a second `InitLogging`, a `CloseLogFile` before
  anything, a lock scope in a lock scope.
* **Order** in which the last error is saved, read, clobbered and restored.

`PROJECT.json` lists each hazard at its line with the properties that watch it.

What makes each component correct: LoggingLock excludes threads and processes
that share a lock, releases what it took, and survives crashes. The core appends
every message whole and once, or loses it, and a FATAL message is out before the
process ends. A statement leaves the last error alone, reports the one it should,
and a check that fails stops the program whatever the level or build. base::Lock
is a mutex whose assertions catch exactly the misuse. A trace uses DbgHelp one
thread at a time, after its initialisation, and leaves no lock behind.

## 2. The modules

Every module keeps the names of the source. The source of each definition is in the
`map` of `PROJECT.json`. Grain: **each read or write of a shared variable and each
system call is one action**, where a call takes its arguments from the variables,
and its result is stored and tested, in its own action. A thread's program counter
(`pc`, `at`) says between which two of them it stands. A definition whose comment
begins with "Mutant" is not part of the model: it is a plausible wrong version of
the definition below it, and the property named for it in `PROJECT.json` fails when
it takes that definition's place.

**`LoggingLock`** is the class of that name. `check` ... `setInitialized` are the
steps of `Init`; `lockMode`, `waitMutex`, `enterLock`, `blocked` those of
`LockLogging`; `unlockMode`, `releaseMutex`, `leaveLock` those of
`UnlockLogging`. Reads that the build may repeat or not (`if (lock_log_file ==
...)` just after the assignment) choose between the two values. A NULL mutex is
waited for as Windows does it: not at all. A NULL `log_lock` ends the process, and
leaving a critical section one does not own has any of three outcomes. A process
may end between any two steps; the kernel then frees its mutexes. Mutex names:
a path names its mutex, so two processes share a mutex exactly when they use the
same path (`log_mutex` holds the path).

**`Logging`** extends it with the functions around the lock. Its actions conjoin
those of LoggingLock where a function enters or leaves the lock
(`LogMessageEnters`, `InitLoggingEnters`, `CloseLogFileEnters`, `Leave`).
A file is the sequence of messages written to it. `WriteFile` at the end
appends; before the end it overwrites the message there; on a full disk it may
write a part (`Cut`) or nothing. Handles have a position, so that seek and write
are two steps as in the code. What other threads may find in between has its values
too: `Invalid` is a handle that is closed but not yet reset, or the
INVALID_HANDLE_VALUE of a failed `CreateFile`; `EmptyPath` is the name between
`new PathString()` and the assignment. NULL handlers that are called, and the NULL file
name, end the process with a fault. In a debug build a FATAL message begins with
`Trace`, which stands for the stack trace (its own steps are in `SymbolContext`)
and may end the process by the assertion on SymInitialize, and ends with
`TestDialog` and `CloseDialog`, an action of the user. A handler is tested and then
called; the build may load the pointer again for the call, so it may be NULL by
then (`CallHandler`, `CallAssert`). `GetLogFileFullPath` is the
test, `CopyPath` the unlocked copy of `log_file_name`, which faults if another
thread is assigning to it.

**`AtomicLog`** is what `logging.h:115-118` promises: between its call and its
return a statement appends its message to one file, once, or loses it or its end;
no other statement changes what is there, and no file is deleted while a process
has it open. `Logging` implements it (property `AtomicOutput`) under the mapping in
which a message is pending from the call to the write, and a file is open while a
running process has a handle to it.

**`BaseLock`** is `base::Lock` with its debug record, over a critical section
that lets its owner in again. A thread may be in scopes of several locks. `Misuses`
lets threads call locks against their documentation: re-enter, release or
destroy what they, or others, hold, or do not. **`Mutex`** is the abstract lock. It
records which lock each thread is taking or giving back, and how often each is
taken by whom, so that a second entry of the holder or a release by another thread
is no step of it. `Excludes` says that `BaseLock` implements it, where a lock is
taken once `CheckUnheldAndMark` has returned.

**`SymbolContext`** extends `BaseLock`: the contexts that threads may allocate are
named after the thread, each with the lock of the same name. `TestContext`,
`Construct`, `Store` and the read in `TestError` are the steps of `GetInstance`;
`Walk` is one iteration over `StackWalk64`; `Lookup` and `RawLine` print a frame, or
end. `Raise` is an unhandled exception of a thread anywhere outside the code of a
lock, in the middle of a lookup too: `interrupted` is the context whose lock it then
keeps, and its dump calls that lock again. `Enable`, `StoreFilter` and `Route` are
EnableInProcessStackDumping.

**`StdioConsole`**, which `SymbolContext` extends, is RouteStdioToConsole over the
two streams and the descriptors reserved for them: `TestStreams`, `Attach`
(AttachConsole and AllocConsole with all their outcomes) and `Reopen`, one step per
stream, with the branch as the code has it.

**`TextConversion`** is stateless. Narrow text is a sequence of encoded characters,
each in a code page unless it is ASCII, so that reading text in the wrong page
does not give the text back. `temp_buf`, `Overflows` and `SystemErrorCodeToString`
follow the two buffers of `SystemErrorCodeToString`.

**`LogStatements`** is sequential but for `SetMinLogLevel`, which any thread may
call between any two steps. `Expansion` gives what each macro stands for in each of
the four builds. `Clobber` marks every call after which the last error may be
anything. `stream_` is a member before SaveLastError, so `ConstructStream` comes
before the error is saved and `destroy` after it is restored: the code rests on the
standard library there, and the constant `StreamKeepsError` says whether that keeps
the last error. `InitMessage` streams wide text, `AppendError` the text of the
system error. `Emit` is the whole of `~LogMessage`, whose steps are in `Logging`.

**`<module>_proofs`** holds the inductive invariants, the lemmas and the theorems
about a module: there is one for each of `LoggingLock`, `Logging`, `BaseLock`,
`SymbolContext`, `TextConversion` and `LogStatements`. `Logging_proofs` extends
`LoggingLock_proofs`, `SymbolContext_proofs` `BaseLock_proofs`, and
`LogStatements_proofs` `TextConversion_proofs`, as their modules do. The `MC*`
modules define constants for TLC; each `.cfg` is one run.

## 3. What is checked

Numbers of distinct states are those of the run as configured.

| Run | Instance | Shows | States |
|---|---|---|---|
| `lock_disciplined` | 2 processes × 2 threads, 3 paths | Initialised first from the main thread, the lock excludes within and between processes, is released exactly as taken and never NULL; the invariant of the proofs (`LockInv`) holds | 84,424 |
| `one_file` | 2 processes, 3 threads, 2 messages of which any may be FATAL, kills, delete-old; nobody has to initialise | `AtomicOutput`: no message is ever overwritten or written twice; every write is at the end of the file. The race that `logging.cc:422-427` and `logging.h:164-165` warn of leaks a handle, but both handles are of one mutex, so it never lets two writers in. Nothing faults in a process that does not call InitLogging | 556,974 |
| `redirect` | 1 process, critical section, debug build with dialogs, 2 files and the fallback, CloseLogFile, a handler that is set and reset, files that do not open or are full, failing symbols, FATAL messages | Every call returns, or its process waits for the user or has ended; no FATAL statement returns; nothing goes to the old file, and nothing is written over or deleted beneath a writer | 133,910 |
| `crash` | 2 processes of one thread, one file under its mutex, which may not be created; FATAL messages, an assert handler; each process may be killed at any step | Nobody waits forever for the mutex, whoever dies while owning it; a process that ended by a FATAL message has printed it, and written it if the other has not initialised (and perhaps deleted the file) | 116,868 |
| `base_lock` | 3 threads, nesting 2, debug build, misuse | Misuse never returns, correct use never asserts, the record follows the owner, AutoUnlock restores, and `Mutex` is implemented either way | @BL@ |
| `dump` | 2 threads, 2 prints, an exception of each thread at any point, release build, failing symbols and streams, every combination of inherited streams and console | Lookups exclude each other and follow SymInitialize, no lock is left but one that an exception interrupted, the filter runs once, every dump ends, even one inside the lookup of its own thread; inherited streams stay as they are | 150,088 |
| `statements` | 4 builds, every macro, 4 levels, 3 errors, 3 wide texts, partial writes | The last error survives logging, PLOG reports the right one in the right text, wide text of the code page arrives as UTF-8 and in the dialog, a statement ends the process exactly when documented (or when the text of an error overflows), RawLog writes a whole line | 80,478 |

**Bounds.** Every counter that would grow without end has a bound that is a
constant: messages (`MaxMsgs`), `InitLogging` calls (`MaxInits`), nesting
(`MaxDepth`), prints and enables. A clobbered message needs two writers, one
write to move the end and one to land on it: two messages suffice. Two processes
suffice because exclusion relates pairs; one of them has two threads so that its
own globals are raced for. `InitLogging` "should never be called more than
twice" (`logging.h:172-174`), hence 2; `crash` has 1, as its question is about the mutex,
which a second call does not change. Severities are reduced to those that
differ in control: below ERROR, FATAL (and ERROR in `LogStatements`, for
DFATAL); `redirect` and `crash` have only FATAL, whose path contains the others'.
kMaxTraces is 1 rather than 62, with stacks of 2 frames: one is looked up, or fails,
and one is too many. `MaxDepth` is 2 scopes of a lock: AutoUnlock in AutoLock, or a
second Acquire. Two prints are one that creates the singleton and one beside
the dump of an exception. The buffers for the text of errors have 6 characters
rather than 256, with texts that just fit both, only the first, and none; wide
texts have a character of each kind (ASCII, in the code page, outside it, NUL).
RawLog's messages have 0 or 2 bytes: nothing, one write or two. Levels are one
below every severity, the default, FATAL, and one above.

**Fairness.** Weak fairness says that a thread that is executing one of the
library's functions is scheduled. Strong fairness of taking a lock says that a
waiter is not passed over forever: Windows queues the waiters of a mutex in order,
and wakes those of a critical section; a mutex whose owner has died counts as free.
In `crash` the fairness of a thread ends with its process. No fairness is assumed of
calls: the host may stop logging, and none of `CloseDialog`: the user may never
answer. `FairBaseLockSpec` also assumes that scopes end, whatever calls are made in
them. Safety runs use specifications without fairness.

**Deadlock checking** is off in every run, because every one of these systems may
stop: its processes end, or the bounded calls are used up. That no call is stuck is
instead the properties `CallsReturn`, `Served`, `DumpsEnd` and `StatementsReturn`.

### Disagreements between the code and its documentation

Five runs expect a violation.

* `redirect_shared`: `LoggingLock::Init` runs once (`logging.cc:119`), so a
  process redirected to another file by a second `InitLogging` keeps the mutex of
  the first. Two processes that both asked for `LOCK_LOG_FILE` write one file
  under two mutexes, and one message overwrites the other, against
  `logging.h:115-121`.
* `default_settings`: `InitLogging(LoggingSettings())` assigns the documented
  default `log_file`, NULL, to a `std::wstring` (`logging.cc:267`).
* `fatal_handled`: a message handler that returns true also stops a FATAL message
  from terminating the program (`logging.cc:398-403`), against `logging.h:90-91`.
* `symbol_race`: the "threadsafe singleton" of `stack_trace_win.cc:102` is created
  without a lock (124-128); two threads end up in DbgHelp together.
* `console_fd`: `RouteStdioToConsole` tests `freopen_s`, which returns 0 for success,
  as if it returned a stream (`stack_trace_win.cc:84, 93`). The streams are routed
  to the console; the descriptors, which the comment at 86-90 wants overwritten and
  `RawLog` writes to (`logging.cc:14, 560`), are not.

Met while modelling, and outside what the passing runs assume:

* With a failing `CreateMutex` in the on-demand race, NULL overwrites a handle
  another thread is using (`logging.cc:133`); `UnlockedOnExit` fails.
* `InitializeLogFileHandle` returns true with `log_file` NULL when the destination
  lost LOG_TO_FILE after `~LogMessage` tested it (`logging.cc:210, 227`), against
  its comment at 197-199; `HandleReady` fails. The write then fails harmlessly.
* Calling `EnableInProcessStackDumping` twice makes the filter its own predecessor
  (`stack_trace_win.cc:230`); `FiltersOnce` fails.
* `PCHECK` in release builds is `CHECK` (`logging.h:333`) and appends nothing,
  against `logging.h:75-85`.
* `WideToUTF8` goes through the ANSI code page (`chromium_logging_util.cpp:76-80`):
  other characters become "?", against `logging.h:660-664`. `WideTextKept` is about
  the characters of the code page.
* The text of a system error is in the ANSI code page, wide text in UTF-8: a line
  with both has two encodings, and the dialog reads it as UTF-8 (`logging.cc:334`).
* A system text that fits the first buffer of SystemErrorCodeToString but not, with
  its code, the second (`logging.cc:526`) is not cut: the count given to
  `_snprintf_s` is the size of the buffer, so the invalid parameter handler runs,
  which by default ends the process. `OnlyFatalEnds` has this one exception.
* A failing SymInitialize asserts (`stack_trace_win.cc:208`), which ends a debug
  build inside a FATAL message that has not been logged yet, against the comment
  at 204-206. `FatalLogged` speaks of processes that ended by the message itself.
* Two processes whose different files do not open both fall back to `.\debug.log`
  (`logging.cc:216`) under the mutexes of those files; so do two processes that
  spell the path of one file differently. `WritersExclude` fails in both cases.
* `GetLogFileFullPath` copies the path without the lock (`logging.cc:588`); beside an
  InitLogging of another thread `NoFault` fails.
* A handler that is set back to NULL between its test and its call
  (`logging.cc:398, 447`) is called all the same, if the build loads it twice: in
  `redirect` a process may end so, and `NoFault` would fail.
* `CloseLogFile` does not call `LoggingLock::Init` (`logging.cc:549`). Before anything
  is initialised it waits on a NULL mutex, and closes the file without the lock
  beside a thread that has initialised meanwhile; `HandleReady` fails.
* StackWalk64 in the exception filter uses DbgHelp outside the lock of the context
  (`stack_trace_win.cc:273-277`), beside the lookups of other threads;
  `SymExclusive` fails.
* In a debug build the exception of a thread inside a lookup ends in the
  assertion of the lock, before the dump has printed a symbol (`SymbolLockAssertion`).
* `stream_` (`logging.h:557`) is outside the protection of `SaveLastError` (581). With
  `StreamKeepsError = FALSE`, TLC finds `LastErrorKept` violated in `statements`.

## 4. What is proved

Every safety invariant, every action property and every refinement that a passing
run checks is also a theorem, and so is `NoFault`, which a violation run refutes
without its hypothesis. They are checked by TLAPS for any number of processes,
threads, files, locks, messages, levels and frames, any texts and both builds.
Only the four liveness properties are left to TLC (see the end of this section).

Each proof starts from the named assumptions of its module (`ProcessAssumption`,
`LockAssumption`, `LoggingAssumption`, `BaseLockAssumption`, `SymbolAssumption`,
`StdioAssumption`, `TextAssumption`, `StatementAssumption`), which say what the
constants are: threads belong to processes, NULL is no thread, path or handle, the
ASCII characters are not among those of the code page. TLC evaluates them in every
run. What a theorem asks of the program beyond that is a named hypothesis:

| Hypothesis | Asks | Of which run it is true | Without it |
|---|---|---|---|
| `Disciplined` | `InitLogging` first, from the main thread, with LOG_TO_FILE, and CreateMutex succeeds (`logging.cc:102-107`, `logging.h:161-165`) | `lock_disciplined`, `redirect`, `redirect_shared` | with InitFirst FALSE or CreateMutexFails TRUE, `lock_disciplined` violates `MutualExclusion` |
| `OnDemandUse` | every process logs to the default file under its mutex, nobody has to initialise, CreateMutex succeeds | `one_file` | as above |
| `FilesShareLock` | processes that may open one file ask for LOCK_LOG_FILE and name one path | `redirect`, `crash` | `redirect_shared` violates `WritersExclude` |
| `SafeUse` | `OnDemandUse`, or `Disciplined` and `FilesShareLock` | `one_file`, `redirect` | `redirect_shared` |
| `AlwaysToFile` | each InitLogging asks for LOG_TO_FILE | all | `HandleReady` fails (section 3) |
| `HandlersStay` | no handler is reset to NULL | all but `redirect` | a handler reset between its test and its call is called as NULL |
| `HandlersReturnNot` | no handler consumes messages, no assert handler | `redirect` | `fatal_handled` violates `FatalNeverReturns` |
| `FaultlessUse` | `Disciplined`, `HandlersStay`, a file name in every InitLogging, GetLogFileFullPath not beside a second one | `redirect_shared`, `fatal_handled` | `default_settings` violates `NoFault`; so does `redirect`, by a handler that is reset |
| `Checked` | a debug build, or no calls against the contract | `base_lock` | a release build checks nothing |
| `ContextFirst` | main prints a trace before it starts threads | `dump` | `symbol_race` |
| `MaxEnables <= 1` | EnableInProcessStackDumping is called once | `dump` | `FiltersOnce` fails (section 3) |
| `StreamKeepsError` | making and destroying a std::ostringstream keeps the last error | `statements` | `statements` violates `LastErrorKept` |
| `EndedSystemText` | the system's text for an error has no NUL and is at least as long as the line end that is removed from it | `statements` | remove_suffix would remove a part of the code |

### LoggingLock

| Theorem | States |
|---|---|
| `LockTypeCorrect` | `LockTypeOK`, in any use |
| `LockInvariant`, `LockExcludes`, `LockReleased`, `LockBalanced`, `LockNeverNull` | under `Disciplined`: `LockInv`, `MutualExclusion`, `UnlockedOnExit`, `HoldsWhatItReleases`, `NoNullLock` |
| `LockOnDemand` | under `OnDemandUse`: `OnDemandInv` |

`MutualExclusion` is not inductive: it says nothing of a thread about to wait, or
of fields about to change. `LockInv` adds: only the main thread is in the body of
`Init`, and before any other thread of its process exists (`InitAlone`), so the
static fields are constant once `initialized` is set; what `Init` has established
at each step (`InitProgress`); from then on all threads of the process name one
non-NULL object (`LockReady`); and owners of an object are exactly the threads
inside it (`HoldsWhatItReleases`, `OwnedInside`). The proof has two halves, one
for the fields (`FieldsStep`) and one for the owners (`OwnersStep`), with a step
for each action that can disturb it. The actions of `Init` leave owners alone
because nobody of the process is inside (`FieldWriteKeepsOwners`), `Acquire` takes
an object nobody owns (`TakesFreeLock`) and a release frees the object its thread
owns (`ReleasesItsLock`).

The race that the comments warn of is harmless when every racer writes the same:
`OnDemandInv` says that whoever has been through `Init`, or found it done, finds
the mutex of the default path (`DefaultMutex`), and that the mutex is owned by the
one thread of the machine that is inside (`DefaultOwned`).

### Logging

| Theorem | States | Hypothesis |
|---|---|---|
| `LoggingInvariant`, `LoggingTypeCorrect` | `LoggingInv`, `LoggingTypeOK` | |
| `LoggingUsesLock` | `Spec => LockSpec`: the theorems above carry over | |
| `LoggingFatalPrinted` | `PrintedInv`, the part of `FatalLogged` about stderr | |
| `LoggingReleased` | `UnlockedOnExit` | `Disciplined` or `OnDemandUse` |
| `LoggingGuarded`, `LoggingWritersExclude` | `Guarded`, `WritersExclude` | `SafeUse` |
| `LoggingHandles`, `LoggingAtEnd` | `HandleInv`, `AtEnd` | `SafeUse` |
| `LoggingHandleReady` | `HandleReady` | `SafeUse`, `AlwaysToFile` |
| `LoggingFatalLogged` | `FatalLogged` | `SafeUse` |
| `LoggingAtomicOutput` | `AtomicOutput`: the core implements `AtomicLog` | `SafeUse` |
| `LoggingFiles` | `FilesInv` | `Disciplined` |
| `LoggingNoFaultOnDemand` | `NoFaultOnDemand` | `HandlersStay` |
| `LoggingNoFault` | `NoFault` | `FaultlessUse` |
| `LoggingFatalNeverReturns` | `FatalNeverReturns` | `HandlersReturnNot` |

`LoggingInv` is the invariant of any use: which call a thread executes from where
it stands, with which arguments (`CallInv`), where it stands in LoggingLock
meanwhile (`PlaceInv`), and that the destination and the name are ones that were
asked for (`GlobalInv`). With it every step of the core is a step of LoggingLock or
leaves it alone (`StepUsesLock`).

The argument for atomic output goes up in layers. `LockInv` or `OnDemandInv` gives
`Guarded`: two threads that have the lock are of different processes and have
different files open, because processes that may open one file share its mutex
(`FilesShareLock`) and `FilesInv` says which files they may open. From `Guarded` no
step of another thread disturbs a handle or a file between a seek and a write, which
makes `HandleInv` inductive: the name changes only while no file is open, who is
going to write has a handle, a handle is invalid only while one thread is between
closing, or failing to open, and the next assignment, and it is at the end of its
file after the seek. Then a write appends (`WriteAppends`), and each step of the
core is a call, an append, the opening, closing or deletion of a file, a loss or a
stutter of `AtomicLog` (`PromiseStep`). `WrittenInv` follows a FATAL message from
its write to the end of the process: what the file holds stays there (`HeldStays`).

`DemandInv` and `FaultlessInv` rest on one lemma, `FaultsWhere`, which lists the
five places where a step can go through NULL: the two handlers, a `log_lock` that is
not there, the assignment of a NULL file name, and the copy of the path beside an
assignment; each invariant excludes those that its hypothesis allows it to.
`ObserveInv` says that the handlers in place are ones that were set.

### BaseLock

`BaseLockInv` says at every location who owns the section and how many times, and
whether the record names the owner (`SectionInv`); that scopes of a lock alternate
(`ScopesInv`); and that a thread that called against the contract stands before the
assertion that is going to fail (`MisuseInv`). It is inductive as long as the
contract is kept or checked (`ContractKept`), which `Checked` ensures.
`BaseLockMisuseCaught`, `BaseLockNoFalseAlarm`, `BaseLockRecordProtected` and
`BaseLockScopesBalanced` follow from it. `BaseLockExcludes` maps each step to a step of
`Mutex`. A thread takes the lock when it passes `CheckUnheldAndMark`, and `Mutex` asks
that nobody have it then: a thread that has entered the section of its own lock a
second time stands before an assertion that fails, because the record still names
it. A thread gives the lock back when it leaves the section, and `Mutex` asks that it
have it: a thread that does not own it never passes `CheckHeldAndUnmark`. So the
refinement needs the assertions, and not only the exclusion of the critical
section. `BaseLockTypeCorrect` holds in any use.

### SymbolContext

`SymbolUsesLock` shows that a trace uses the lock through the interface of
`BaseLock` only. An exception inside a lookup leaves its lock held, and the dump asks
for it again, against the contract. In a debug build `BaseLockInv` holds all the same
(`SymbolLockInvariant`), because the assertion ends the process before the dump goes
on; `SymbolLockAssertion` says that this is the only case in which an assertion of the
lock fails. A release build checks nothing, so `SymbolInv` itself says who is in which
section and how many times: once for a lookup, and once more for an interrupted one
of the same context (`ScopeInv`, `ReleaseInv`). `SymbolInv` also says that a context
a thread may use has an error or an initialised DbgHelp (`InitInv`), even in the race
to create it, which gives `SymbolInitBeforeLookup`; that streams are reopened only if
both were invalid (`RouteInv`), which gives `SymbolInheritedKept`; and, under their
hypotheses, that all threads use main's context (`SingletonInv`) and that the dump is
not its own predecessor (`FilterInv`), which give `SymbolLookupsExclude` and
`SymbolFiltersOnce`. `SymbolDumpUnlocks` needs no hypothesis; the lock of the
interrupted lookup is the one it excepts.

### LogStatements and TextConversion

`StatementInv` says for each location which macros can be there (`ControlInv`),
where the error at entry is remembered (`ErrorInv`: in `err_` before anything can
clobber it, and in `saved` if constructing the stream has kept it), what the message
consists of (`TextInv`), what RawLog has written (`RawInv`), and that a FATAL
statement does not come to restore the error (`EndInv`). From it follow
`StatementLastErrorKept` (under `StreamKeepsError`), `StatementEndsAsDocumented` and
`StatementRawLineWhole` directly, and with the lemmas of `TextConversion_proofs`
`StatementWideTextKept` (narrowing and widening text of a page in that page gives it
back) and `StatementPlogReports` (`ErrorText`: the text of an error is its code and
the system's text less its line end, if that has room in both buffers). The lemmas
are about texts of any length: the conversions are written character by character,
not recursively, and the first NUL of a text exists because positions are
well-founded (`FirstPosition`).

### Only model-checked

* The liveness properties `CallsReturn`, `Served`, `DumpsEnd` and `StatementsReturn`:
  the prover handles neither fairness nor ENABLED.
* The properties that the other violation runs refute (`SymExclusive`,
  `DescriptorsFollow`) are not true and have no theorem.

The inductive invariants were checked with TLC on the runs' constants before they
were proved. `FatalLogged` is also checked on `crash`, which is outside `SafeUse` because
the mutex may not be created there; `LoggingFatalPrinted` proves the part of it
that needs no mutex.

## 5. What is assumed and left out

* No debugger is attached: `BreakDebugger` ends the process. With one,
  `__debugbreak` may return in a debug build and a FATAL statement with it.
* The constructor of a `Win32ErrorLogMessage` is evaluated before the operands
  streamed into it. C++ leaves that open before C++17.
* `RawLog` loops as long as `write` returns 0; the model takes that as a stutter.
* Positions are counted in messages: overwriting a part of a longer message is an
  overwriting, and the part written to a full disk counts as one message.
* While a dialog waits, its thread makes no call: the message loop of a message box
  does not run code of the host that logs.
* A program that calls InitLogging first (`InitFirst`) calls `SetShowErrorDialogs`
  before it.
* The line end that remove_suffix drops is two characters long, as in the messages
  of Windows. Bytes that are not of a code page give one invalid character.
* Handles of `CreateMutex` are identified with the mutex: leaking one is invisible,
  which is also why it is harmless.
* A path names one mutex and, in the runs, one file. The value of a handle that was
  closed is not given to another file or mutex.
* `GetLogFileFullPath` faults only beside the assignment itself; other accesses
  to the string of the name are under the lock.
* An exception inside the code of a lock, or of the dump itself, is not modelled,
  nor are exceptions composed with the file lock.
* A host's own exception filter ends the process.
* `LookupsExclude` takes the singleton to exist first (the run `dump`);
  `symbol_race` shows what happens otherwise.
* The debug-build stack trace inside a FATAL `~LogMessage` is not composed with the
  file lock. It is taken and left before that lock is asked for, so neither waits
  for the other.
* Not modelled: the layout of the header (`LogMessage::Init`, `SetLogItems`) and of
  lines, buffering of the streams, `Addresses`, `ToString`, `native_handle`,
  `remove_prefix`, which compute without changing anything, and the demo, which is
  one behaviour of `Logging`.

## 6. Plan

Done: LoggingLock, the core composed with it, base::Lock, stack traces, statements,
the console, the text helpers, the dialog and the path; and a theorem for each of
their safety properties.

Next:

1. Statements composed with the core for one thread, so that `Emit` is refined by
   the steps of `~LogMessage`, including the stack trace of a FATAL message, and the
   refinement proved.
2. Weaker hypotheses: `SafeUse` asks all processes for one discipline; two groups of
   processes, each with its own, would be as safe if they share no file.

## 7. Running it

    tlc -config MCLogging_one_file.cfg MCLogging
    tlapm LoggingLock_proofs.tla

Each run takes less than two minutes on two cores. From nothing, `Logging_proofs`
takes about four minutes and each other proof module less than two.
