--------------------------- MODULE SymbolContext ---------------------------
(***************************************************************************)
(* Stack traces: StackTrace, the singleton SymbolContext around DbgHelp    *)
(* and the unhandled exception filter of src/src/stack_trace_win.cc.       *)
(*                                                                         *)
(* DbgHelp may only be used by one thread at a time.  A SymbolContext has  *)
(* a base::Lock for that (module BaseLock: the lock of the context thread  *)
(* t allocates is t), but the singleton is created without one.            *)
(***************************************************************************)
EXTENDS BaseLock, StdioConsole

CONSTANTS
  Main,            \* the main thread
  ContextFirst,    \* main prints a trace before it starts other threads
  kMaxTraces,      \* frames a StackTrace has room for
  Depths,          \* stack depths that occur
  MayRaise,        \* threads that may raise an unhandled exception
  HostFilters,     \* filters the host program may have installed, or NULL
  SymInitFails,    \* SymInitialize may fail
  StreamFails,     \* the stream may go bad
  MaxEnables,      \* bound: calls of EnableInProcessStackDumping
  MaxPrints        \* bound: traces printed in a behaviour

ASSUME SymbolAssumption ==
  /\ Locks = Threads /\ NULL \notin {"dump", "host"}
  /\ Misuses /\ MaxDepth >= 2   \* a dump may call the lock its thread holds
  /\ Main \in Threads
  /\ MayRaise \subseteq Threads
  /\ kMaxTraces \in Nat /\ Depths \subseteq Nat
  /\ HostFilters \subseteq {"host", NULL} /\ HostFilters # {}
  /\ ContextFirst \in BOOLEAN /\ SymInitFails \in BOOLEAN /\ StreamFails \in BOOLEAN
  /\ MaxEnables \in Nat /\ MaxPrints \in Nat

VARIABLES
  at,                 \* where each thread stands in this component
  depth,              \* frames left on the stack it walks
  count_,             \* frames in its StackTrace
  lines,              \* lines of the trace it has printed
  seen,               \* the symbol_context_ it has read and uses, or the filter
  raised,             \* filters run for the exception it has raised
  interrupted,        \* the context it was resolving frames with at the exception
  symbol_context_,    \* the singleton
  init_error_,        \* of each context
  symInitialized,     \* DbgHelp is initialised for the process
  filter, g_previous_filter,
  prints, enables     \* calls so far

traceVars == <<depth, count_, lines>>
contextVars == <<symbol_context_, init_error_, symInitialized>>
raisedVars == <<raised, interrupted>>
filterVars == <<filter, g_previous_filter>>
countVars == <<prints, enables>>
symbolVars == <<at, traceVars, seen, raisedVars, contextVars, filterVars, countVars, process,
                stdioVars>>
vars == <<lockVars, symbolVars>>

Filters == {"dump", "host", NULL}

SymbolTypeOK ==
  /\ at \in [Threads -> {"idle", "walk", "testContext", "construct", "store",
                         "testError", "rawLine", "lookup", "returned", "callPrevious",
                         "storeFilter", "route", "ended"}]
  /\ depth \in [Threads -> Nat]
  /\ count_ \in [Threads -> 0 .. kMaxTraces]
  /\ lines \in [Threads -> 0 .. kMaxTraces]
  /\ seen \in [Threads -> Threads \cup Filters]
  /\ raised \in [Threads -> Nat]
  /\ interrupted \in [Threads -> Threads \cup {NULL}]
  /\ symbol_context_ \in Threads \cup {NULL}
  /\ init_error_ \in [Threads -> BOOLEAN]
  /\ symInitialized \in BOOLEAN
  /\ filter \in Filters /\ g_previous_filter \in Filters
  /\ prints \in 0 .. MaxPrints /\ enables \in 0 .. MaxEnables
  /\ process \in {"running", "assert", "exception", "invalidParameter"}
  /\ StdioTypeOK

SymbolInit ==
  /\ BaseLockInit
  /\ at = [t \in Threads |-> "idle"]
  /\ depth = [t \in Threads |-> 0]
  /\ count_ = [t \in Threads |-> 0]
  /\ lines = [t \in Threads |-> 0]
  /\ seen = [t \in Threads |-> NULL]
  /\ raised = [t \in Threads |-> 0]
  /\ interrupted = [t \in Threads |-> NULL]
  /\ symbol_context_ = NULL
  /\ init_error_ = [t \in Threads |-> FALSE]
  /\ symInitialized = FALSE
  /\ filter \in HostFilters
  /\ g_previous_filter = NULL
  /\ prints = 0 /\ enables = 0
  /\ process = "running"
  /\ StdioInit

Step(t, from, to) ==
  /\ process = "running" /\ ~aborted
  /\ pc[t] = "out"
  /\ at[t] = from
  /\ at' = [at EXCEPT ![t] = to]

\* With ContextFirst, other threads exist once main has created the singleton.
Exists(t) == ContextFirst /\ t # Main => symbol_context_ # NULL

Least(m, n) == IF m < n THEN m ELSE n

-----------------------------------------------------------------------------
(***************************************************************************)
(* The constructors of StackTrace.                                         *)
(***************************************************************************)

\* StackTrace() captures, and StackTrace(trace, count) copies, as many frames
\* as there is room for; then Print() or OutputToStream().
PrintTrace(t) ==
  /\ Exists(t)
  /\ prints < MaxPrints
  /\ Step(t, "idle", "testContext")
  /\ \E d \in Depths : count_' = [count_ EXCEPT ![t] = Least(d, kMaxTraces)]
  /\ lines' = [lines EXCEPT ![t] = 0]
  /\ prints' = prints + 1
  /\ UNCHANGED <<lockVars, depth, seen, raisedVars, contextVars, filterVars, enables,
                 process, stdioVars>>

\* Mutant: the room left is tested before the last frame was counted.
WalkRoom(t) ==
  /\ Step(t, "walk", IF depth[t] > 0 /\ count_[t] <= kMaxTraces THEN "walk" ELSE "testContext")
  /\ depth' = [depth EXCEPT ![t] = IF @ > 0 THEN @ - 1 ELSE 0]
  /\ count_' = IF at'[t] = "walk" THEN [count_ EXCEPT ![t] = @ + 1] ELSE count_
  /\ UNCHANGED <<lockVars, lines, seen, raisedVars, contextVars, filterVars, countVars,
                 process, stdioVars>>

\* StackTrace(exception): while (StackWalk64(...) && count_ < arraysize(trace_)).
\* StackWalk64 calls SymFunctionTableAccess64 and SymGetModuleBase64.
Walk(t) ==
  /\ Step(t, "walk", IF depth[t] > 0 /\ count_[t] < kMaxTraces THEN "walk" ELSE "testContext")
  /\ depth' = [depth EXCEPT ![t] = IF @ > 0 THEN @ - 1 ELSE 0]
  /\ count_' = IF at'[t] = "walk" THEN [count_ EXCEPT ![t] = @ + 1] ELSE count_
  /\ UNCHANGED <<lockVars, lines, seen, raisedVars, contextVars, filterVars, countVars,
                 process, stdioVars>>

-----------------------------------------------------------------------------
(***************************************************************************)
(* StackTrace::OutputToStream and SymbolContext.                           *)
(***************************************************************************)

\* GetInstance: if (NULL == symbol_context_)
TestContext(t) ==
  /\ Step(t, "testContext", IF symbol_context_ = NULL THEN "construct" ELSE "testError")
  /\ seen' = [seen EXCEPT ![t] = symbol_context_]
  /\ UNCHANGED <<lockVars, traceVars, raisedVars, contextVars, filterVars, countVars,
                 process, stdioVars>>

\* Mutant: the error of SymInitialize is not kept.
ConstructUnchecked(t) ==
  /\ Step(t, "construct", "store")
  /\ \E fails \in {symInitialized} \cup IF SymInitFails THEN {TRUE} ELSE {} :
       /\ symInitialized' = (symInitialized \/ ~fails)
       /\ process' = IF fails /\ ~NDEBUG THEN "assert" ELSE process
  /\ UNCHANGED <<lockVars, traceVars, seen, raisedVars, symbol_context_, init_error_,
                 filterVars,
                 countVars, stdioVars>>

\* new SymbolContext: SymSetOptions; SymInitialize, which fails when the process
\* has called it before; a failure is kept in init_error_, after assert(false).
Construct(t) ==
  /\ Step(t, "construct", "store")
  /\ \E fails \in {symInitialized} \cup IF SymInitFails THEN {TRUE} ELSE {} :
       /\ symInitialized' = (symInitialized \/ ~fails)
       /\ init_error_' = [init_error_ EXCEPT ![t] = fails]
       /\ process' = IF fails /\ ~NDEBUG THEN "assert" ELSE process
  /\ UNCHANGED <<lockVars, traceVars, seen, raisedVars, symbol_context_, filterVars,
                 countVars, stdioVars>>

\* symbol_context_ = new SymbolContext;
Store(t) ==
  /\ Step(t, "store", "testError")
  /\ symbol_context_' = t
  /\ seen' = [seen EXCEPT ![t] = t]
  /\ UNCHANGED <<lockVars, traceVars, raisedVars, init_error_, symInitialized, filterVars,
                 countVars, process, stdioVars>>

\* return symbol_context_, loaded again or not; then, unless initialising the
\* context failed, OutputTraceToStream: base::AutoLock lock(lock_);
TestError(t) ==
  /\ at[t] = "testError"
  /\ \E context \in {seen[t], symbol_context_} :
       \/ /\ init_error_[context]
          /\ Step(t, "testError", "rawLine")
          /\ seen' = [seen EXCEPT ![t] = NULL]
          /\ UNCHANGED lockVars
       \/ /\ ~init_error_[context]
          /\ Step(t, "testError", "lookup")
          /\ seen' = [seen EXCEPT ![t] = context]
          /\ Acquire(t, context)
  /\ UNCHANGED <<traceVars, raisedVars, contextVars, filterVars, countVars, process,
                 stdioVars>>

\* One line of the trace, unless the stream goes bad with it.
Line(t) ==
  /\ lines[t] < count_[t]
  /\ lines' = [lines EXCEPT ![t] = @ + 1]

\* One frame, unresolved; the loop ends after the last one or on a bad stream.
RawLine(t) ==
  /\ \/ Line(t) /\ Step(t, "rawLine", "rawLine")
     \/ /\ lines[t] = count_[t] \/ StreamFails
        /\ Step(t, "rawLine", "returned")
        /\ UNCHANGED lines
  /\ UNCHANGED <<lockVars, depth, count_, seen, raisedVars, contextVars, filterVars,
                 countVars,
                 process, stdioVars>>

\* Mutant: OutputTraceToStream returns on a bad stream without giving the lock back.
LookupLocked(t) ==
  /\ \/ Line(t) /\ Step(t, "lookup", "lookup") /\ UNCHANGED lockVars
     \/ /\ lines[t] = count_[t]
        /\ Step(t, "lookup", "returned")
        /\ EndAutoLock(t, seen[t])
        /\ UNCHANGED lines
     \/ /\ StreamFails
        /\ Step(t, "lookup", "returned")
        /\ UNCHANGED <<lines, lockVars>>
  /\ UNCHANGED <<depth, count_, seen, raisedVars, contextVars, filterVars, countVars,
                 process, stdioVars>>

\* One frame: SymFromAddr, SymGetLineFromAddr64 and a line; or ~AutoLock.
Lookup(t) ==
  /\ \/ Line(t) /\ Step(t, "lookup", "lookup") /\ UNCHANGED lockVars
     \/ /\ lines[t] = count_[t] \/ StreamFails
        /\ Step(t, "lookup", "returned")
        /\ EndAutoLock(t, seen[t])
        /\ UNCHANGED lines
  /\ UNCHANGED <<depth, count_, seen, raisedVars, contextVars, filterVars, countVars,
                 process, stdioVars>>

\* OutputToStream has returned, to its caller or to the exception filter.
Return(t) ==
  /\ Step(t, "returned", IF raised[t] = 0 THEN "idle" ELSE "callPrevious")
  /\ UNCHANGED <<lockVars, traceVars, seen, raisedVars, contextVars, filterVars, countVars,
                 process, stdioVars>>

-----------------------------------------------------------------------------
(***************************************************************************)
(* Exceptions: StackDumpExceptionFilter, EnableInProcessStackDumping.      *)
(***************************************************************************)

\* A filter is called for the exception of thread t: ours dumps the stack, and
\* the process ends after any other, or none.
CallFilter(t, f, from) ==
  /\ \/ /\ f = "dump"
        /\ Step(t, from, "walk")
        /\ \E d \in Depths : depth' = [depth EXCEPT ![t] = d]
        /\ count_' = [count_ EXCEPT ![t] = 0]
        /\ lines' = [lines EXCEPT ![t] = 0]
        /\ UNCHANGED process
     \/ /\ f # "dump"
        /\ Step(t, from, "ended")
        /\ process' = "exception"
        /\ UNCHANGED traceVars
  /\ raised' = [raised EXCEPT ![t] = @ + 1]
  /\ UNCHANGED <<lockVars, seen, contextVars, filterVars, countVars, stdioVars>>

\* A thread raises an exception that nobody handles, wherever it stands outside the
\* code of a lock: what it was doing is never resumed, and a lock it holds is never
\* given back.  (An exception of the dump itself is not modelled.)
Raise(t) ==
  /\ t \in MayRaise
  /\ Exists(t)
  /\ raised[t] = 0
  /\ interrupted' = [interrupted EXCEPT ![t] = IF at[t] = "lookup" THEN seen[t] ELSE NULL]
  /\ CallFilter(t, filter, at[t])

\* if (g_previous_filter) return g_previous_filter(info);
CallPrevious(t) ==
  /\ CallFilter(t, g_previous_filter, "callPrevious")
  /\ UNCHANGED interrupted

\* EnableInProcessStackDumping, "only call from main thread":
\* SetUnhandledExceptionFilter(&StackDumpExceptionFilter) returns the filter ...
Enable(t) ==
  /\ t = Main
  /\ enables < MaxEnables
  /\ Step(t, "idle", "storeFilter")
  /\ seen' = [seen EXCEPT ![t] = filter]
  /\ filter' = "dump"
  /\ enables' = enables + 1
  /\ UNCHANGED <<lockVars, traceVars, raisedVars, contextVars, g_previous_filter, prints,
                 process, stdioVars>>

\* Mutant: the filter is remembered after it has been replaced.
StoreFilterAfter(t) ==
  /\ Step(t, "storeFilter", "route")
  /\ RouteStdioToConsole
  /\ g_previous_filter' = filter
  /\ seen' = [seen EXCEPT ![t] = NULL]
  /\ UNCHANGED <<lockVars, traceVars, raisedVars, contextVars, filter, countVars, process>>

\* ... which is assigned to g_previous_filter; RouteStdioToConsole();
StoreFilter(t) ==
  /\ Step(t, "storeFilter", "route")
  /\ RouteStdioToConsole
  /\ g_previous_filter' = seen[t]
  /\ seen' = [seen EXCEPT ![t] = NULL]
  /\ UNCHANGED <<lockVars, traceVars, raisedVars, contextVars, filter, countVars, process>>

Route(t) ==
  /\ RouteStep
  /\ Step(t, "route", IF route' = "done" THEN "idle" ELSE "route")
  /\ UNCHANGED <<lockVars, traceVars, seen, raisedVars, contextVars, filterVars, countVars>>

-----------------------------------------------------------------------------
\* A lock step of a thread in a running process.
LockCall(t) == process = "running" /\ LockStep(t) /\ UNCHANGED symbolVars

TraceStep(t) ==
  \/ LockCall(t)
  \/ Walk(t) \/ TestContext(t) \/ Construct(t) \/ Store(t) \/ TestError(t)
  \/ RawLine(t) \/ Lookup(t) \/ Return(t) \/ CallPrevious(t) \/ StoreFilter(t)
  \/ Route(t)

Next == \E t \in Threads : TraceStep(t) \/ PrintTrace(t) \/ Raise(t) \/ Enable(t)

Spec == SymbolInit /\ [][Next]_vars

\* A thread that prints a trace or has raised an exception is scheduled.
FairSpec ==
  /\ Spec
  /\ \A t \in Threads :
       WF_vars(TraceStep(t)) /\ SF_vars(Enter(t) /\ LockCall(t))

-----------------------------------------------------------------------------
(***************************************************************************)
(* Properties.                                                             *)
(***************************************************************************)

Running == process = "running" /\ ~aborted

\* A thread executes DbgHelp's functions.
Looking(t) == pc[t] = "out" /\ at[t] = "lookup"
InSym(t) == Looking(t) \/ at[t] \in {"construct", "walk"}

\* "The Sym* family of functions may only be invoked by one thread at a time",
\* which the "threadsafe singleton" SymbolContext is there to ensure
\* (stack_trace_win.cc:102-106).
SymExclusive == \A t, u \in Threads : t # u => ~(InSym(t) /\ InSym(u))

\* The weaker promise of the lock of the singleton: of two threads that print
\* resolved traces, one waits, as long as the singleton existed before them.
LookupsExclude == \A t, u \in Threads : t # u => ~(Looking(t) /\ Looking(u))

\* "This function should only be called if Init() has been called": no frame is
\* resolved before DbgHelp is initialised, whoever created the context.
InitBeforeLookup == \A t \in Threads : Looking(t) => symInitialized

\* A dump leaves no lock behind: a thread that has left OutputTraceToStream holds
\* no lock, and none is recorded as held by it, but the one that its exception
\* made it leave behind.
DumpUnlocks ==
  \A t, l \in Threads : Running /\ pc[t] = "out" /\ at[t] # "lookup" /\ interrupted[t] # l =>
    section[l].owner # t /\ owning_thread_ref_[l] # t

\* An exception runs every filter at most once: the dump never recurses.
FiltersOnce == \A t \in Threads : raised[t] <= 2

\* Every trace is printed to its end, and an exception ends the process, whatever
\* the other threads, or the thread itself, were printing at the time.
DumpsEnd == \A t \in Threads : at[t] # "idle" ~> (at[t] = "idle" \/ ~Running)
=============================================================================
