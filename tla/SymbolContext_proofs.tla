------------------------ MODULE SymbolContext_proofs ------------------------
(***************************************************************************)
(* Proofs about SymbolContext, for any number of threads, frames and       *)
(* traces, both builds and every start of the process.                     *)
(***************************************************************************)
EXTENDS SymbolContext, BaseLock_proofs

(***************************************************************************)
(* The inductive invariant behind the properties above.                    *)
(***************************************************************************)
\* What a thread has read is what the next step needs.
SeenInv ==
  \A t \in Threads :
    /\ at[t] = "testError" => seen[t] \in Threads /\ symbol_context_ # NULL
    /\ at[t] = "lookup" => seen[t] \in Threads
    /\ at[t] = "storeFilter" => seen[t] \in Filters

\* Thread t resolves frames with context l, or waits for its lock to do so.
Resolves(t, l) == at[t] = "lookup" /\ seen[t] = l

\* A thread is in a scope of the lock of a context while it resolves frames with
\* it, and for good if an exception interrupted that: only then its dump may call
\* the lock against the contract.
ScopeInv ==
  /\ \A t \in Threads :
       /\ t \in misused => interrupted[t] # NULL
       /\ interrupted[t] # NULL => raised[t] # 0
  /\ \A t \in Threads, l \in Locks :
       scopes[t][l] = IF Resolves(t, l) THEN IF interrupted[t] = l THEN <<"lock", "lock">> ELSE <<"lock">>
                      ELSE IF interrupted[t] = l THEN <<"lock">> ELSE <<>>

\* How often thread t is in the critical section of context l in a release build:
\* once for the lookup it is in, or is leaving, and once for an interrupted one.
Times(t, l) ==
  IF (Resolves(t, l) /\ pc[t] = "out") \/ (pc[t] = "leave" /\ using[t] = l)
  THEN IF interrupted[t] = l THEN 2 ELSE 1
  ELSE IF interrupted[t] = l THEN 1 ELSE 0

\* There a call against the contract is not stopped: the section lets its owner in.
ReleaseInv ==
  /\ ~aborted
  /\ \A t \in Threads :
       /\ pc[t] \in {"out", "enter", "leave"}
       /\ pc[t] = "enter" => Resolves(t, using[t])
       /\ pc[t] = "leave" => at[t] # "lookup"
  /\ \A t \in Threads, l \in Locks :
       /\ section[l].owner = t <=> Times(t, l) > 0
       /\ section[l].owner = t => section[l].count = Times(t, l)
       /\ owning_thread_ref_[l] # t

\* Behind InheritedKept: nothing is reopened unless both streams are invalid.
RouteInv == route \in {"attach", "stdout", "stderr"} => \A s \in Streams : stream[s] # "pipe"

\* A context that a thread may use has an error, or has initialised DbgHelp.
InitInv ==
  /\ symbol_context_ # NULL => init_error_[symbol_context_] \/ symInitialized
  /\ \A t \in Threads :
       /\ at[t] = "store" => init_error_[t] \/ symInitialized
       /\ at[t] = "testError" => init_error_[seen[t]] \/ symInitialized
       /\ at[t] = "lookup" => symInitialized

\* If main creates the singleton before there are other threads, all use it.
SingletonInv ==
  /\ symbol_context_ \in {NULL, Main}
  /\ \A t \in Threads :
       /\ t # Main /\ at[t] # "idle" => symbol_context_ = Main
       /\ at[t] \in {"construct", "store"} => symbol_context_ = NULL
       /\ at[t] = "testError" => seen[t] = Main
       /\ at[t] = "lookup" => seen[t] = Main

\* If the dump is enabled once at most, the filter it calls is another one.
FilterInv ==
  /\ enables = 0 => filter # "dump"
  /\ g_previous_filter # "dump"
  /\ \A t \in Threads :
       /\ at[t] = "storeFilter" => seen[t] # "dump"
       /\ process = "running" => raised[t] <= 1
       /\ process = "running" /\ at[t] \in {"idle", "storeFilter", "route"} => raised[t] = 0
  /\ FiltersOnce

SymbolInv ==
  /\ SymbolTypeOK /\ SeenInv /\ ScopeInv /\ InitInv /\ RouteInv
  /\ NDEBUG => ReleaseInv
  /\ ContextFirst => SingletonInv
  /\ enables <= 1 => FilterInv

(***************************************************************************)
(* The lock of a context is used as module BaseLock says.                  *)
(***************************************************************************)

\* The only steps of a trace that touch a lock are its calls, of a lock that is
\* alive, and the steps of those calls.
LEMMA SymbolCallsLock == BaseLockTypeOK /\ [Next]_vars => [BaseLockNext]_lockVars
<1> SUFFICES ASSUME BaseLockTypeOK, [Next]_vars PROVE [BaseLockNext]_lockVars
  OBVIOUS
<1>1. ASSUME NEW t \in Threads, LockCall(t) PROVE BaseLockNext
  BY <1>1 DEF LockCall, BaseLockNext
<1>2. ASSUME NEW t \in Threads, TestError(t) PROVE [BaseLockNext]_lockVars
  <2>1. ASSUME NEW l, Acquire(t, l) PROVE BaseLockNext
    <3>1. l \in Locks
      BY <2>1 DEF Acquire, Calls, BaseLockTypeOK
    <3> QED
      BY <2>1, <3>1 DEF BaseLockNext
  <2> QED
    BY <1>2, <2>1 DEF TestError
<1>3. ASSUME NEW t \in Threads, Lookup(t) PROVE [BaseLockNext]_lockVars
  <2>1. ASSUME EndAutoLock(t, seen[t]) PROVE BaseLockNext
    <3>1. PICK l \in Locks : EndAutoLock(t, l)
      BY <2>1 DEF EndAutoLock, Calls, BaseLockTypeOK
    <3> QED
      BY <3>1 DEF BaseLockNext, EndScope
  <2> QED
    BY <1>3, <2>1 DEF Lookup
<1>4. ASSUME NEW t \in Threads,
             \/ Walk(t) \/ TestContext(t) \/ Construct(t) \/ Store(t) \/ RawLine(t) \/ Return(t)
             \/ CallPrevious(t) \/ StoreFilter(t) \/ Route(t) \/ PrintTrace(t) \/ Raise(t) \/ Enable(t)
      PROVE  UNCHANGED lockVars
  BY <1>4 DEF Walk, TestContext, Construct, Store, RawLine, Return, CallPrevious, CallFilter,
    StoreFilter, Route, PrintTrace, Raise, Enable
<1>5. CASE UNCHANGED vars
  BY <1>5 DEF vars
<1> QED
  BY <1>1, <1>2, <1>3, <1>4, <1>5 DEF Next, TraceStep

\* SymbolContext implements the client that BaseLock assumes: every theorem about
\* the lock holds of it.
THEOREM SymbolUsesLock == Spec => BaseLockSpec
<1>1. SymbolInit => BaseLockInit
  BY DEF SymbolInit
<1>2. BaseLockTypeOK /\ UsingInv /\ [Next]_vars => BaseLockTypeOK' /\ UsingInv' /\ [BaseLockNext]_lockVars
  BY SymbolCallsLock, BaseLockTypeStep
<1> QED
  BY <1>1, <1>2, BaseLockTypeInit, PTL DEF Spec, BaseLockSpec

(***************************************************************************)
(* Types.                                                                  *)
(***************************************************************************)
Places == {"idle", "walk", "testContext", "construct", "store", "testError", "rawLine", "lookup",
           "returned", "callPrevious", "storeFilter", "route", "ended"}

\* A step of thread t moves no other thread.
LEMMA Moves ==
  ASSUME at \in [Threads -> Places], NEW t \in Threads, NEW from, NEW to, Step(t, from, to)
  PROVE  /\ process = "running" /\ pc[t] = "out" /\ at[t] = from /\ at'[t] = to
         /\ \A u \in Threads \ {t} : at'[u] = at[u]
         /\ to \in Places => at' \in [Threads -> Places]
BY DEF Step

\* The variables keep their types, and what a thread has read is what its next
\* step needs.
LEMMA SymbolTypeStep == SymbolTypeOK /\ SeenInv /\ [Next]_vars => SymbolTypeOK' /\ SeenInv'
<1> SUFFICES ASSUME SymbolTypeOK, SeenInv, [Next]_vars PROVE SymbolTypeOK' /\ SeenInv'
  OBVIOUS
<1> USE DEF contextVars, filterVars, countVars, traceVars, stdioVars, raisedVars
<1>0. at \in [Threads -> Places]
  BY DEF SymbolTypeOK, Places
<1>1. ASSUME NEW t \in Threads, PrintTrace(t) PROVE SymbolTypeOK' /\ SeenInv'
  <2>1. /\ at' \in [Threads -> Places] /\ at'[t] = "testContext"
        /\ \A u \in Threads \ {t} : at'[u] = at[u]
    BY <1>0, <1>1, Moves DEF PrintTrace, Places
  <2>2. count_' \in [Threads -> 0 .. kMaxTraces] /\ lines' \in [Threads -> 0 .. kMaxTraces]
    BY <1>1, SymbolAssumption DEF PrintTrace, SymbolTypeOK, Least
  <2>3. prints' \in 0 .. MaxPrints
    BY <1>1, SymbolAssumption DEF PrintTrace, SymbolTypeOK
  <2>4. UNCHANGED <<depth, seen, raisedVars, contextVars, filterVars, enables, process, stdioVars>>
    BY <1>1 DEF PrintTrace
  <2>5. SymbolTypeOK'
    BY <2>1, <2>2, <2>3, <2>4 DEF SymbolTypeOK, StdioTypeOK, Places
  <2> QED
    BY <2>1, <2>4, <2>5 DEF SeenInv
<1>2. ASSUME NEW t \in Threads, Walk(t) PROVE SymbolTypeOK' /\ SeenInv'
  <2>1. /\ at' \in [Threads -> Places] /\ at'[t] \in {"walk", "testContext"}
        /\ at'[t] = "walk" => depth[t] > 0 /\ count_[t] < kMaxTraces
        /\ \A u \in Threads \ {t} : at'[u] = at[u]
    BY <1>0, <1>2, Moves DEF Walk, Places
  <2>2. depth' \in [Threads -> Nat]
    BY <1>2 DEF Walk, SymbolTypeOK
  <2>3. count_' \in [Threads -> 0 .. kMaxTraces]
    BY <1>2, <2>1, SymbolAssumption DEF Walk, SymbolTypeOK
  <2>4. UNCHANGED <<lines, seen, raisedVars, contextVars, filterVars, countVars, process, stdioVars>>
    BY <1>2 DEF Walk
  <2>5. SymbolTypeOK'
    BY <2>1, <2>2, <2>3, <2>4 DEF SymbolTypeOK, StdioTypeOK, Places
  <2> QED
    BY <2>1, <2>4, <2>5 DEF SeenInv
<1>3. ASSUME NEW t \in Threads, TestContext(t) PROVE SymbolTypeOK' /\ SeenInv'
  <2>1. /\ at' \in [Threads -> Places]
        /\ at'[t] = IF symbol_context_ = NULL THEN "construct" ELSE "testError"
        /\ \A u \in Threads \ {t} : at'[u] = at[u]
    BY <1>0, <1>3, Moves DEF TestContext, Places
  <2>2. /\ UNCHANGED <<depth, count_, lines, raisedVars, contextVars, filterVars, countVars, process, stdioVars>>
        /\ seen' = [seen EXCEPT ![t] = symbol_context_]
    BY <1>3 DEF TestContext
  <2>3. seen' \in [Threads -> Threads \cup Filters]
    BY <2>2 DEF SymbolTypeOK, Filters
  <2>4. SymbolTypeOK'
    BY <2>1, <2>2, <2>3 DEF SymbolTypeOK, StdioTypeOK, Places
  <2> QED
    BY <2>1, <2>2, <2>4 DEF SeenInv, SymbolTypeOK
<1>4. ASSUME NEW t \in Threads, Construct(t) PROVE SymbolTypeOK' /\ SeenInv'
  <2>1. /\ at' \in [Threads -> Places] /\ at'[t] = "store"
        /\ \A u \in Threads \ {t} : at'[u] = at[u]
    BY <1>0, <1>4, Moves DEF Construct, Places
  <2>2. UNCHANGED <<depth, count_, lines, seen, raisedVars, symbol_context_, filterVars, countVars, stdioVars>>
    BY <1>4 DEF Construct
  <2>3. /\ init_error_' \in [Threads -> BOOLEAN] /\ symInitialized' \in BOOLEAN
        /\ process' \in {process, "assert"}
    <3>1. PICK fails \in {symInitialized} \cup IF SymInitFails THEN {TRUE} ELSE {} :
            /\ symInitialized' = (symInitialized \/ ~fails)
            /\ init_error_' = [init_error_ EXCEPT ![t] = fails]
            /\ process' = IF fails /\ ~NDEBUG THEN "assert" ELSE process
      BY <1>4 DEF Construct
    <3>2. fails \in BOOLEAN
      BY <3>1 DEF SymbolTypeOK
    <3>3. init_error_' \in [Threads -> BOOLEAN]
      BY <3>1, <3>2 DEF SymbolTypeOK
    <3>4. symInitialized' \in BOOLEAN
      BY <3>1
    <3>5. process' \in {process, "assert"}
      BY <3>1
    <3> QED
      BY <3>3, <3>4, <3>5
  <2>4. SymbolTypeOK'
    BY <2>1, <2>2, <2>3 DEF SymbolTypeOK, StdioTypeOK, Places
  <2> QED
    BY <2>1, <2>2, <2>4 DEF SeenInv
<1>5. ASSUME NEW t \in Threads, Store(t) PROVE SymbolTypeOK' /\ SeenInv'
  <2>1. /\ at' \in [Threads -> Places] /\ at'[t] = "testError"
        /\ \A u \in Threads \ {t} : at'[u] = at[u]
    BY <1>0, <1>5, Moves DEF Store, Places
  <2>2. /\ UNCHANGED <<depth, count_, lines, raisedVars, init_error_, symInitialized, filterVars, countVars, process, stdioVars>>
        /\ seen' = [seen EXCEPT ![t] = t] /\ symbol_context_' = t
    BY <1>5 DEF Store
  <2>3. seen' \in [Threads -> Threads \cup Filters]
    BY <2>2 DEF SymbolTypeOK
  <2>4. SymbolTypeOK'
    BY <2>1, <2>2, <2>3 DEF SymbolTypeOK, StdioTypeOK, Places
  <2>5. symbol_context_' # NULL /\ seen'[t] = t /\ \A u \in Threads \ {t} : seen'[u] = seen[u]
    BY <2>2, BaseLockAssumption DEF SymbolTypeOK
  <2> QED
    BY <2>1, <2>4, <2>5 DEF SeenInv
<1>6. ASSUME NEW t \in Threads, TestError(t) PROVE SymbolTypeOK' /\ SeenInv'
  <2>1. /\ at' \in [Threads -> Places] /\ at'[t] \in {"rawLine", "lookup"}
        /\ \A u \in Threads \ {t} : at'[u] = at[u]
    <3>1. Step(t, "testError", "rawLine") \/ Step(t, "testError", "lookup")
      BY <1>6 DEF TestError
    <3> QED
      BY <1>0, <3>1, Moves DEF Places
  <2>2. /\ UNCHANGED <<depth, count_, lines, raisedVars, contextVars, filterVars, countVars, process, stdioVars>>
        /\ \A u \in Threads \ {t} : seen'[u] = seen[u]
    BY <1>6 DEF TestError, SymbolTypeOK
  <2>3. /\ seen' \in [Threads -> Threads \cup Filters]
        /\ at'[t] = "lookup" => seen'[t] \in Threads
    <3>1. seen[t] \in Threads /\ symbol_context_ \in Threads
      BY <1>6 DEF TestError, SeenInv, SymbolTypeOK
    <3>2. PICK context \in Threads :
            \/ Step(t, "testError", "rawLine") /\ seen' = [seen EXCEPT ![t] = NULL]
            \/ Step(t, "testError", "lookup") /\ seen' = [seen EXCEPT ![t] = context]
      BY <1>6, <3>1 DEF TestError
    <3>3. at'[t] = "lookup" => seen' = [seen EXCEPT ![t] = context]
      BY <1>0, <3>2, Moves
    <3> QED
      BY <3>2, <3>3 DEF SymbolTypeOK, Filters
  <2>4. SymbolTypeOK'
    BY <2>1, <2>2, <2>3 DEF SymbolTypeOK, StdioTypeOK, Places
  <2> QED
    BY <2>1, <2>2, <2>3, <2>4 DEF SeenInv, SymbolTypeOK
<1>7. ASSUME NEW t \in Threads, RawLine(t) \/ Lookup(t) PROVE SymbolTypeOK' /\ SeenInv'
  <2>1. /\ at' \in [Threads -> Places] /\ at'[t] \in {"rawLine", "lookup", "returned"}
        /\ at'[t] = "lookup" => at[t] = "lookup"
        /\ \A u \in Threads \ {t} : at'[u] = at[u]
    <3>1. PICK from \in {"rawLine", "lookup"}, to \in {"rawLine", "lookup", "returned"} :
            Step(t, from, to) /\ (to = "lookup" => from = "lookup")
      BY <1>7 DEF RawLine, Lookup
    <3> QED
      BY <1>0, <3>1, Moves DEF Places
  <2>2. /\ UNCHANGED <<depth, count_, seen, raisedVars, contextVars, filterVars, countVars, process, stdioVars>>
        /\ Line(t) \/ UNCHANGED lines
    BY <1>7 DEF RawLine, Lookup
  <2>3. lines' \in [Threads -> 0 .. kMaxTraces]
    BY <2>2, SymbolAssumption DEF SymbolTypeOK, Line
  <2>4. SymbolTypeOK'
    BY <2>1, <2>2, <2>3 DEF SymbolTypeOK, StdioTypeOK, Places
  <2> QED
    BY <2>1, <2>2, <2>4 DEF SeenInv
<1>8. ASSUME NEW t \in Threads, Return(t) PROVE SymbolTypeOK' /\ SeenInv'
  <2>1. /\ at' \in [Threads -> Places] /\ at'[t] \in {"idle", "callPrevious"}
        /\ \A u \in Threads \ {t} : at'[u] = at[u]
    BY <1>0, <1>8, Moves DEF Return, Places
  <2>2. UNCHANGED <<depth, count_, lines, seen, raisedVars, contextVars, filterVars, countVars, process, stdioVars>>
    BY <1>8 DEF Return
  <2>3. SymbolTypeOK'
    BY <2>1, <2>2 DEF SymbolTypeOK, StdioTypeOK, Places
  <2> QED
    BY <2>1, <2>2, <2>3 DEF SeenInv
<1>9. ASSUME NEW t \in Threads, NEW f, NEW from, CallFilter(t, f, from),
             interrupted' \in [Threads -> Threads \cup {NULL}]
      PROVE  SymbolTypeOK' /\ SeenInv'
  <2>1. /\ at' \in [Threads -> Places] /\ at'[t] \in {"walk", "ended"}
        /\ \A u \in Threads \ {t} : at'[u] = at[u]
    <3>1. Step(t, from, "walk") \/ Step(t, from, "ended")
      BY <1>9 DEF CallFilter
    <3> QED
      BY <1>0, <3>1, Moves DEF Places
  <2>2. /\ UNCHANGED <<seen, contextVars, filterVars, countVars, stdioVars>>
        /\ raised' = [raised EXCEPT ![t] = @ + 1]
        /\ process' \in {process, "exception"}
    BY <1>9 DEF CallFilter
  <2>3. /\ depth' \in [Threads -> Nat] /\ raised' \in [Threads -> Nat]
        /\ count_' \in [Threads -> 0 .. kMaxTraces] /\ lines' \in [Threads -> 0 .. kMaxTraces]
    <3>1. CASE UNCHANGED traceVars
      BY <2>2, <3>1 DEF SymbolTypeOK
    <3>2. CASE /\ \E d \in Depths : depth' = [depth EXCEPT ![t] = d]
               /\ count_' = [count_ EXCEPT ![t] = 0]
               /\ lines' = [lines EXCEPT ![t] = 0]
      BY <2>2, <3>2, SymbolAssumption DEF SymbolTypeOK
    <3> QED
      BY <1>9, <3>1, <3>2 DEF CallFilter
  <2>4. SymbolTypeOK'
    BY <1>9, <2>1, <2>2, <2>3 DEF SymbolTypeOK, StdioTypeOK, Places
  <2> QED
    BY <2>1, <2>2, <2>4 DEF SeenInv
<1>10. ASSUME NEW t \in Threads, Enable(t) PROVE SymbolTypeOK' /\ SeenInv'
  <2>1. /\ at' \in [Threads -> Places] /\ at'[t] = "storeFilter"
        /\ \A u \in Threads \ {t} : at'[u] = at[u]
    BY <1>0, <1>10, Moves DEF Enable, Places
  <2>2. /\ UNCHANGED <<depth, count_, lines, raisedVars, contextVars, g_previous_filter, prints, process, stdioVars>>
        /\ seen' = [seen EXCEPT ![t] = filter] /\ filter' = "dump"
        /\ enables' \in 0 .. MaxEnables
    BY <1>10, SymbolAssumption DEF Enable, SymbolTypeOK
  <2>3. seen' \in [Threads -> Threads \cup Filters] /\ filter' \in Filters
    BY <2>2 DEF SymbolTypeOK, Filters
  <2>4. SymbolTypeOK'
    BY <2>1, <2>2, <2>3 DEF SymbolTypeOK, StdioTypeOK, Places
  <2>5. seen'[t] \in Filters /\ \A u \in Threads \ {t} : seen'[u] = seen[u]
    BY <2>2 DEF SymbolTypeOK
  <2> QED
    BY <2>1, <2>2, <2>4, <2>5 DEF SeenInv
<1>11. ASSUME NEW t \in Threads, StoreFilter(t) PROVE SymbolTypeOK' /\ SeenInv'
  <2>1. /\ at' \in [Threads -> Places] /\ at[t] = "storeFilter" /\ at'[t] = "route"
        /\ \A u \in Threads \ {t} : at'[u] = at[u]
    BY <1>0, <1>11, Moves DEF StoreFilter, Places
  <2>2. /\ UNCHANGED <<depth, count_, lines, raisedVars, contextVars, filter, countVars, process, stream, fd, console>>
        /\ seen' = [seen EXCEPT ![t] = NULL] /\ g_previous_filter' = seen[t] /\ route' = "testStreams"
    BY <1>11 DEF StoreFilter, RouteStdioToConsole
  <2>3. seen' \in [Threads -> Threads \cup Filters] /\ g_previous_filter' \in Filters
    BY <2>1, <2>2 DEF SymbolTypeOK, SeenInv, Filters
  <2>4. StdioTypeOK'
    BY <2>2 DEF SymbolTypeOK, StdioTypeOK
  <2>5. SymbolTypeOK'
    BY <2>1, <2>2, <2>3, <2>4 DEF SymbolTypeOK, Places
  <2> QED
    BY <2>1, <2>2, <2>5 DEF SeenInv, SymbolTypeOK
<1>12. ASSUME NEW t \in Threads, Route(t) PROVE SymbolTypeOK' /\ SeenInv'
  <2>1. /\ at' \in [Threads -> Places] /\ at'[t] \in {"idle", "route"}
        /\ \A u \in Threads \ {t} : at'[u] = at[u]
    BY <1>0, <1>12, Moves DEF Route, Places
  <2>2. /\ UNCHANGED <<depth, count_, lines, seen, raisedVars, contextVars, filterVars, countVars>>
        /\ process' \in {process, "invalidParameter"}
    BY <1>12 DEF Route, RouteStep, TestStreams, Attach, Reopen
  <2>3. StdioTypeOK'
    BY <1>12 DEF Route, RouteStep, TestStreams, Attach, Reopen, SymbolTypeOK, StdioTypeOK, Streams, NoFile
  <2>4. SymbolTypeOK'
    BY <2>1, <2>2, <2>3 DEF SymbolTypeOK, Places
  <2> QED
    BY <2>1, <2>2, <2>4 DEF SeenInv
<1>14. ASSUME NEW t \in Threads, Raise(t) PROVE SymbolTypeOK' /\ SeenInv'
  <2>1. interrupted' \in [Threads -> Threads \cup {NULL}]
    BY <1>14 DEF Raise, SymbolTypeOK, SeenInv
  <2> QED
    BY <1>9, <1>14, <2>1 DEF Raise
<1>15. ASSUME NEW t \in Threads, CallPrevious(t) PROVE SymbolTypeOK' /\ SeenInv'
  <2>1. interrupted' \in [Threads -> Threads \cup {NULL}]
    BY <1>15 DEF CallPrevious, SymbolTypeOK
  <2> QED
    BY <1>9, <1>15, <2>1 DEF CallPrevious
<1>13. CASE UNCHANGED symbolVars
  BY <1>13 DEF symbolVars, SymbolTypeOK, StdioTypeOK, SeenInv
<1> QED
  BY <1>1, <1>2, <1>3, <1>4, <1>5, <1>6, <1>7, <1>8, <1>10, <1>11, <1>12, <1>13, <1>14, <1>15
  DEF Next, TraceStep, LockCall, vars

(***************************************************************************)
(* The lock.                                                               *)
(***************************************************************************)

\* The steps of a trace that have nothing to do with the lock.
LEMMA Unlocked ==
  ASSUME SymbolTypeOK, NEW t \in Threads,
         \/ Walk(t) \/ TestContext(t) \/ Construct(t) \/ Store(t) \/ RawLine(t) \/ Return(t)
         \/ CallPrevious(t) \/ StoreFilter(t) \/ Route(t) \/ PrintTrace(t) \/ Enable(t)
  PROVE  /\ UNCHANGED lockVars /\ UNCHANGED interrupted
         /\ pc[t] = "out" /\ at[t] # "lookup" /\ at'[t] # "lookup"
         /\ \A u \in Threads \ {t} : at'[u] = at[u] /\ seen'[u] = seen[u]
         /\ \A u \in Threads : raised[u] # 0 => raised'[u] # 0
<1>0. /\ at \in [Threads -> Places] /\ seen \in [Threads -> Threads \cup Filters]
      /\ raised \in [Threads -> Nat]
  BY DEF SymbolTypeOK, Places
<1>1. UNCHANGED lockVars /\ UNCHANGED interrupted
  BY DEF Walk, TestContext, Construct, Store, RawLine, Return, CallPrevious, CallFilter,
    StoreFilter, Route, PrintTrace, Enable, raisedVars
<1>2. PICK from \in Places \ {"lookup"}, to \in Places \ {"lookup"} : Step(t, from, to)
  <2>1. CASE Walk(t) \/ TestContext(t) \/ Construct(t) \/ Store(t) \/ RawLine(t)
    BY <2>1 DEF Walk, TestContext, Construct, Store, RawLine, Places
  <2>2. CASE Return(t) \/ StoreFilter(t) \/ Route(t) \/ PrintTrace(t) \/ Enable(t)
    BY <2>2 DEF Return, StoreFilter, Route, PrintTrace, Enable, Places
  <2>3. CASE CallPrevious(t)
    BY <2>3 DEF CallPrevious, CallFilter, Places
  <2> QED
    BY <2>1, <2>2, <2>3
<1>3. \A u \in Threads \ {t} : seen'[u] = seen[u]
  BY <1>0 DEF Walk, TestContext, Construct, Store, RawLine, Return, CallPrevious, CallFilter,
    StoreFilter, Route, PrintTrace, Enable
<1>4. \A u \in Threads : raised[u] # 0 => raised'[u] # 0
  <2>1. raised' = raised \/ raised' = [raised EXCEPT ![t] = @ + 1]
    BY DEF Walk, TestContext, Construct, Store, RawLine, Return, CallPrevious, CallFilter,
      StoreFilter, Route, PrintTrace, Enable, raisedVars
  <2> QED
    BY <1>0, <2>1
<1> QED
  BY <1>0, <1>1, <1>2, <1>3, <1>4, Moves

\* An exception leaves the locks as they are, and remembers an interrupted lookup.
LEMMA RaiseFacts ==
  ASSUME SymbolTypeOK, NEW t \in Threads, Raise(t)
  PROVE  /\ UNCHANGED lockVars /\ seen' = seen
         /\ pc[t] = "out" /\ at'[t] \in {"walk", "ended"}
         /\ raised[t] = 0 /\ raised'[t] # 0
         /\ interrupted'[t] = IF at[t] = "lookup" THEN seen[t] ELSE NULL
         /\ \A u \in Threads \ {t} :
              at'[u] = at[u] /\ raised'[u] = raised[u] /\ interrupted'[u] = interrupted[u]
<1>0. at \in [Threads -> Places]
  BY DEF SymbolTypeOK, Places
<1>1. Step(t, at[t], "walk") \/ Step(t, at[t], "ended")
  BY DEF Raise, CallFilter
<1>2. /\ pc[t] = "out" /\ at'[t] \in {"walk", "ended"}
      /\ \A u \in Threads \ {t} : at'[u] = at[u]
  BY <1>0, <1>1, Moves
<1>3. UNCHANGED lockVars /\ seen' = seen /\ raised' = [raised EXCEPT ![t] = @ + 1] /\ raised[t] = 0
  BY DEF Raise, CallFilter
<1>4. raised'[t] # 0 /\ \A u \in Threads \ {t} : raised'[u] = raised[u]
  BY <1>3 DEF SymbolTypeOK
<1>5. /\ interrupted'[t] = IF at[t] = "lookup" THEN seen[t] ELSE NULL
      /\ \A u \in Threads \ {t} : interrupted'[u] = interrupted[u]
  BY DEF Raise, SymbolTypeOK
<1> QED
  BY <1>2, <1>3, <1>4, <1>5

\* GetInstance returns the context the thread has read or the one stored since.
LEMMA TestErrorFacts ==
  ASSUME SymbolTypeOK, SeenInv, NEW t \in Threads, TestError(t)
  PROVE  /\ UNCHANGED <<raised, interrupted, contextVars>>
         /\ pc[t] = "out" /\ at[t] = "testError"
         /\ \A u \in Threads \ {t} : at'[u] = at[u] /\ seen'[u] = seen[u]
         /\ \/ at'[t] = "rawLine" /\ UNCHANGED lockVars
            \/ \E context \in Threads :
                 /\ context \in {seen[t], symbol_context_} /\ ~init_error_[context]
                 /\ at'[t] = "lookup" /\ seen'[t] = context /\ Acquire(t, context)
<1>0. at \in [Threads -> Places] /\ seen \in [Threads -> Threads \cup Filters]
  BY DEF SymbolTypeOK, Places
<1>1. at[t] = "testError" /\ UNCHANGED <<raised, interrupted, contextVars>>
  BY DEF TestError, raisedVars
<1>2. seen[t] \in Threads /\ symbol_context_ \in Threads
  BY <1>1 DEF SeenInv, SymbolTypeOK
<1>3. PICK context \in Threads :
        /\ context \in {seen[t], symbol_context_}
        /\ \/ /\ Step(t, "testError", "rawLine") /\ UNCHANGED lockVars
              /\ seen' = [seen EXCEPT ![t] = NULL]
           \/ /\ Step(t, "testError", "lookup") /\ Acquire(t, context) /\ ~init_error_[context]
              /\ seen' = [seen EXCEPT ![t] = context]
  BY <1>2 DEF TestError
<1>4. pc[t] = "out" /\ \A u \in Threads \ {t} : at'[u] = at[u]
  BY <1>0, <1>3, Moves
<1>5. \A u \in Threads \ {t} : seen'[u] = seen[u]
  BY <1>0, <1>3
<1> QED
  BY <1>0, <1>1, <1>3, <1>4, <1>5, Moves

\* A lookup goes on, or ends with the scope of the lock.
LEMMA LookupFacts ==
  ASSUME SymbolTypeOK, NEW t \in Threads, Lookup(t)
  PROVE  /\ UNCHANGED <<raised, interrupted, seen>>
         /\ pc[t] = "out" /\ at[t] = "lookup"
         /\ \A u \in Threads \ {t} : at'[u] = at[u]
         /\ \/ at'[t] = "lookup" /\ UNCHANGED lockVars
            \/ at'[t] = "returned" /\ EndAutoLock(t, seen[t])
<1>0. at \in [Threads -> Places]
  BY DEF SymbolTypeOK, Places
<1> QED
  BY <1>0, Moves DEF Lookup, raisedVars

\* A call that has begun goes on without entering or leaving a scope.
LEMMA LockStepQuiet ==
  ASSUME NEW t \in Threads, LockStep(t)
  PROVE  UNCHANGED <<scopes, misused>> /\ pc[t] # "out"
BY DEF LockStep, Enter, AssertUnheld, Mark, AssertAcquired, AssertHeld, Unmark, Leave, Goto, AssertRecord

\* A thread is in one scope of the lock it resolves frames under, and in one more
\* of the lock it was interrupted under.
LEMMA ScopeStep ==
  BaseLockTypeOK /\ SymbolTypeOK /\ SeenInv /\ ScopeInv /\ [Next]_vars => ScopeInv'
<1> SUFFICES ASSUME BaseLockTypeOK, SymbolTypeOK, SeenInv, ScopeInv, [Next]_vars PROVE ScopeInv'
  OBVIOUS
<1> USE SymbolAssumption
<1>1. ASSUME NEW t \in Threads, TestError(t) PROVE ScopeInv'
  <2>1. /\ UNCHANGED <<raised, interrupted>> /\ at[t] = "testError"
        /\ \A u \in Threads \ {t} : at'[u] = at[u] /\ seen'[u] = seen[u]
    BY <1>1, TestErrorFacts
  <2>2. CASE at'[t] = "rawLine" /\ UNCHANGED lockVars
    BY <2>1, <2>2 DEF ScopeInv, Resolves, lockVars
  <2>3. ASSUME NEW l \in Threads, at'[t] = "lookup", seen'[t] = l, Acquire(t, l) PROVE ScopeInv'
    <3>1. scopes[t][l] = IF interrupted[t] = l THEN <<"lock">> ELSE <<>>
      BY <2>1 DEF ScopeInv, Resolves
    <3>2. /\ scopes'[t][l] = Append(scopes[t][l], "lock")
          /\ \A k \in Locks \ {l} : scopes'[t][k] = scopes[t][k]
          /\ \A u \in Threads \ {t} : scopes'[u] = scopes[u]
      BY <2>3, PushFacts DEF Acquire, Scope
    <3>3. scopes'[t][l] = IF interrupted[t] = l THEN <<"lock", "lock">> ELSE <<"lock">>
      BY <3>1, <3>2
    <3>4. misused' = misused \/ (misused' = misused \cup {t} /\ interrupted[t] = l)
      BY <2>3, <3>1 DEF Acquire, Calls, Holds
    <3>5. interrupted[t] = l => interrupted[t] # NULL
      BY BaseLockAssumption
    <3>6. \A k \in Locks : Resolves(t, k)' <=> k = l
      BY <2>3 DEF Resolves
    <3>7. \A u \in Threads \ {t}, k \in Locks : Resolves(u, k)' <=> Resolves(u, k)
      BY <2>1 DEF Resolves
    <3>8. \A k \in Locks : ~Resolves(t, k)
      BY <2>1 DEF Resolves
    <3>9. \A u \in Threads : /\ u \in misused' => interrupted'[u] # NULL
                             /\ interrupted'[u] # NULL => raised'[u] # 0
      BY <2>1, <3>4, <3>5 DEF ScopeInv
    <3> QED
      BY <2>1, <3>2, <3>3, <3>6, <3>7, <3>8, <3>9 DEF ScopeInv
  <2> QED
    BY <1>1, <2>2, <2>3, TestErrorFacts
<1>2. ASSUME NEW t \in Threads, Lookup(t) PROVE ScopeInv'
  <2>1. /\ UNCHANGED <<raised, interrupted, seen>> /\ at[t] = "lookup"
        /\ \A u \in Threads \ {t} : at'[u] = at[u]
    BY <1>2, LookupFacts
  <2>2. CASE at'[t] = "lookup" /\ UNCHANGED lockVars
    BY <2>1, <2>2 DEF ScopeInv, Resolves, lockVars
  <2>3. ASSUME NEW l \in Threads, seen[t] = l, at'[t] = "returned", EndAutoLock(t, l) PROVE ScopeInv'
    <3>1. scopes[t][l] = IF interrupted[t] = l THEN <<"lock", "lock">> ELSE <<"lock">>
      BY <2>1, <2>3 DEF ScopeInv, Resolves
    <3>2. /\ scopes'[t][l] = Popped(scopes[t][l])
          /\ \A k \in Locks \ {l} : scopes'[t][k] = scopes[t][k]
          /\ \A u \in Threads \ {t} : scopes'[u] = scopes[u]
      <4>1. scopes[t][l] # <<>> /\ Pop(t, l)
        BY <2>3 DEF EndAutoLock, Holds
      <4> QED
        BY <4>1, PopFacts
    <3>3. scopes'[t][l] = IF interrupted[t] = l THEN <<"lock">> ELSE <<>>
      BY <3>1, <3>2 DEF Popped
    <3>4. misused' = misused
      BY <2>3 DEF EndAutoLock, Calls
    <3>5. \A k \in Locks : ~Resolves(t, k)' /\ (Resolves(t, k) <=> k = l)
      BY <2>1, <2>3 DEF Resolves
    <3>6. \A u \in Threads \ {t}, k \in Locks : Resolves(u, k)' <=> Resolves(u, k)
      BY <2>1 DEF Resolves
    <3> QED
      BY <2>1, <3>2, <3>3, <3>4, <3>5, <3>6 DEF ScopeInv
  <2>4. seen[t] \in Threads
    BY <2>1 DEF SeenInv
  <2> QED
    BY <1>2, <2>2, <2>3, <2>4, LookupFacts
<1>3. ASSUME NEW t \in Threads,
             \/ Walk(t) \/ TestContext(t) \/ Construct(t) \/ Store(t) \/ RawLine(t) \/ Return(t)
             \/ CallPrevious(t) \/ StoreFilter(t) \/ Route(t) \/ PrintTrace(t) \/ Enable(t)
      PROVE  ScopeInv'
  BY <1>3, Unlocked DEF ScopeInv, Resolves, lockVars
<1>4. ASSUME NEW t \in Threads, Raise(t) PROVE ScopeInv'
  <2>1. /\ UNCHANGED <<scopes, misused>> /\ seen' = seen /\ raised[t] = 0 /\ raised'[t] # 0
        /\ at'[t] \in {"walk", "ended"}
        /\ interrupted'[t] = IF at[t] = "lookup" THEN seen[t] ELSE NULL
        /\ \A u \in Threads \ {t} :
              at'[u] = at[u] /\ raised'[u] = raised[u] /\ interrupted'[u] = interrupted[u]
    BY <1>4, RaiseFacts DEF lockVars
  <2>2. interrupted[t] = NULL /\ t \notin misused
    BY <2>1 DEF ScopeInv
  <2>3. \A l \in Locks : scopes[t][l] = IF interrupted'[t] = l THEN <<"lock">> ELSE <<>>
    BY <2>1, <2>2, BaseLockAssumption DEF ScopeInv, Resolves
  <2>4. \A l \in Locks : ~Resolves(t, l)'
    BY <2>1 DEF Resolves
  <2>5. \A u \in Threads \ {t}, k \in Locks : Resolves(u, k)' <=> Resolves(u, k)
    BY <2>1 DEF Resolves
  <2> QED
    BY <2>1, <2>2, <2>3, <2>4, <2>5 DEF ScopeInv
<1>5. ASSUME NEW t \in Threads, LockCall(t) PROVE ScopeInv'
  BY <1>5, LockStepQuiet DEF LockCall, symbolVars, raisedVars, ScopeInv, Resolves
<1>6. CASE UNCHANGED vars
  BY <1>6 DEF vars, symbolVars, raisedVars, lockVars, ScopeInv, Resolves
<1> QED
  BY <1>1, <1>2, <1>3, <1>4, <1>5, <1>6 DEF Next, TraceStep

\* A step that changes neither the section nor what a thread is in it for.
LEMMA TimesKept ==
  ASSUME ReleaseInv, UNCHANGED <<section, owning_thread_ref_, aborted>>,
         \A t \in Threads, l \in Locks : Times(t, l)' = Times(t, l),
         \A t \in Threads :
           /\ pc'[t] \in {"out", "enter", "leave"}
           /\ pc'[t] = "enter" => Resolves(t, using[t])'
           /\ pc'[t] = "leave" => at'[t] # "lookup"
  PROVE  ReleaseInv'
BY DEF ReleaseInv

\* Where other threads stand for the lock depends on them alone.
LEMMA OthersTimes ==
  ASSUME NEW u \in Threads,
         pc'[u] = pc[u], using'[u] = using[u], at'[u] = at[u], seen'[u] = seen[u],
         interrupted'[u] = interrupted[u]
  PROVE  \A l \in Locks : Times(u, l)' = Times(u, l) /\ (Resolves(u, l)' <=> Resolves(u, l))
BY DEF Times, Resolves

\* What a call of a lock changes of its thread in a release build.
LEMMA ReleaseCall ==
  ASSUME BaseLockTypeOK, NEW t \in Threads, NEW l \in Locks, NEW to \in {"enter", "leave"},
         NEW legal, Calls(t, l, to, legal)
  PROVE  /\ pc[t] = "out" /\ pc'[t] = to /\ using'[t] = l /\ aborted' = aborted
         /\ \A u \in Threads \ {t} : pc'[u] = pc[u] /\ using'[u] = using[u]
BY DEF Calls, Goto, Uses, BaseLockTypeOK

\* In a release build the section counts the lookups of its owner.
LEMMA ReleaseStep ==
  NDEBUG /\ BaseLockTypeOK /\ UsingInv /\ SymbolTypeOK /\ SeenInv /\ ScopeInv /\ ReleaseInv
    /\ [Next]_vars => ReleaseInv'
<1> SUFFICES ASSUME NDEBUG, BaseLockTypeOK, UsingInv, SymbolTypeOK, SeenInv, ScopeInv, ReleaseInv,
                    [Next]_vars
             PROVE  ReleaseInv'
  OBVIOUS
<1> USE SymbolAssumption, BaseLockAssumption
<1>1. ASSUME NEW t \in Threads, TestError(t) PROVE ReleaseInv'
  <2>1. /\ UNCHANGED <<raised, interrupted>> /\ at[t] = "testError" /\ pc[t] = "out"
        /\ \A u \in Threads \ {t} : at'[u] = at[u] /\ seen'[u] = seen[u]
    BY <1>1, TestErrorFacts
  <2>2. CASE at'[t] = "rawLine" /\ UNCHANGED lockVars
    <3>1. \A l \in Locks : Times(t, l)' = Times(t, l)
      BY <2>1, <2>2 DEF Times, Resolves, lockVars
    <3>2. \A u \in Threads \ {t}, l \in Locks : Times(u, l)' = Times(u, l) /\ (Resolves(u, l)' <=> Resolves(u, l))
      BY <2>1, <2>2, OthersTimes DEF lockVars
    <3>3. \A u \in Threads \ {t} : Resolves(u, using[u])' <=> Resolves(u, using[u])
      BY <2>1, <2>2 DEF Resolves, lockVars
    <3> QED
      BY <2>1, <2>2, <3>1, <3>2, <3>3, TimesKept DEF ReleaseInv, lockVars
  <2>3. ASSUME NEW l \in Threads, at'[t] = "lookup", seen'[t] = l, Acquire(t, l) PROVE ReleaseInv'
    <3>1. /\ pc'[t] = "enter" /\ using'[t] = l /\ UNCHANGED <<section, owning_thread_ref_, aborted>>
          /\ \A u \in Threads \ {t} : pc'[u] = pc[u] /\ using'[u] = using[u]
      <4> DEFINE legal == ~Holds(t, l)
      <4>1. Calls(t, l, "enter", legal) /\ UNCHANGED <<section, owning_thread_ref_>>
        BY <2>3 DEF Acquire
      <4> HIDE DEF legal
      <4> QED
        BY <4>1, ReleaseCall
    <3>2. \A k \in Locks : Times(t, k)' = Times(t, k)
      BY <2>1, <3>1 DEF Times, Resolves
    <3>3. \A u \in Threads \ {t}, k \in Locks : Times(u, k)' = Times(u, k)
      BY <2>1, <3>1, OthersTimes
    <3>4. \A u \in Threads \ {t} : Resolves(u, using[u])' <=> Resolves(u, using[u])
      BY <2>1, <3>1 DEF Resolves
    <3>5. Resolves(t, using[t])'
      BY <2>3, <3>1 DEF Resolves
    <3> QED
      BY <2>1, <3>1, <3>2, <3>3, <3>4, <3>5, TimesKept DEF ReleaseInv
  <2> QED
    BY <1>1, <2>2, <2>3, TestErrorFacts
<1>2. ASSUME NEW t \in Threads, Lookup(t) PROVE ReleaseInv'
  <2>1. /\ UNCHANGED <<raised, interrupted, seen>> /\ at[t] = "lookup" /\ pc[t] = "out"
        /\ \A u \in Threads \ {t} : at'[u] = at[u]
    BY <1>2, LookupFacts
  <2>2. CASE at'[t] = "lookup" /\ UNCHANGED lockVars
    <3>1. \A u \in Threads : UNCHANGED <<pc[u], using[u], at[u], seen[u], interrupted[u]>>
      BY <2>1, <2>2 DEF lockVars
    <3>2. \A u \in Threads, l \in Locks : Times(u, l)' = Times(u, l)
      BY <3>1, OthersTimes
    <3>3. \A u \in Threads : Resolves(u, using[u])' <=> Resolves(u, using[u])
      BY <3>1 DEF Resolves
    <3> QED
      BY <2>2, <3>1, <3>2, <3>3, TimesKept DEF ReleaseInv, lockVars
  <2>3. ASSUME NEW l \in Threads, seen[t] = l, at'[t] = "returned", EndAutoLock(t, l) PROVE ReleaseInv'
    <3>1. /\ pc'[t] = "leave" /\ using'[t] = l /\ UNCHANGED <<section, owning_thread_ref_, aborted>>
          /\ \A u \in Threads \ {t} : pc'[u] = pc[u] /\ using'[u] = using[u]
      BY <2>3, ReleaseCall DEF EndAutoLock, AssertFrom
    <3>2. \A k \in Locks : Times(t, k)' = Times(t, k)
      BY <2>1, <2>3, <3>1 DEF Times, Resolves
    <3>3. \A u \in Threads \ {t}, k \in Locks : Times(u, k)' = Times(u, k)
      BY <2>1, <3>1, OthersTimes
    <3>4. \A u \in Threads \ {t} : Resolves(u, using[u])' <=> Resolves(u, using[u])
      BY <2>1, <3>1 DEF Resolves
    <3> QED
      BY <2>1, <2>3, <3>1, <3>2, <3>3, <3>4, TimesKept DEF ReleaseInv
  <2>4. seen[t] \in Threads
    BY <2>1 DEF SeenInv
  <2> QED
    BY <1>2, <2>2, <2>3, <2>4, LookupFacts
<1>3. ASSUME NEW t \in Threads,
             \/ Walk(t) \/ TestContext(t) \/ Construct(t) \/ Store(t) \/ RawLine(t) \/ Return(t)
             \/ CallPrevious(t) \/ StoreFilter(t) \/ Route(t) \/ PrintTrace(t) \/ Enable(t)
      PROVE  ReleaseInv'
  <2>1. /\ UNCHANGED lockVars /\ UNCHANGED interrupted
        /\ pc[t] = "out" /\ at[t] # "lookup" /\ at'[t] # "lookup"
        /\ \A u \in Threads \ {t} : at'[u] = at[u] /\ seen'[u] = seen[u]
    BY <1>3, Unlocked
  <2>2. \A l \in Locks : Times(t, l)' = Times(t, l)
    BY <2>1 DEF Times, Resolves, lockVars
  <2>3. \A u \in Threads \ {t}, l \in Locks : Times(u, l)' = Times(u, l)
    BY <2>1, OthersTimes DEF lockVars
  <2>4. \A u \in Threads \ {t} : Resolves(u, using[u])' <=> Resolves(u, using[u])
    BY <2>1 DEF Resolves, lockVars
  <2> QED
    BY <2>1, <2>2, <2>3, <2>4, TimesKept DEF ReleaseInv, lockVars
<1>4. ASSUME NEW t \in Threads, Raise(t) PROVE ReleaseInv'
  <2>1. /\ UNCHANGED lockVars /\ seen' = seen /\ raised[t] = 0 /\ pc[t] = "out"
        /\ at'[t] \in {"walk", "ended"}
        /\ interrupted'[t] = IF at[t] = "lookup" THEN seen[t] ELSE NULL
        /\ \A u \in Threads \ {t} : at'[u] = at[u] /\ interrupted'[u] = interrupted[u]
    BY <1>4, RaiseFacts
  <2>2. interrupted[t] = NULL
    BY <2>1 DEF ScopeInv
  <2>3. \A l \in Locks : Times(t, l)' = Times(t, l)
    BY <2>1, <2>2 DEF Times, Resolves, lockVars
  <2>4. \A u \in Threads \ {t}, l \in Locks : Times(u, l)' = Times(u, l)
    BY <2>1, OthersTimes DEF lockVars
  <2>5. \A u \in Threads \ {t} : Resolves(u, using[u])' <=> Resolves(u, using[u])
    BY <2>1 DEF Resolves, lockVars
  <2> QED
    BY <2>1, <2>3, <2>4, <2>5, TimesKept DEF ReleaseInv, lockVars
<1>5. ASSUME NEW t \in Threads, Enter(t), UNCHANGED symbolVars PROVE ReleaseInv'
  <2> DEFINE l == using[t]
  <2>1. pc[t] = "enter" /\ l \in Locks /\ Resolves(t, l)
    BY <1>5 DEF Enter, Goto, UsingInv, BaseLockTypeOK, ReleaseInv
  <2> SUFFICES ASSUME NEW k \in Locks, l = k PROVE ReleaseInv'
    BY <2>1
  <2> HIDE DEF l
  <2>2. /\ pc' = [pc EXCEPT ![t] = "out"] /\ using' = [using EXCEPT ![t] = NULL]
        /\ section[k].owner \in {NULL, t}
        /\ section' = [section EXCEPT ![k] = [owner |-> t, count |-> section[k].count + 1]]
        /\ UNCHANGED <<owning_thread_ref_, aborted>>
    BY <1>5 DEF Enter, Goto, Uses, AfterEnter, Enterable, Entered, l, BaseLockTypeOK
  <2>3. UNCHANGED <<at, seen, interrupted>> /\ using[t] = k
    BY <1>5 DEF symbolVars, raisedVars, l
  <2>4. pc'[t] = "out" /\ using'[t] = NULL /\ \A u \in Threads \ {t} : pc'[u] = pc[u] /\ using'[u] = using[u]
    BY <2>2 DEF BaseLockTypeOK
  <2>5. Times(t, k)' = Times(t, k) + 1 /\ Times(t, k) \in Nat
    BY <2>1, <2>3, <2>4 DEF Times, Resolves, l
  <2>6. \A j \in Locks \ {k} : Times(t, j)' = Times(t, j)
    BY <2>1, <2>3, <2>4 DEF Times, Resolves, l
  <2>7. \A u \in Threads \ {t}, j \in Locks : Times(u, j)' = Times(u, j)
    BY <2>3, <2>4, OthersTimes
  <2>8. section[k].owner = t => section[k].count = Times(t, k)
    BY DEF ReleaseInv
  <2>9. section[k].owner = NULL => section[k].count = 0 /\ Times(t, k) = 0
    BY <2>5 DEF BaseLockTypeOK, ReleaseInv
  <2>10. \A u \in Threads \ {t} : ~(Times(u, k) > 0)
    BY <2>2 DEF ReleaseInv
  <2>11. /\ section'[k].owner = t /\ section'[k].count = Times(t, k)' /\ Times(t, k)' > 0
         /\ \A j \in Locks \ {k} : section'[j] = section[j]
    BY <2>2, <2>5, <2>8, <2>9 DEF BaseLockTypeOK
  <2>12. \A u \in Threads, j \in Locks :
           /\ section'[j].owner = u <=> Times(u, j)' > 0
           /\ section'[j].owner = u => section'[j].count = Times(u, j)'
           /\ owning_thread_ref_'[j] # u
    BY <2>2, <2>6, <2>7, <2>10, <2>11 DEF ReleaseInv
  <2>13. \A u \in Threads : pc'[u] = "enter" => Resolves(u, using[u])'
    BY <2>3, <2>4 DEF ReleaseInv, Resolves
  <2> QED
    BY <2>2, <2>3, <2>4, <2>12, <2>13 DEF ReleaseInv
<1>6. ASSUME NEW t \in Threads, Leave(t), UNCHANGED symbolVars PROVE ReleaseInv'
  <2> DEFINE l == using[t]
  <2>1. pc[t] = "leave" /\ l \in Locks /\ at[t] # "lookup"
    BY <1>6 DEF Leave, Goto, UsingInv, BaseLockTypeOK, ReleaseInv
  <2> SUFFICES ASSUME NEW k \in Locks, l = k PROVE ReleaseInv'
    BY <2>1
  <2> HIDE DEF l
  <2>2. UNCHANGED <<at, seen, interrupted>> /\ using[t] = k
    BY <1>6 DEF symbolVars, raisedVars, l
  <2>3. Times(t, k) \in {1, 2}
    BY <2>1, <2>2 DEF Times
  <2>4. section[k].owner = t /\ section[k].count = Times(t, k)
    BY <2>3 DEF ReleaseInv
  <2>5. /\ pc' = [pc EXCEPT ![t] = "out"] /\ using' = [using EXCEPT ![t] = NULL]
        /\ section' = [section EXCEPT ![k] =
             IF section[k].count = 1 THEN [owner |-> NULL, count |-> 0]
             ELSE [section[k] EXCEPT !.count = @ - 1]]
        /\ UNCHANGED <<owning_thread_ref_, aborted>>
    BY <1>6, <2>2, <2>4 DEF Leave, Goto, Uses, BaseLockTypeOK
  <2>6. pc'[t] = "out" /\ using'[t] = NULL /\ \A u \in Threads \ {t} : pc'[u] = pc[u] /\ using'[u] = using[u]
    BY <2>5 DEF BaseLockTypeOK
  <2>7. Times(t, k)' = Times(t, k) - 1
    BY <2>1, <2>2, <2>6 DEF Times, Resolves
  <2>8. \A j \in Locks \ {k} : Times(t, j)' = Times(t, j)
    BY <2>1, <2>2, <2>6 DEF Times, Resolves
  <2>9. \A u \in Threads \ {t}, j \in Locks : Times(u, j)' = Times(u, j)
    BY <2>2, <2>6, OthersTimes
  <2>10. \A u \in Threads \ {t} : ~(Times(u, k) > 0)
    BY <2>4 DEF ReleaseInv
  <2>11. /\ \A j \in Locks \ {k} : section'[j] = section[j]
         /\ section'[k].owner = t <=> Times(t, k)' > 0
         /\ section'[k].owner \in {NULL, t}
         /\ section'[k].owner = t => section'[k].count = Times(t, k)'
    BY <2>3, <2>4, <2>5, <2>7 DEF BaseLockTypeOK
  <2>12. \A u \in Threads, j \in Locks :
           /\ section'[j].owner = u <=> Times(u, j)' > 0
           /\ section'[j].owner = u => section'[j].count = Times(u, j)'
           /\ owning_thread_ref_'[j] # u
    BY <2>5, <2>8, <2>9, <2>10, <2>11 DEF ReleaseInv
  <2>13. \A u \in Threads : pc'[u] = "enter" => Resolves(u, using[u])'
    BY <2>2, <2>6 DEF ReleaseInv, Resolves
  <2> QED
    BY <2>2, <2>5, <2>6, <2>12, <2>13 DEF ReleaseInv
<1>7. ASSUME NEW t \in Threads, LockCall(t) PROVE ReleaseInv'
  <2>1. pc[t] \in {"out", "enter", "leave"}
    BY DEF ReleaseInv
  <2> QED
    BY <1>5, <1>6, <1>7, <2>1 DEF LockCall, LockStep, AssertUnheld, Mark, AssertAcquired, AssertHeld,
      Unmark, Goto, AssertRecord
<1>8. CASE UNCHANGED vars
  <2>1. \A u \in Threads : UNCHANGED <<pc[u], using[u], at[u], seen[u], interrupted[u]>>
    BY <1>8 DEF vars, symbolVars, raisedVars, lockVars
  <2>2. \A u \in Threads, l \in Locks : Times(u, l)' = Times(u, l)
    BY <2>1, OthersTimes
  <2>3. \A u \in Threads : Resolves(u, using[u])' <=> Resolves(u, using[u])
    BY <2>1 DEF Resolves
  <2> QED
    BY <1>8, <2>1, <2>2, <2>3, TimesKept DEF ReleaseInv, vars, lockVars
<1> QED
  BY <1>1, <1>2, <1>3, <1>4, <1>7, <1>8 DEF Next, TraceStep

(***************************************************************************)
(* Standard output.                                                        *)
(***************************************************************************)

\* Only two steps of a trace touch the streams.
LEMMA StreamsMove ==
  ASSUME [Next]_vars
  PROVE  UNCHANGED stdioVars \/ RouteStdioToConsole \/ RouteStep
BY DEF Next, TraceStep, LockCall, Walk, TestContext, Construct, Store, TestError, RawLine, Lookup,
  Return, CallPrevious, Raise, CallFilter, StoreFilter, Route, PrintTrace, Enable, symbolVars, vars

\* Nothing is routed once a stream that was passed on has been seen.
LEMMA RouteInvStep == StdioTypeOK /\ RouteInv /\ [Next]_vars => RouteInv'
<1> SUFFICES ASSUME StdioTypeOK, RouteInv, [Next]_vars PROVE RouteInv'
  OBVIOUS
<1>1. CASE UNCHANGED stdioVars
  BY <1>1 DEF stdioVars, RouteInv
<1>2. CASE RouteStdioToConsole
  BY <1>2 DEF RouteStdioToConsole, RouteInv
<1>3. CASE TestStreams \/ Attach
  BY <1>3 DEF TestStreams, Attach, RouteInv, NoFile
<1>4. ASSUME NEW s \in Streams, NEW next \in {"stderr", "done"}, Reopen(s, next) PROVE RouteInv'
  BY <1>4 DEF Reopen, RouteInv, Streams, StdioTypeOK
<1> QED
  BY <1>1, <1>2, <1>3, <1>4, StreamsMove DEF RouteStep, Streams

\* What the parent passed on as stdout or stderr is left alone, with the other
\* stream, the descriptors and the console.
LEMMA InheritedStep ==
  RouteInv /\ [Next]_vars =>
    [(\E s \in Streams : stream[s] = "pipe") => UNCHANGED <<stream, fd, console>>]_stdioVars
<1> SUFFICES ASSUME RouteInv, RouteStep, NEW s \in Streams, stream[s] = "pipe"
             PROVE  UNCHANGED <<stream, fd, console>>
  BY StreamsMove DEF RouteStdioToConsole
<1>1. route \notin {"attach", "stdout", "stderr"}
  BY DEF RouteInv
<1> QED
  BY <1>1 DEF RouteStep, TestStreams, Attach, Reopen

(***************************************************************************)
(* The singleton.                                                          *)
(***************************************************************************)

\* The steps that have nothing to do with the singleton.
LEMMA Apart ==
  ASSUME SymbolTypeOK, NEW t \in Threads,
         \/ Walk(t) \/ RawLine(t) \/ Lookup(t) \/ Return(t) \/ CallPrevious(t) \/ StoreFilter(t)
         \/ Route(t) \/ PrintTrace(t) \/ Raise(t) \/ Enable(t)
  PROVE  /\ UNCHANGED contextVars
         /\ at'[t] \notin {"construct", "store", "testError"}
         /\ at'[t] = "lookup" => at[t] = "lookup" /\ seen'[t] = seen[t]
         /\ at[t] = "idle" /\ at'[t] # "idle" => Exists(t) \/ t = Main
         /\ \A u \in Threads \ {t} : at'[u] = at[u] /\ seen'[u] = seen[u]
<1>0. at \in [Threads -> Places] /\ seen \in [Threads -> Threads \cup Filters]
  BY DEF SymbolTypeOK, Places
<1>1. UNCHANGED contextVars
  BY DEF Walk, RawLine, Lookup, Return, CallPrevious, Raise, CallFilter, StoreFilter, Route,
    PrintTrace, Enable
<1>2. \A u \in Threads \ {t} : seen'[u] = seen[u]
  BY <1>0 DEF Walk, RawLine, Lookup, Return, CallPrevious, Raise, CallFilter, StoreFilter, Route,
    PrintTrace, Enable
<1>3. PICK from \in Places, to \in Places \ {"construct", "store", "testError"} :
        /\ Step(t, from, to)
        /\ to = "lookup" => from = "lookup" /\ seen' = seen
        /\ from = "idle" /\ to # "idle" => Exists(t) \/ t = Main
  <2>1. CASE Walk(t)
    BY <2>1 DEF Walk, Places
  <2>2. CASE RawLine(t)
    BY <2>2 DEF RawLine, Places
  <2>3. CASE Lookup(t)
    BY <2>3 DEF Lookup, Places
  <2>4. CASE Return(t) \/ StoreFilter(t) \/ Route(t)
    BY <2>4 DEF Return, StoreFilter, Route, Places
  <2>5. CASE PrintTrace(t)
    BY <2>5 DEF PrintTrace, Places
  <2>6. CASE Enable(t)
    BY <2>6 DEF Enable, Places
  <2>7. CASE CallPrevious(t)
    BY <2>7 DEF CallPrevious, CallFilter, Places
  <2>8. CASE Raise(t)
    BY <1>0, <2>8 DEF Raise, CallFilter, Places
  <2> QED
    BY <2>1, <2>2, <2>3, <2>4, <2>5, <2>6, <2>7, <2>8
<1> QED
  BY <1>0, <1>1, <1>2, <1>3, Moves

\* A context is used only if SymInitialize has not failed for it.
LEMMA InitStep == SymbolTypeOK /\ SeenInv /\ InitInv /\ [Next]_vars => InitInv'
<1> SUFFICES ASSUME SymbolTypeOK, SeenInv, InitInv, [Next]_vars PROVE InitInv'
  OBVIOUS
<1>0. /\ at \in [Threads -> Places] /\ DOMAIN seen = Threads /\ DOMAIN init_error_ = Threads
      /\ symbol_context_ \in Threads \cup {NULL}
  BY DEF SymbolTypeOK, Places
<1>1. ASSUME NEW t \in Threads,
             \/ Walk(t) \/ RawLine(t) \/ Lookup(t) \/ Return(t) \/ CallPrevious(t) \/ StoreFilter(t)
             \/ Route(t) \/ PrintTrace(t) \/ Raise(t) \/ Enable(t)
      PROVE  InitInv'
  <2>1. /\ UNCHANGED <<symbol_context_, init_error_, symInitialized>>
        /\ at'[t] \notin {"store", "testError"}
        /\ at'[t] = "lookup" => at[t] = "lookup"
        /\ \A u \in Threads \ {t} : at'[u] = at[u] /\ seen'[u] = seen[u]
    BY <1>1, Apart DEF contextVars
  <2> QED
    BY <2>1 DEF InitInv
<1>2. ASSUME NEW t \in Threads, TestContext(t) PROVE InitInv'
  <2>1. /\ UNCHANGED <<symbol_context_, init_error_, symInitialized>>
        /\ seen' = [seen EXCEPT ![t] = symbol_context_]
        /\ at'[t] = IF symbol_context_ = NULL THEN "construct" ELSE "testError"
        /\ \A u \in Threads \ {t} : at'[u] = at[u]
    BY <1>0, <1>2, Moves DEF TestContext, contextVars
  <2>2. seen'[t] = symbol_context_ /\ \A u \in Threads \ {t} : seen'[u] = seen[u]
    BY <1>0, <2>1
  <2> QED
    BY <2>1, <2>2 DEF InitInv
<1>3. ASSUME NEW t \in Threads, Construct(t) PROVE InitInv'
  <2>1. /\ UNCHANGED <<symbol_context_, seen>>
        /\ at[t] = "construct" /\ at'[t] = "store" /\ \A u \in Threads \ {t} : at'[u] = at[u]
    BY <1>0, <1>3, Moves DEF Construct
  <2>2. PICK fails : /\ symInitialized' = (symInitialized \/ ~fails)
                     /\ init_error_' = [init_error_ EXCEPT ![t] = fails]
    BY <1>3 DEF Construct
  <2>3. /\ symInitialized => symInitialized'
        /\ init_error_'[t] \/ symInitialized'
        /\ \A u \in Threads \ {t} : init_error_'[u] <=> init_error_[u]
    BY <1>0, <2>2
  <2>4. \A u \in Threads : init_error_[u] \/ symInitialized => init_error_'[u] \/ symInitialized'
    BY <2>3
  <2>5. \A u \in Threads : at[u] = "testError" => seen[u] \in Threads
    BY DEF SeenInv
  <2> QED
    BY <1>0, <2>1, <2>3, <2>4, <2>5 DEF InitInv
<1>4. ASSUME NEW t \in Threads, Store(t) PROVE InitInv'
  <2>1. /\ UNCHANGED <<init_error_, symInitialized>>
        /\ symbol_context_' = t /\ seen' = [seen EXCEPT ![t] = t]
        /\ at[t] = "store" /\ at'[t] = "testError" /\ \A u \in Threads \ {t} : at'[u] = at[u]
    BY <1>0, <1>4, Moves DEF Store
  <2>2. seen'[t] = t /\ \A u \in Threads \ {t} : seen'[u] = seen[u]
    BY <1>0, <2>1
  <2> QED
    BY <2>1, <2>2 DEF InitInv
<1>5. ASSUME NEW t \in Threads, TestError(t) PROVE InitInv'
  <2>1. /\ UNCHANGED <<symbol_context_, init_error_, symInitialized>> /\ at[t] = "testError"
        /\ \A u \in Threads \ {t} : at'[u] = at[u] /\ seen'[u] = seen[u]
        /\ \/ at'[t] = "rawLine"
           \/ /\ at'[t] = "lookup"
              /\ \E context \in {seen[t], symbol_context_} : ~init_error_[context]
    BY <1>5, TestErrorFacts DEF contextVars
  <2>2. at'[t] = "lookup" => symInitialized
    BY <2>1 DEF InitInv, SeenInv
  <2> QED
    BY <2>1, <2>2 DEF InitInv
<1>6. CASE UNCHANGED symbolVars
  BY <1>6 DEF symbolVars, contextVars, InitInv
<1> QED
  BY <1>1, <1>2, <1>3, <1>4, <1>5, <1>6 DEF Next, TraceStep, LockCall, vars

\* As long as main creates the singleton before there are other threads, it is
\* created once, and every thread that looks frames up uses its lock.
LEMMA SingletonStep ==
  ContextFirst /\ SymbolTypeOK /\ SeenInv /\ SingletonInv /\ [Next]_vars => SingletonInv'
<1> SUFFICES ASSUME ContextFirst, SymbolTypeOK, SeenInv, SingletonInv, [Next]_vars
             PROVE  SingletonInv'
  OBVIOUS
<1>0. /\ at \in [Threads -> Places] /\ DOMAIN seen = Threads
      /\ Main \in Threads /\ NULL \notin Threads
  BY SymbolAssumption, BaseLockAssumption DEF SymbolTypeOK, Places
<1>1. ASSUME NEW t \in Threads,
             \/ Walk(t) \/ RawLine(t) \/ Lookup(t) \/ Return(t) \/ CallPrevious(t) \/ StoreFilter(t)
             \/ Route(t) \/ PrintTrace(t) \/ Raise(t) \/ Enable(t)
      PROVE  SingletonInv'
  <2>1. /\ symbol_context_' = symbol_context_
        /\ at'[t] \notin {"construct", "store", "testError"}
        /\ at'[t] = "lookup" => at[t] = "lookup" /\ seen'[t] = seen[t]
        /\ at[t] = "idle" /\ at'[t] # "idle" => Exists(t) \/ t = Main
        /\ \A u \in Threads \ {t} : at'[u] = at[u] /\ seen'[u] = seen[u]
    BY <1>1, Apart DEF contextVars
  <2>2. t # Main /\ at'[t] # "idle" => symbol_context_ = Main
    BY <2>1 DEF SingletonInv, Exists
  <2> QED
    BY <2>1, <2>2 DEF SingletonInv
<1>2. ASSUME NEW t \in Threads, TestContext(t) PROVE SingletonInv'
  <2>1. /\ symbol_context_' = symbol_context_
        /\ seen' = [seen EXCEPT ![t] = symbol_context_]
        /\ at[t] = "testContext"
        /\ at'[t] = IF symbol_context_ = NULL THEN "construct" ELSE "testError"
        /\ \A u \in Threads \ {t} : at'[u] = at[u]
    BY <1>0, <1>2, Moves DEF TestContext, contextVars
  <2>2. seen'[t] = symbol_context_ /\ \A u \in Threads \ {t} : seen'[u] = seen[u]
    BY <1>0, <2>1
  <2> QED
    BY <1>0, <2>1, <2>2 DEF SingletonInv
<1>3. ASSUME NEW t \in Threads, Construct(t) PROVE SingletonInv'
  <2>1. /\ UNCHANGED <<symbol_context_, seen>>
        /\ at[t] = "construct" /\ at'[t] = "store" /\ \A u \in Threads \ {t} : at'[u] = at[u]
    BY <1>0, <1>3, Moves DEF Construct
  <2> QED
    BY <1>0, <2>1 DEF SingletonInv
<1>4. ASSUME NEW t \in Threads, Store(t) PROVE SingletonInv'
  <2>1. /\ symbol_context_' = t /\ seen' = [seen EXCEPT ![t] = t]
        /\ at[t] = "store" /\ at'[t] = "testError" /\ \A u \in Threads \ {t} : at'[u] = at[u]
    BY <1>0, <1>4, Moves DEF Store
  <2>2. seen'[t] = t /\ \A u \in Threads \ {t} : seen'[u] = seen[u]
    BY <1>0, <2>1
  <2>3. t = Main /\ \A u \in Threads \ {t} : at[u] = "idle"
    BY <1>0, <2>1 DEF SingletonInv
  <2> QED
    BY <2>1, <2>2, <2>3 DEF SingletonInv
<1>5. ASSUME NEW t \in Threads, TestError(t) PROVE SingletonInv'
  <2>1. /\ symbol_context_' = symbol_context_ /\ at[t] = "testError"
        /\ \A u \in Threads \ {t} : at'[u] = at[u] /\ seen'[u] = seen[u]
        /\ \/ at'[t] = "rawLine"
           \/ at'[t] = "lookup" /\ seen'[t] \in {seen[t], symbol_context_}
    BY <1>5, TestErrorFacts DEF contextVars
  <2>2. seen[t] = Main /\ symbol_context_ = Main
    BY <2>1 DEF SingletonInv, SeenInv
  <2> QED
    BY <2>1, <2>2 DEF SingletonInv
<1>6. CASE UNCHANGED symbolVars
  BY <1>6 DEF symbolVars, contextVars, SingletonInv
<1> QED
  BY <1>1, <1>2, <1>3, <1>4, <1>5, <1>6 DEF Next, TraceStep, LockCall, vars

(***************************************************************************)
(* Exceptions.                                                             *)
(***************************************************************************)

\* The steps that have nothing to do with exceptions.
LEMMA NotRaising ==
  ASSUME SymbolTypeOK, NEW t \in Threads,
         \/ Walk(t) \/ TestContext(t) \/ Construct(t) \/ Store(t) \/ TestError(t) \/ RawLine(t)
         \/ Lookup(t) \/ PrintTrace(t)
  PROVE  /\ UNCHANGED <<raised, filterVars, enables>> /\ process = "running"
         /\ at'[t] \notin {"idle", "storeFilter", "route"}
         /\ \A u \in Threads \ {t} : at'[u] = at[u] /\ seen'[u] = seen[u]
<1>0. at \in [Threads -> Places] /\ seen \in [Threads -> Threads \cup Filters]
  BY DEF SymbolTypeOK, Places
<1>1. UNCHANGED <<raised, filterVars, enables>>
  BY DEF Walk, TestContext, Construct, Store, TestError, RawLine, Lookup, PrintTrace, countVars,
    raisedVars
<1>2. \A u \in Threads \ {t} : seen'[u] = seen[u]
  BY <1>0 DEF Walk, TestContext, Construct, Store, TestError, RawLine, Lookup, PrintTrace
<1>3. PICK from \in Places, to \in Places \ {"idle", "storeFilter", "route"} : Step(t, from, to)
  <2>1. CASE Walk(t) \/ TestContext(t) \/ Construct(t) \/ Store(t)
    BY <2>1 DEF Walk, TestContext, Construct, Store, Places
  <2>2. CASE TestError(t) \/ RawLine(t) \/ Lookup(t) \/ PrintTrace(t)
    BY <2>2 DEF TestError, RawLine, Lookup, PrintTrace, Places
  <2> QED
    BY <2>1, <2>2
<1> QED
  BY <1>0, <1>1, <1>2, <1>3, Moves

\* A dump is called for an exception once, and calls the filter that was there
\* before it.
LEMMA FilterStep ==
  SymbolTypeOK /\ (enables <= 1 => FilterInv) /\ [Next]_vars => (enables' <= 1 => FilterInv')
<1> SUFFICES ASSUME SymbolTypeOK, enables <= 1 => FilterInv, [Next]_vars, enables' <= 1
             PROVE  FilterInv'
  OBVIOUS
<1>0. /\ at \in [Threads -> Places] /\ raised \in [Threads -> Nat] /\ DOMAIN seen = Threads
      /\ enables \in Nat
      /\ NULL # "dump"
  BY SymbolAssumption DEF SymbolTypeOK, Places
<1>1. enables <= 1
  <2>1. enables' = enables \/ enables' = enables + 1
    BY DEF Next, TraceStep, LockCall, Walk, TestContext, Construct, Store, TestError, RawLine,
      Lookup, Return, CallPrevious, Raise, CallFilter, StoreFilter, Route, PrintTrace, Enable,
      symbolVars, countVars, vars
  <2> QED
    BY <1>0, <2>1
<1>2. FilterInv
  BY <1>1
<1>3. ASSUME NEW t \in Threads,
             \/ Walk(t) \/ TestContext(t) \/ Construct(t) \/ Store(t) \/ TestError(t) \/ RawLine(t)
             \/ Lookup(t) \/ PrintTrace(t)
      PROVE  FilterInv'
  <2>1. /\ UNCHANGED <<raised, filter, g_previous_filter, enables>> /\ process = "running"
        /\ at'[t] \notin {"idle", "storeFilter", "route"}
        /\ \A u \in Threads \ {t} : at'[u] = at[u] /\ seen'[u] = seen[u]
    BY <1>3, NotRaising DEF filterVars
  <2> QED
    BY <1>2, <2>1 DEF FilterInv, FiltersOnce
<1>4. ASSUME NEW t \in Threads, Return(t) PROVE FilterInv'
  <2>1. /\ UNCHANGED <<raised, filter, g_previous_filter, enables, seen, process>>
        /\ at'[t] = IF raised[t] = 0 THEN "idle" ELSE "callPrevious"
        /\ \A u \in Threads \ {t} : at'[u] = at[u]
    BY <1>0, <1>4, Moves DEF Return, filterVars, countVars, raisedVars
  <2> QED
    BY <1>2, <2>1 DEF FilterInv, FiltersOnce
<1>5. ASSUME NEW t \in Threads, NEW f, NEW from, CallFilter(t, f, from),
             raised[t] # 0 => f # "dump"
      PROVE  FilterInv'
  <2>1. /\ UNCHANGED <<filter, g_previous_filter, enables, seen>>
        /\ raised' = [raised EXCEPT ![t] = @ + 1]
    BY <1>5 DEF CallFilter, filterVars, countVars
  <2>2. raised'[t] = raised[t] + 1 /\ \A u \in Threads \ {t} : raised'[u] = raised[u]
    BY <1>0, <2>1
  <2>3. CASE f = "dump"
    <3>1. /\ process = "running" /\ process' = process
          /\ at'[t] = "walk" /\ \A u \in Threads \ {t} : at'[u] = at[u]
      BY <1>0, <1>5, <2>3, Moves DEF CallFilter
    <3> QED
      BY <1>0, <1>2, <1>5, <2>1, <2>2, <2>3, <3>1 DEF FilterInv, FiltersOnce
  <2>4. CASE f # "dump"
    <3>1. /\ process = "running" /\ process' = "exception"
          /\ at'[t] = "ended" /\ \A u \in Threads \ {t} : at'[u] = at[u]
      BY <1>0, <1>5, <2>4, Moves DEF CallFilter
    <3> QED
      BY <1>0, <1>2, <2>1, <2>2, <3>1 DEF FilterInv, FiltersOnce
  <2> QED
    BY <2>3, <2>4
<1>6. ASSUME NEW t \in Threads, CallPrevious(t) \/ Raise(t) PROVE FilterInv'
  <2>1. g_previous_filter # "dump"
    BY <1>2 DEF FilterInv
  <2> QED
    BY <1>5, <1>6, <2>1 DEF CallPrevious, Raise
<1>7. ASSUME NEW t \in Threads, Enable(t) PROVE FilterInv'
  <2>1. /\ UNCHANGED <<raised, g_previous_filter, process>>
        /\ seen' = [seen EXCEPT ![t] = filter] /\ enables' = enables + 1
        /\ at[t] = "idle" /\ at'[t] = "storeFilter" /\ process = "running"
        /\ \A u \in Threads \ {t} : at'[u] = at[u]
    BY <1>0, <1>7, Moves DEF Enable, raisedVars
  <2>2. seen'[t] = filter /\ \A u \in Threads \ {t} : seen'[u] = seen[u]
    BY <1>0, <2>1
  <2>3. enables = 0 /\ enables' = 1
    BY <1>0, <1>1, <2>1
  <2> QED
    BY <1>2, <2>1, <2>2, <2>3 DEF FilterInv, FiltersOnce
<1>8. ASSUME NEW t \in Threads, StoreFilter(t) PROVE FilterInv'
  <2>1. /\ UNCHANGED <<raised, filter, enables, process>>
        /\ g_previous_filter' = seen[t] /\ seen' = [seen EXCEPT ![t] = NULL]
        /\ at[t] = "storeFilter" /\ at'[t] = "route" /\ process = "running"
        /\ \A u \in Threads \ {t} : at'[u] = at[u]
    BY <1>0, <1>8, Moves DEF StoreFilter, countVars, raisedVars
  <2>2. seen'[t] = NULL /\ \A u \in Threads \ {t} : seen'[u] = seen[u]
    BY <1>0, <2>1
  <2> QED
    BY <1>2, <2>1, <2>2 DEF FilterInv, FiltersOnce
<1>9. ASSUME NEW t \in Threads, Route(t) PROVE FilterInv'
  <2>1. /\ UNCHANGED <<raised, filter, g_previous_filter, enables, seen>>
        /\ at[t] = "route" /\ at'[t] \in {"idle", "route"} /\ process = "running"
        /\ \A u \in Threads \ {t} : at'[u] = at[u]
    BY <1>0, <1>9, Moves DEF Route, filterVars, countVars, raisedVars
  <2> QED
    BY <1>2, <2>1 DEF FilterInv, FiltersOnce
<1>10. CASE UNCHANGED symbolVars
  BY <1>2, <1>10 DEF symbolVars, raisedVars, filterVars, countVars, FilterInv, FiltersOnce
<1> QED
  BY <1>3, <1>4, <1>6, <1>7, <1>8, <1>9, <1>10 DEF Next, TraceStep, LockCall, vars

(***************************************************************************)
(* Theorems.                                                               *)
(***************************************************************************)

\* Before the first trace there is no context, filter or exception.
LEMMA SymbolInvInit == SymbolInit => SymbolInv
<1> SUFFICES ASSUME SymbolInit PROVE SymbolInv
  OBVIOUS
<1> USE SymbolAssumption, StdioAssumption, BaseLockAssumption DEF SymbolInit
<1>1. StdioTypeOK /\ RouteInv
  <2>1. /\ route = "done" /\ stream \in [Streams -> {"none", "pipe"}] /\ fd = stream
        /\ console \in BOOLEAN
    BY DEF StdioInit
  <2> QED
    BY <2>1 DEF StdioTypeOK, RouteInv, NoFile
<1>2. init_error_ \in [Threads -> BOOLEAN] /\ symInitialized \in BOOLEAN
  BY Zenon
<1>3. filter \in Filters /\ g_previous_filter \in Filters /\ NULL # "dump" /\ filter # "dump"
  BY DEF Filters
<1>4. SymbolTypeOK
  BY <1>1, <1>2, <1>3 DEF SymbolTypeOK, Filters
<1>5. SeenInv /\ InitInv
  BY DEF SeenInv, InitInv
<1>6. ScopeInv
  BY DEF ScopeInv, Resolves, BaseLockInit
<1>9. ReleaseInv
  BY DEF ReleaseInv, Times, Resolves, BaseLockInit
<1>7. SingletonInv
  BY DEF SingletonInv
<1>8. FilterInv
  BY <1>3 DEF FilterInv, FiltersOnce
<1> QED
  BY <1>1, <1>4, <1>5, <1>6, <1>7, <1>8, <1>9 DEF SymbolInv

\* SymbolInv holds of every trace and dump, however many threads print: it is
\* inductive, over the types of the lock.
THEOREM SymbolInvariant == Spec => []SymbolInv
<1>1. BaseLockTypeOK /\ UsingInv /\ SymbolInv /\ [Next]_vars => SymbolInv'
  <2> SUFFICES ASSUME BaseLockTypeOK, UsingInv, SymbolInv, [Next]_vars PROVE SymbolInv'
    OBVIOUS
  <2>1. SymbolTypeOK' /\ SeenInv'
    BY SymbolTypeStep DEF SymbolInv
  <2>2. ScopeInv' /\ InitInv'
    BY ScopeStep, InitStep DEF SymbolInv
  <2>3. RouteInv'
    BY RouteInvStep DEF SymbolInv, SymbolTypeOK
  <2>4. ContextFirst => SingletonInv'
    BY SingletonStep DEF SymbolInv
  <2>5. enables' <= 1 => FilterInv'
    BY FilterStep DEF SymbolInv
  <2>6. NDEBUG => ReleaseInv'
    BY ReleaseStep DEF SymbolInv
  <2> QED
    BY <2>1, <2>2, <2>3, <2>4, <2>5, <2>6 DEF SymbolInv
<1>2. BaseLockTypeOK /\ UsingInv /\ [Next]_vars => BaseLockTypeOK' /\ UsingInv'
  BY SymbolCallsLock, BaseLockTypeStep
<1>3. SymbolInit => BaseLockTypeOK /\ UsingInv
  BY BaseLockTypeInit DEF SymbolInit
<1> QED
  BY SymbolInvInit, <1>1, <1>2, <1>3, PTL DEF Spec

\* The variables keep their types.
THEOREM SymbolTypeCorrect == Spec => []SymbolTypeOK
<1>1. SymbolInv => SymbolTypeOK
  BY DEF SymbolInv
<1> QED
  BY <1>1, SymbolInvariant, PTL

\* In a debug build the lock of a context keeps what BaseLock promises, though the
\* dump of a thread that was interrupted calls it against its contract.
THEOREM SymbolLockInvariant == ~NDEBUG /\ Spec => []BaseLockInv
<1>1. ~NDEBUG => ContractKept
  BY DEF ContractKept
<1>2. ASSUME ~NDEBUG PROVE Spec => []BaseLockInv
  <2>1. ContractKept
    BY <1>1, <1>2
  <2> QED
    BY <2>1, SymbolUsesLock, BaseLockInvariant, PTL
<1> QED
  BY <1>2

\* An assertion of the lock fails only in the dump of a thread that had the lock at
\* the exception; in a release build it enters the section a second time.
THEOREM SymbolLockAssertion == Spec => [](aborted => \E t \in Threads : interrupted[t] # NULL)
<1> DEFINE Only == aborted => \E t \in Threads : interrupted[t] # NULL
<1>1. NDEBUG /\ SymbolInv => Only
  BY DEF SymbolInv, ReleaseInv
<1>2. BaseLockInv /\ SymbolInv => Only
  BY DEF SymbolInv, ScopeInv, BaseLockInv, NoFalseAlarm, BaseLockTypeOK
<1>3. CASE NDEBUG
  BY <1>1, <1>3, SymbolInvariant, PTL
<1>4. CASE ~NDEBUG
  BY <1>2, <1>4, SymbolInvariant, SymbolLockInvariant, PTL
<1> QED
  BY <1>3, <1>4

\* No frame is resolved before DbgHelp is initialised, even by threads that race
\* to create the singleton.
THEOREM SymbolInitBeforeLookup == Spec => []InitBeforeLookup
<1>1. SymbolInv => InitBeforeLookup
  BY DEF SymbolInv, InitInv, InitBeforeLookup, Looking
<1> QED
  BY <1>1, SymbolInvariant, PTL

\* A thread that executes no code of a lock is in the section of a context while it
\* resolves frames with it, or was interrupted in that; no other lock records it.
LEMMA OutSection ==
  ASSUME SymbolInv, ~NDEBUG => BaseLockInv, NEW t \in Threads, pc[t] = "out", NEW l \in Locks
  PROVE  /\ section[l].owner = t <=> Resolves(t, l) \/ interrupted[t] = l
         /\ owning_thread_ref_[l] = t => Resolves(t, l) \/ interrupted[t] = l
<1>1. CASE NDEBUG
  <2>1. section[l].owner = t <=> Times(t, l) > 0
    BY <1>1 DEF SymbolInv, ReleaseInv
  <2>2. Times(t, l) > 0 <=> Resolves(t, l) \/ interrupted[t] = l
    BY DEF Times
  <2>3. owning_thread_ref_[l] # t
    BY <1>1 DEF SymbolInv, ReleaseInv
  <2> QED
    BY <2>1, <2>2, <2>3
<1>2. CASE ~NDEBUG
  <2>1. /\ section[l].owner = t <=> Holds(t, l)
        /\ owning_thread_ref_[l] = t => Holds(t, l)
    <3>1. using[t] # l
      BY <1>2, BaseLockAssumption, SymbolAssumption DEF BaseLockInv, UsingInv
    <3> QED
      BY <1>2, <3>1 DEF BaseLockInv, SectionInv, InSection, Recorded
  <2>2. Holds(t, l) <=> Resolves(t, l) \/ interrupted[t] = l
    BY DEF SymbolInv, ScopeInv, Holds
  <2> QED
    BY <2>1, <2>2
<1> QED
  BY <1>1, <1>2

\* A thread that has left OutputTraceToStream has left its lock, unless an exception
\* took it out of there.
THEOREM SymbolDumpUnlocks == Spec => []DumpUnlocks
<1>1. ASSUME SymbolInv, ~NDEBUG => BaseLockInv PROVE DumpUnlocks
  <2> SUFFICES ASSUME NEW t \in Threads, NEW l \in Threads, Running, pc[t] = "out",
                      at[t] # "lookup", interrupted[t] # l
               PROVE  section[l].owner # t /\ owning_thread_ref_[l] # t
    BY DEF DumpUnlocks
  <2>1. ~Resolves(t, l)
    BY DEF Resolves
  <2> QED
    BY <1>1, <2>1, OutSection, SymbolAssumption
<1>2. SymbolInv /\ (~NDEBUG => BaseLockInv) => DumpUnlocks
  BY <1>1
<1>3. CASE NDEBUG
  BY <1>2, <1>3, SymbolInvariant, PTL
<1>4. CASE ~NDEBUG
  BY <1>2, <1>4, SymbolInvariant, SymbolLockInvariant, PTL
<1> QED
  BY <1>3, <1>4

\* Of two threads that print a resolved trace one waits, if main printed one
\* before it started the others.
THEOREM SymbolLookupsExclude == ContextFirst /\ Spec => []LookupsExclude
<1>1. ASSUME ContextFirst, SymbolInv, ~NDEBUG => BaseLockInv PROVE LookupsExclude
  <2> SUFFICES ASSUME NEW t \in Threads, NEW u \in Threads, Looking(t), Looking(u) PROVE t = u
    BY DEF LookupsExclude
  <2>1. ASSUME NEW v \in Threads, Looking(v) PROVE section[Main].owner = v
    <3>1. Resolves(v, Main) /\ pc[v] = "out"
      BY <1>1, <2>1 DEF Looking, Resolves, SymbolInv, SingletonInv
    <3> QED
      BY <1>1, <3>1, OutSection, SymbolAssumption
  <2> QED
    BY <2>1
<1>2. ContextFirst => (SymbolInv /\ (~NDEBUG => BaseLockInv) => LookupsExclude)
  BY <1>1
<1>3. ASSUME ContextFirst, NDEBUG PROVE Spec => []LookupsExclude
  BY <1>2, <1>3, SymbolInvariant, PTL
<1>4. ASSUME ContextFirst, ~NDEBUG PROVE Spec => []LookupsExclude
  BY <1>2, <1>4, SymbolInvariant, SymbolLockInvariant, PTL
<1> QED
  BY <1>3, <1>4

\* An exception runs every filter at most once, if the dump is enabled once.
THEOREM SymbolFiltersOnce == MaxEnables <= 1 /\ Spec => []FiltersOnce
<1>1. MaxEnables <= 1 => (SymbolInv => FiltersOnce)
  BY SymbolAssumption DEF SymbolInv, SymbolTypeOK, FilterInv
<1>2. ASSUME MaxEnables <= 1 PROVE Spec => []FiltersOnce
  BY <1>1, <1>2, SymbolInvariant, PTL
<1> QED
  BY <1>2

\* What the parent process passed on as stdout or stderr is never touched.
THEOREM SymbolInheritedKept == Spec => InheritedKept
<1>1. SymbolInv => RouteInv
  BY DEF SymbolInv
<1> QED
  BY <1>1, InheritedStep, SymbolInvariant, PTL DEF Spec, InheritedKept
=============================================================================
