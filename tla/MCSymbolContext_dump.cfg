SPECIFICATION FairSpec
CONSTANTS
  t1 = t1  t2 = t2  NULL = NULL
  Locks = {t1, t2}
  Threads = {t1, t2}
  NDEBUG = TRUE
  Misuses = TRUE
  MaxDepth = 2
  Main = t1
  ContextFirst = TRUE
  kMaxTraces = 1
  Depths = {2}
  MayRaise = {t1, t2}
  HostFilters = {"host", NULL}
  SymInitFails = TRUE
  StreamFails = TRUE
  Inherited = {"none", "pipe"}
  HasConsole = {TRUE, FALSE}
  MaxEnables = 1
  MaxPrints = 2
INVARIANTS
  SymbolTypeOK
  LookupsExclude
  InitBeforeLookup
  DumpUnlocks
  FiltersOnce
PROPERTIES
  InheritedKept
  DumpsEnd
\* The process may end, or have nothing left to print.
CHECK_DEADLOCK FALSE
