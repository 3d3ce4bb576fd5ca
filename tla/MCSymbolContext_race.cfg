SPECIFICATION Spec
CONSTANTS
  t1 = t1  t2 = t2  NULL = NULL
  Locks = {t1, t2}
  Threads = {t1, t2}
  NDEBUG = FALSE
  Misuses = TRUE
  MaxDepth = 2
  Main = t1
  ContextFirst = FALSE
  kMaxTraces = 2
  Depths = {0, 1, 3}
  MayRaise = {}
  HostFilters = {"host", NULL}
  SymInitFails = FALSE
  StreamFails = FALSE
  Inherited = {"pipe"}
  HasConsole = {TRUE}
  MaxEnables = 0
  MaxPrints = 2
INVARIANTS
  SymExclusive
\* The process may end, or have nothing left to print.
CHECK_DEADLOCK FALSE
