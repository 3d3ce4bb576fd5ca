SPECIFICATION FairSpec
CONSTANTS
  p1 = p1  p2 = p2  m1 = m1  w1 = w1  m2 = m2  NULL = NULL
  log = log  other = other  default = default  fallback = fallback
  f1 = f1  f2 = f2  f3 = f3  f4 = f4
  Procs = {p1}
  Threads = {m1, w1}
  ProcOf <- MCProcOf1
  MainOf <- MCMainOf1
  Paths = {log, other, default, fallback}
  DefaultPath = default
  FallbackPath = fallback
  Files = {f1, f2, f3, f4}
  FileOf <- MCFileOf
  SettingsOf <- Redirect
  InitFirst = TRUE
  CloseCalls = TRUE
  CreateMutexFails = FALSE
  Severities = {3}
  MsgHandlers = {"observe", NULL}
  AssertHandlers = {}
  Dialogs = {TRUE}
  PathCallers = {}
  NDEBUG = FALSE
  SymInitFails = TRUE
  OpenFails = TRUE
  WriteFails = TRUE
  MayBeKilled = FALSE
  MaxMsgs = 2
  MaxInits = 2
INVARIANTS
  LoggingTypeOK
  HandleReady
PROPERTIES
  AtomicOutput
  CallsReturn
  FatalNeverReturns
\* The system stops when every process has ended, or no call is left to make.
CHECK_DEADLOCK FALSE
