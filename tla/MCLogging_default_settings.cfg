SPECIFICATION Spec
CONSTANTS
  p1 = p1  p2 = p2  m1 = m1  w1 = w1  m2 = m2  NULL = NULL
  log = log  other = other  default = default  fallback = fallback
  f1 = f1  f2 = f2  f3 = f3  f4 = f4
  Procs = {p1}
  Threads = {m1, w1}
  ProcOf <- MCProcOf1
  MainOf <- MCMainOf1
  Paths = {log, other, default, fallback}
  DefaultPath = default
  FallbackPath = fallback
  Files = {f1, f2, f3, f4}
  FileOf <- MCFileOf
  SettingsOf <- DefaultSettings
  InitFirst = TRUE
  CloseCalls = FALSE
  CreateMutexFails = FALSE
  Severities = {0}
  MsgHandlers = {}
  AssertHandlers = {}
  Dialogs = {}
  PathCallers = {}
  NDEBUG = TRUE
  SymInitFails = FALSE
  OpenFails = FALSE
  WriteFails = FALSE
  MayBeKilled = FALSE
  MaxMsgs = 2
  MaxInits = 1
INVARIANTS
  NoFault
\* The system stops when every process has ended, or no call is left to make.
CHECK_DEADLOCK FALSE
