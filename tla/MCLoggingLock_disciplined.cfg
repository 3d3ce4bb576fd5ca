SPECIFICATION LockSpec
CONSTANTS
  p1 = p1  p2 = p2  m1 = m1  w1 = w1  m2 = m2  w2 = w2
  log = log  other = other  default = default  NULL = NULL
  Procs = {p1, p2}
  Threads = {m1, w1, m2, w2}
  ProcOf <- MCProcOf
  MainOf <- MCMainOf
  Paths = {log, other, default}
  DefaultPath = default
  SettingsOf <- SharedSettings
  InitFirst = TRUE
  CloseCalls = TRUE
  CreateMutexFails = FALSE
INVARIANTS
  LockTypeOK
  MutualExclusion
  UnlockedOnExit
  HoldsWhatItReleases
  LockInv
  NoNullLock
\* The system stops when every process has ended.
CHECK_DEADLOCK FALSE
