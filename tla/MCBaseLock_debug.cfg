SPECIFICATION FairBaseLockSpec
CONSTANTS
  l1 = l1  t1 = t1  t2 = t2  t3 = t3  NULL = NULL
  Locks = {l1}
  Threads = {t1, t2, t3}
  NDEBUG = FALSE
  Misuses = TRUE
  MaxDepth = 2
INVARIANTS
  BaseLockTypeOK
  MisuseCaught
  NoFalseAlarm
  RecordProtected
  ScopesBalanced
PROPERTIES
  Excludes
  Served
\* An assertion that fails ends the program, and a destroyed lock is not used.
CHECK_DEADLOCK FALSE
