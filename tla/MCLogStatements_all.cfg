SPECIFICATION FairSpec
CONSTANTS
  e1 = e1  e2 = e2  e3 = e3  NULL = NULL
  a = a  cr = cr  lf = lf  nul = nul  mark = mark  ansi = ansi  other = other  bad = bad
  Ascii <- MCAscii
  Ansi = {ansi}
  Unicode = {other, bad}
  Nul = nul
  LF = lf
  Replacement = mark
  Invalid = bad
  Errors = {e1, e2, e3}
  SystemText <- MCSystemText
  CodeText <- MCCodeText
  BufferSize = 6
  Texts <- MCTexts
  Levels <- MCLevels
  Lengths = {0, 2}
  WriteFails = TRUE
  StreamKeepsError = TRUE
INVARIANTS
  StatementTypeOK
  LastErrorKept
  PlogReports
  WideTextKept
  EndsAsDocumented
  RawLineWhole
PROPERTIES
  StatementsReturn
\* A FATAL statement ends the process.
CHECK_DEADLOCK FALSE
