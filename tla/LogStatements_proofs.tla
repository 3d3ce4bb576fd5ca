------------------------ MODULE LogStatements_proofs ------------------------
(***************************************************************************)
(* Proofs about LogStatements: for every build, text, level, length of a   *)
(* raw message and alphabet.                                               *)
(***************************************************************************)
EXTENDS LogStatements, TextConversion_proofs

(***************************************************************************)
(* The inductive invariant behind the properties above: what is known at   *)
(* every location of a statement.                                          *)
(***************************************************************************)
Class == Expansion(stmt).class
Fires(s) == Expansion(s).fires = "always" \/ (Expansion(s).fires = "holds" <=> s.cond)

InMessage == {"construct", "save", "init", "append", "emit", "restore", "destroy"}
InRaw == {"rawTest", "rawWrite", "rawNewline", "rawEnd"}

\* A statement that logs has a class that does, and its condition lets it.
ControlInv ==
  /\ pc # "idle" => stmt \in Statements
  /\ pc = "condition" => Class # "none"
  /\ pc \in {"getError"} \cup InMessage \cup InRaw => Fires(stmt)
  /\ pc \in {"getError"} \cup InMessage => Class \in {"LogMessage", "Win32ErrorLogMessage"}
  /\ pc \in {"getError", "append"} => Appends
  /\ pc \in InRaw => Class = "RawLog"

\* The error is remembered by the object that reports it before anything can
\* change it, by the one that restores it after stream_ has been constructed.
ErrorInv ==
  /\ pc \in {"getError", "construct"} => last_error = entry
  /\ StreamKeepsError =>
       /\ pc = "save" => last_error = entry
       /\ pc \in {"init", "append", "emit", "restore"} => saved = entry
       /\ pc = "destroy" => last_error = entry
  /\ pc \in {"init", "append", "emit", "restore"} => saved \in Errors
  /\ pc \in InMessage => err_ = IF Appends THEN entry ELSE NULL
  /\ pc \in {"test", "condition", "getError"} \cup InRaw => err_ = NULL

\* What the message consists of by now.
Appended == IF Appends THEN SystemErrorCodeToString(entry) ELSE <<>>
TextInv ==
  /\ pc \in {"append", "emit"} => streamed \in Texts
  /\ pc = "append" => stream_ = Streamed(streamed)
  /\ pc = "emit" => stream_ = Streamed(streamed) \o Appended
  /\ logged # NULL =>
       /\ pc \in {"restore", "destroy", "idle"} /\ stmt \in Statements
       /\ streamed \in Texts
       /\ logged.error = IF Appends THEN entry ELSE NULL
       /\ logged.text = Streamed(streamed) \o Appended
       /\ logged.dialog \in {<<>>, UTF8ToWide(logged.text)}

RawInv ==
  /\ pc \in {"test", "condition", "rawTest"} => written = 0
  /\ RawLineWhole

\* A FATAL message has ended the process when it would restore the last error.
EndInv ==
  /\ pc \in {"restore", "destroy"} /\ ~ended => Severity(stmt) # LOG_FATAL
  /\ EndsAsDocumented

StatementInv ==
  /\ StatementTypeOK /\ ControlInv /\ ErrorInv /\ TextInv /\ RawInv /\ EndInv
  /\ StreamKeepsError => LastErrorKept

(***************************************************************************)
(* The macros.                                                             *)
(***************************************************************************)
Macros == Leveled \cup Conditional \cup Checks \cup {"LogAtLevel", "RAW_LOG"}
ReportingMacros == {"PLOG", "PLOG_IF", "DPLOG", "DPLOG_IF", "PCHECK", "DPCHECK"}

\* The statements a program can contain, by macro.
LEMMA StatementFacts ==
  ASSUME NEW s \in Statements
  PROVE  /\ s.macro \in Macros
         /\ s.severity \in LOG_VERBOSE .. DFATAL
         /\ s.cond \in BOOLEAN
         /\ s.macro \in Leveled \cup {"LogAtLevel", "RAW_LOG"} => s.cond
         /\ s.macro \in Checks => s.severity = LOG_FATAL
         /\ s.macro \in {"LogAtLevel", "RAW_LOG"} => s.severity \in LOG_VERBOSE .. LOG_FATAL
         /\ s.macro \in {"RAW_LOG", "RAW_CHECK"} => s.length \in Nat /\ s.newline \in BOOLEAN
<1> DEFINE Tokens == LOG_INFO .. LOG_FATAL \cup {DFATAL}
<1> USE StatementAssumption
     DEF Macros, Leveled, Conditional, Checks, LOG_VERBOSE, LOG_INFO, LOG_FATAL, DFATAL
<1>1. CASE s \in [macro : Leveled, severity : Tokens, cond : {TRUE}]
  <2>1. s.cond /\ s.cond \in BOOLEAN /\ s.macro \in Leveled /\ s.severity \in Tokens
    BY <1>1, Zenon
  <2> QED
    BY <2>1
<1>2. CASE s \in [macro : Conditional, severity : Tokens, cond : BOOLEAN]
  BY <1>2
<1>3. CASE s \in [macro : {"LogAtLevel"}, severity : LOG_VERBOSE .. LOG_FATAL, cond : {TRUE}]
  <2>1. /\ s.cond /\ s.cond \in BOOLEAN
        /\ s.macro = "LogAtLevel" /\ s.severity \in LOG_VERBOSE .. LOG_FATAL
    BY <1>3, Zenon
  <2> QED
    BY <2>1
<1>4. CASE s \in [macro : Checks, severity : {LOG_FATAL}, cond : BOOLEAN,
                  length : Lengths, newline : {TRUE}]
  <2>1. /\ s.newline \in BOOLEAN /\ s.length \in Lengths /\ s.cond \in BOOLEAN
        /\ s.macro \in Checks /\ s.severity = LOG_FATAL
    BY <1>4, Zenon
  <2>2. s.length \in Nat
    BY <2>1
  <2>3. s.newline \in BOOLEAN
    BY <2>1, Zenon
  <2>4. s.macro \in Macros /\ s.macro \notin Leveled \cup {"LogAtLevel", "RAW_LOG"}
    BY <2>1
  <2> HIDE DEF Macros, Leveled, Checks
  <2> QED
    BY <2>1, <2>2, <2>3, <2>4
<1>5. CASE s \in [macro : {"RAW_LOG"}, severity : LOG_VERBOSE .. LOG_FATAL, cond : {TRUE},
                  length : Lengths, newline : BOOLEAN]
  <2>1. /\ s.newline \in BOOLEAN /\ s.length \in Lengths /\ s.cond /\ s.cond \in BOOLEAN
        /\ s.macro = "RAW_LOG" /\ s.severity \in LOG_VERBOSE .. LOG_FATAL
    BY <1>5, Zenon
  <2>2. s.length \in Nat
    BY <2>1
  <2>3. s.newline \in BOOLEAN
    BY <2>1, Zenon
  <2>4. s.macro \in Macros /\ s.macro \notin Checks
    BY <2>1
  <2> HIDE DEF Macros, Leveled, Checks
  <2> QED
    BY <2>1, <2>2, <2>3, <2>4
<1> QED
  BY <1>1, <1>2, <1>3, <1>4, <1>5 DEF Statements

\* What a statement expands to is something that logs, or nothing.
LEMMA ExpansionFacts ==
  ASSUME build \in Builds, NEW s \in Statements
  PROVE  LET e == Expansion(s) IN
         /\ e.class \in {"LogMessage", "Win32ErrorLogMessage", "RawLog", "BreakDebugger", "none"}
         /\ e.class = "RawLog" <=> s.macro \in {"RAW_LOG", "RAW_CHECK"}
         /\ e.leveled => s.macro \in Leveled \cup Conditional \cup {"LOG_ASSERT", "DLOG_ASSERT"}
         /\ e.fires \in {"always", "holds", "fails"}
         /\ e.class = "LogMessage" => s.macro \notin ReportingMacros
         /\ e.class = "Win32ErrorLogMessage" => s.macro \in ReportingMacros
<1>1. s.macro \in Macros
  BY StatementFacts
<1>2. CASE s.macro \in {"CHECK", "CHECK_EQ", "PCHECK"}
  <2>1. OfDebug(s.macro) = s.macro
    BY <1>2 DEF OfDebug
  <2>2. Expansion(s) = CheckExpansion(s.macro)
    BY <1>2, <2>1 DEF Expansion
  <2> QED
    BY <1>2, <2>2 DEF CheckExpansion, Expands, ReportingMacros
<1>3. CASE s.macro \in {"DCHECK", "DCHECK_EQ", "DPCHECK"}
  <2>1. OfDebug(s.macro) = s.macro
    BY <1>3 DEF OfDebug
  <2>2. Expansion(s) = DcheckExpansion(s.macro)
    BY <1>3, <2>1 DEF Expansion
  <2> QED
    BY <1>3, <2>2 DEF DcheckExpansion, Expands, Nothing, ReportingMacros
<1>4. CASE s.macro \in Macros \ {"CHECK", "CHECK_EQ", "PCHECK", "DCHECK", "DCHECK_EQ", "DPCHECK"}
  <2>1. Expansion(s) = IF OfDebug(s.macro) # s.macro /\ build.NDEBUG THEN Nothing
                       ELSE LogExpansion(OfDebug(s.macro))
    BY <1>4 DEF Expansion
  <2>2. OfDebug(s.macro) \in {"LOG", "LOG_IF", "LOG_ASSERT", "PLOG", "PLOG_IF", "LogAtLevel",
                              "RAW_LOG", "RAW_CHECK"}
    BY <1>4 DEF OfDebug, Macros, Leveled, Conditional, Checks
  <2>3. OfDebug(s.macro) = s.macro \/ s.macro \in {"DLOG", "DLOG_IF", "DPLOG", "DPLOG_IF", "DLOG_ASSERT"}
    BY <1>4 DEF OfDebug, Macros, Leveled, Conditional, Checks
  <2>4. CASE OfDebug(s.macro) # s.macro /\ build.NDEBUG
    BY <1>4, <2>1, <2>3, <2>4 DEF Nothing, Expands
  <2>5. CASE ~(OfDebug(s.macro) # s.macro /\ build.NDEBUG)
    <3>1. Expansion(s) = LogExpansion(OfDebug(s.macro))
      BY <2>1, <2>5
    <3> DEFINE m == OfDebug(s.macro)
    <3>2. LogExpansion(m).class = IF m \in {"RAW_LOG", "RAW_CHECK"} THEN "RawLog"
                                  ELSE IF m \in {"PLOG", "PLOG_IF"} THEN "Win32ErrorLogMessage"
                                  ELSE "LogMessage"
      BY <2>2 DEF LogExpansion, Expands
    <3>3. LogExpansion(m).fires = IF m \in {"LOG_IF", "PLOG_IF"} THEN "holds"
                                  ELSE IF m \in {"LOG_ASSERT", "RAW_CHECK"} THEN "fails"
                                  ELSE "always"
      BY <2>2 DEF LogExpansion, Expands
    <3>4. LogExpansion(m).leveled => m \notin {"LogAtLevel", "RAW_LOG", "RAW_CHECK"}
      BY <2>2 DEF LogExpansion, Expands
    <3> HIDE DEF m
    <3>5. m \in {"LOG", "LOG_IF", "LOG_ASSERT", "PLOG", "PLOG_IF", "LogAtLevel", "RAW_LOG", "RAW_CHECK"}
      BY <2>2 DEF m
    <3>6. s.macro = m \/ s.macro \in {"DLOG", "DLOG_IF", "DPLOG", "DPLOG_IF", "DLOG_ASSERT"}
      BY <2>3 DEF m
    <3>7. m \in {"RAW_LOG", "RAW_CHECK"} <=> s.macro \in {"RAW_LOG", "RAW_CHECK"}
      BY <1>4, <3>6 DEF m, OfDebug
    <3>8. Expansion(s) = LogExpansion(m)
      BY <3>1 DEF m
    <3>9. /\ Expansion(s).class \in {"LogMessage", "Win32ErrorLogMessage", "RawLog", "BreakDebugger", "none"}
          /\ Expansion(s).class = "RawLog" <=> s.macro \in {"RAW_LOG", "RAW_CHECK"}
      BY <3>2, <3>7, <3>8
    <3>10. Expansion(s).leveled => s.macro \in Leveled \cup Conditional \cup {"LOG_ASSERT", "DLOG_ASSERT"}
      BY <3>4, <3>5, <3>6, <3>8 DEF Leveled, Conditional
    <3>11. Expansion(s).fires \in {"always", "holds", "fails"}
      BY <3>3, <3>8
    <3>12. m \in {"PLOG", "PLOG_IF"} <=> s.macro \in ReportingMacros
      BY <1>4, <2>3 DEF m, OfDebug, ReportingMacros
    <3>13. /\ Expansion(s).class = "LogMessage" => s.macro \notin ReportingMacros
           /\ Expansion(s).class = "Win32ErrorLogMessage" => s.macro \in ReportingMacros
      BY <3>2, <3>8, <3>12
    <3> QED
      BY <3>9, <3>10, <3>11, <3>13
  <2> QED
    BY <2>4, <2>5
<1> QED
  BY <1>1, <1>2, <1>3, <1>4

\* A statement ends the process by its documentation exactly when its expansion
\* logs, its condition lets it, and it breaks into the debugger or is FATAL; then
\* the test of the level does not stop it.
LEMMA MustEndFacts ==
  ASSUME build \in Builds, NEW s \in Statements
  PROVE  /\ Severity(s) \in LOG_VERBOSE .. LOG_FATAL
         /\ s.macro \in {"RAW_LOG", "RAW_CHECK"} => Severity(s) = s.severity
         /\ Expansion(s).leveled => Expansion(s).class # "BreakDebugger"
         /\ MustEnd(s) <=> /\ Expansion(s).class # "none" /\ Fires(s)
                           /\ Expansion(s).class = "BreakDebugger" \/ Severity(s) = LOG_FATAL
<1> DEFINE e == Expansion(s)
           m == OfDebug(s.macro)
<1>1. /\ s.macro \in Macros
      /\ s.macro \in Checks => s.severity = LOG_FATAL
      /\ s.severity \in LOG_VERBOSE .. DFATAL
      /\ s.macro \in {"LogAtLevel", "RAW_LOG"} => s.severity \in LOG_VERBOSE .. LOG_FATAL
  BY StatementFacts
<1>2. Severity(s) \in LOG_VERBOSE .. LOG_FATAL
  BY <1>1 DEF Severity, LOG_VERBOSE, LOG_FATAL, LOG_ERROR, DFATAL
<1>3. s.macro \in {"RAW_LOG", "RAW_CHECK"} => Severity(s) = s.severity
  BY <1>1 DEF Severity, LOG_VERBOSE, LOG_FATAL, DFATAL, Checks
<1>4. s.macro \in Checks => Severity(s) = LOG_FATAL
  BY <1>1 DEF Severity, LOG_FATAL, DFATAL
<1>5. CASE s.macro \in {"CHECK", "CHECK_EQ", "PCHECK", "DCHECK", "DCHECK_EQ", "DPCHECK"}
  <2>1. m = s.macro /\ s.macro \in Checks
    BY <1>5 DEF OfDebug, Checks
  <2>2. MustEnd(s) <=> (s.macro \in {"DCHECK", "DCHECK_EQ", "DPCHECK"} => DCHECK_IS_ON) /\ ~s.cond
    BY <1>5, <2>1 DEF MustEnd
  <2>3. /\ e.class \in {"LogMessage", "Win32ErrorLogMessage", "BreakDebugger", "none"}
        /\ e.class = "none" <=> s.macro \in {"DCHECK", "DCHECK_EQ", "DPCHECK"} /\ ~DCHECK_IS_ON
        /\ e.class # "none" => e.fires = "fails"
        /\ ~e.leveled
    <3>1. CASE s.macro \in {"CHECK", "CHECK_EQ", "PCHECK"}
      <4>1. e = CheckExpansion(s.macro)
        BY <2>1, <3>1 DEF Expansion
      <4> QED
        BY <3>1, <4>1 DEF CheckExpansion, Expands
    <3>2. CASE s.macro \in {"DCHECK", "DCHECK_EQ", "DPCHECK"}
      <4>1. e = DcheckExpansion(s.macro)
        BY <2>1, <3>2 DEF Expansion
      <4> QED
        BY <3>2, <4>1 DEF DcheckExpansion, Expands, Nothing
    <3> QED
      BY <1>5, <3>1, <3>2
  <2>4. e.class # "none" => (Fires(s) <=> ~s.cond)
    BY <2>3 DEF Fires
  <2> QED
    BY <1>2, <1>3, <1>4, <2>1, <2>2, <2>3, <2>4
<1>6. CASE s.macro \in Macros \ {"CHECK", "CHECK_EQ", "PCHECK", "DCHECK", "DCHECK_EQ", "DPCHECK"}
  <2>1. e = IF m # s.macro /\ build.NDEBUG THEN Nothing ELSE LogExpansion(m)
    BY <1>6 DEF Expansion
  <2>2. /\ m \in {"LOG", "LOG_IF", "LOG_ASSERT", "PLOG", "PLOG_IF", "LogAtLevel", "RAW_LOG", "RAW_CHECK"}
        /\ m = s.macro \/ s.macro \in {"DLOG", "DLOG_IF", "DPLOG", "DPLOG_IF", "DLOG_ASSERT"}
        /\ m \in {"LOG_ASSERT", "RAW_CHECK"} => s.macro \in Checks
    BY <1>6 DEF OfDebug, Macros, Leveled, Conditional, Checks
  <2>3. CASE m # s.macro /\ build.NDEBUG
    <3>1. e.class = "none" /\ ~e.leveled
      BY <2>1, <2>3 DEF Nothing, Expands
    <3>2. ~MustEnd(s)
      BY <2>2, <2>3 DEF MustEnd
    <3> QED
      BY <1>2, <1>3, <3>1, <3>2
  <2>4. CASE ~(m # s.macro /\ build.NDEBUG)
    <3>1. /\ e.class \in {"LogMessage", "Win32ErrorLogMessage", "RawLog"}
          /\ e.fires = IF m \in {"LOG_IF", "PLOG_IF"} THEN "holds"
                       ELSE IF m \in {"LOG_ASSERT", "RAW_CHECK"} THEN "fails" ELSE "always"
      <4>1. e = LogExpansion(m)
        BY <2>1, <2>4
      <4> HIDE DEF m, e
      <4> QED
        BY <2>2, <4>1 DEF LogExpansion, Expands
    <3>2. MustEnd(s) <=>
            \/ m \in {"LOG", "PLOG", "LogAtLevel", "RAW_LOG"} /\ Severity(s) = LOG_FATAL
            \/ m \in {"LOG_IF", "PLOG_IF"} /\ Severity(s) = LOG_FATAL /\ s.cond
            \/ m \in {"LOG_ASSERT", "RAW_CHECK"} /\ ~s.cond
      <4>1. (IF build.NDEBUG THEN s.macro ELSE OfDebug(s.macro)) = m
        BY <2>4
      <4> HIDE DEF m
      <4> QED
        BY <2>2, <4>1 DEF MustEnd
    <3> HIDE DEF m, e
    <3>3. /\ m \in {"LOG_IF", "PLOG_IF"} => (Fires(s) <=> s.cond)
          /\ m \in {"LOG_ASSERT", "RAW_CHECK"} => (Fires(s) <=> ~s.cond)
          /\ m \in {"LOG", "PLOG", "LogAtLevel", "RAW_LOG"} => Fires(s)
      BY <3>1 DEF e, Fires
    <3>4. MustEnd(s) <=> Fires(s) /\ Severity(s) = LOG_FATAL
      BY <1>4, <2>2, <3>2, <3>3
    <3> QED
      BY <1>2, <1>3, <3>1, <3>4 DEF e
  <2> QED
    BY <2>3, <2>4
<1> QED
  BY <1>1, <1>5, <1>6

(***************************************************************************)
(* The inductive invariant.                                                *)
(***************************************************************************)

\* What is said of a statement stays true while it is executed.
LEMMA SameStatement ==
  ASSUME build' = build, stmt' = stmt
  PROVE  /\ Class' = Class
         /\ Appends' <=> Appends
         /\ Fires(stmt)' <=> Fires(stmt)
         /\ Severity(stmt)' = Severity(stmt)
         /\ MustEnd(stmt)' <=> MustEnd(stmt)
         /\ NeedsNewline' <=> NeedsNewline
<1>1. DCHECK_IS_ON' <=> DCHECK_IS_ON
  BY DEF DCHECK_IS_ON
<1>2. Expansion(stmt)' = Expansion(stmt)
  BY <1>1 DEF Expansion, CheckExpansion, DcheckExpansion
<1> QED
  BY <1>1, <1>2 DEF Class, Appends, Fires, Severity, MustEnd, NeedsNewline

\* Another thread sets the level.
LEMMA SetMinLogLevelKeeps ==
  ASSUME StatementInv, NEW level \in Levels, SetMinLogLevel(level)
  PROVE  StatementInv'
<1>1. UNCHANGED <<build, last_error, pc, stmt, messageVars, rawVars, ended>>
  BY DEF SetMinLogLevel
<1>2. SetMinLogLevel(level) /\ level \in Int
  BY StatementAssumption
<1>3. StatementTypeOK'
  BY <1>1, <1>2 DEF StatementInv, StatementTypeOK, SetMinLogLevel, messageVars, streamVars, rawVars, LOG_FATAL
<1>4. ControlInv'
  BY <1>1, SameStatement DEF StatementInv, ControlInv
<1>5. ErrorInv'
  BY <1>1, SameStatement DEF StatementInv, ErrorInv, messageVars, streamVars
<1>6. TextInv'
  BY <1>1, SameStatement DEF StatementInv, TextInv, Appended, messageVars, streamVars
<1>7. RawInv'
  BY <1>1, SameStatement DEF StatementInv, RawInv, RawLineWhole, rawVars
<1>8. EndInv'
  BY <1>1, SameStatement DEF StatementInv, EndInv, EndsAsDocumented, FatalStatementsEnd, OnlyFatalEnds, messageVars
<1>9. StreamKeepsError => LastErrorKept'
  BY <1>1 DEF StatementInv, LastErrorKept, messageVars
<1> QED
  BY <1>3, <1>4, <1>5, <1>6, <1>7, <1>8, <1>9 DEF StatementInv

\* A statement begins with nothing remembered of the one before.
LEMMA BeginKeeps ==
  ASSUME StatementInv, NEW s \in Statements, Begin(s)
  PROVE  StatementInv'
<1>1. /\ ~ended /\ pc' = "test" /\ stmt' = s
      /\ entry' = last_error /\ err_' = NULL /\ saved' = NULL /\ logged' = NULL
      /\ streamed' = <<>> /\ stream_' = <<>>
      /\ left' = 0 /\ written' = 0 /\ failed' = FALSE
      /\ UNCHANGED <<build, min_log_level, last_error, ended>>
  BY DEF Begin, Step, StatementInv, StatementTypeOK
<1>2. StatementTypeOK'
  BY <1>1, EmptySeq DEF StatementInv, StatementTypeOK, Location
<1>3. ControlInv'
  BY <1>1 DEF ControlInv, InMessage, InRaw
<1>4. ErrorInv' /\ TextInv' /\ LastErrorKept'
  BY <1>1 DEF ErrorInv, TextInv, LastErrorKept, InMessage, InRaw
<1>5. RawInv' /\ EndInv'
  BY <1>1 DEF RawInv, RawLineWhole, EndInv, EndsAsDocumented, FatalStatementsEnd, OnlyFatalEnds
<1> QED
  BY <1>2, <1>3, <1>4, <1>5 DEF StatementInv

\* The level stops only statements that do not end the process: min_log_level is
\* at most LOG_FATAL.
LEMMA TestLevelKeeps ==
  ASSUME StatementInv, TestLevel
  PROVE  StatementInv'
<1>1. /\ ~ended /\ pc = "test" /\ pc' \in {"idle", "condition"}
      /\ UNCHANGED <<build, min_log_level, last_error, stmt, ended, entry, err_, saved, streamed, stream_, logged, left, written, failed>>
  BY DEF TestLevel, Step, messageVars, streamVars, rawVars
<1>2. /\ pc' = "condition" => Class # "none"
      /\ pc' = "idle" => Class = "none" \/ (Expansion(stmt).leveled /\ Severity(stmt) < min_log_level)
  BY DEF TestLevel, Step, Class
<1>3. stmt \in Statements /\ build \in Builds
  BY <1>1 DEF StatementInv, StatementTypeOK, ControlInv
<1>4. StatementTypeOK'
  BY <1>1 DEF StatementInv, StatementTypeOK, Location
<1>5. ControlInv'
  BY <1>1, <1>2, SameStatement DEF StatementInv, ControlInv, InMessage, InRaw
<1>6. ErrorInv'
  BY <1>1, SameStatement DEF StatementInv, ErrorInv, InMessage, InRaw
<1>7. logged = NULL
  BY <1>1 DEF StatementInv, TextInv
<1>8. TextInv' /\ LastErrorKept'
  BY <1>1, <1>7 DEF TextInv, LastErrorKept
<1>9. RawInv'
  BY <1>1 DEF StatementInv, RawInv, RawLineWhole
<1>10. pc' = "idle" => ~MustEnd(stmt)
  <2>1. min_log_level \in Int /\ min_log_level <= LOG_FATAL
    BY DEF StatementInv, StatementTypeOK
  <2>2. Severity(stmt) < min_log_level => Severity(stmt) # LOG_FATAL
    BY <1>3, <2>1, MustEndFacts DEF LOG_FATAL, LOG_VERBOSE
  <2> QED
    BY <1>2, <1>3, <2>2, MustEndFacts DEF Class
<1>11. EndInv'
  BY <1>1, <1>10, SameStatement DEF EndInv, EndsAsDocumented, FatalStatementsEnd, OnlyFatalEnds
<1> QED
  BY <1>4, <1>5, <1>6, <1>8, <1>9, <1>11 DEF StatementInv

\* A condition that stops the statement keeps it from ending the process, and a
\* check of a release build that fails ends it here.
LEMMA EvaluateConditionKeeps ==
  ASSUME StatementInv, EvaluateCondition
  PROVE  StatementInv'
<1>1. /\ ~ended /\ pc = "condition" /\ entry' = last_error'
      /\ UNCHANGED <<build, min_log_level, stmt, err_, saved, streamed, stream_, logged, left, written, failed>>
  BY DEF EvaluateCondition, Step, streamVars, rawVars
<1>2. /\ pc' = IF Fires(stmt) THEN Body(Class) ELSE "idle"
      /\ ended' <=> Fires(stmt) /\ Class = "BreakDebugger"
      /\ ended' \in BOOLEAN
  BY DEF EvaluateCondition, Step, Fires, Class
<1>3. last_error' \in Errors
  BY DEF EvaluateCondition, Clobber, StatementInv, StatementTypeOK
<1>4. stmt \in Statements /\ build \in Builds /\ Class # "none"
  BY <1>1 DEF StatementInv, StatementTypeOK, ControlInv
<1>5. Class \in {"LogMessage", "Win32ErrorLogMessage", "RawLog", "BreakDebugger"}
  BY <1>4, ExpansionFacts DEF Class
<1>6. /\ pc' \in {"idle", "construct", "getError", "rawTest"}
      /\ pc' = "construct" => Fires(stmt) /\ Class = "LogMessage"
      /\ pc' = "getError" => Fires(stmt) /\ Class = "Win32ErrorLogMessage"
      /\ pc' = "rawTest" => Fires(stmt) /\ Class = "RawLog"
      /\ pc' = "idle" => ~Fires(stmt) \/ Class = "BreakDebugger"
  BY <1>2, <1>5 DEF Body
<1>7. StatementTypeOK'
  BY <1>1, <1>2, <1>3, <1>6 DEF StatementInv, StatementTypeOK, Location
<1>8. ControlInv'
  <2>1. pc' = "getError" => Appends
    BY <1>4, <1>6, ExpansionFacts DEF Appends, Class, ReportingMacros
  <2> QED
    BY <1>1, <1>4, <1>6, <2>1, SameStatement DEF ControlInv, InMessage, InRaw
<1>9. ErrorInv'
  <2>1. err_ = NULL
    BY <1>1 DEF StatementInv, ErrorInv
  <2>2. pc' = "construct" => ~Appends
    BY <1>4, <1>6, ExpansionFacts DEF Appends, Class, ReportingMacros
  <2> QED
    BY <1>1, <1>6, <2>1, <2>2, SameStatement DEF ErrorInv, InMessage, InRaw
<1>10. logged = NULL
  BY <1>1 DEF StatementInv, TextInv
<1>11. TextInv' /\ LastErrorKept'
  BY <1>1, <1>6, <1>10 DEF TextInv, LastErrorKept
<1>12. RawInv'
  BY <1>1, <1>6 DEF StatementInv, RawInv, RawLineWhole
<1>13. pc' = "idle" => ended' \/ ~MustEnd(stmt)
  BY <1>2, <1>4, <1>6, MustEndFacts
<1>14. ended' => MustEnd(stmt)
  BY <1>2, <1>4, MustEndFacts DEF Class
<1>15. EndInv'
  BY <1>1, <1>6, <1>13, <1>14, SameStatement DEF EndInv, EndsAsDocumented, FatalStatementsEnd, OnlyFatalEnds
<1> QED
  BY <1>7, <1>8, <1>9, <1>11, <1>12, <1>15 DEF StatementInv

\* The error to report is the one that was current when the statement began to log.
LEMMA GetErrorKeeps ==
  ASSUME StatementInv, GetError
  PROVE  StatementInv'
<1>1. /\ ~ended /\ pc = "getError" /\ pc' = "construct" /\ err_' = last_error
      /\ UNCHANGED <<build, min_log_level, last_error, stmt, ended, entry, saved, streamed, stream_, logged, left, written, failed>>
  BY DEF GetError, Step, streamVars, rawVars
<1>2. StatementTypeOK'
  BY <1>1 DEF StatementInv, StatementTypeOK, Location
<1>3. ControlInv'
  BY <1>1, SameStatement DEF StatementInv, ControlInv, InMessage, InRaw
<1>4. ErrorInv'
  BY <1>1, SameStatement DEF StatementInv, ErrorInv, ControlInv, InMessage, InRaw
<1>5. logged = NULL
  BY <1>1 DEF StatementInv, TextInv
<1>6. TextInv' /\ LastErrorKept'
  BY <1>1, <1>5 DEF TextInv, LastErrorKept
<1>7. RawInv'
  BY <1>1 DEF StatementInv, RawInv, RawLineWhole
<1>8. EndInv'
  BY <1>1 DEF EndInv, EndsAsDocumented, FatalStatementsEnd, OnlyFatalEnds
<1> QED
  BY <1>2, <1>3, <1>4, <1>6, <1>7, <1>8 DEF StatementInv

\* The stream of the message is made, and may change the last error.
LEMMA ConstructStreamKeeps ==
  ASSUME StatementInv, ConstructStream
  PROVE  StatementInv'
<1>1. /\ ~ended /\ pc = "construct" /\ pc' = "save"
      /\ UNCHANGED <<build, min_log_level, stmt, ended, entry, err_, saved, streamed, stream_, logged, left, written, failed>>
  BY DEF ConstructStream, Step, messageVars, streamVars, rawVars
<1>2. last_error' \in Errors /\ (StreamKeepsError => last_error' = last_error)
  BY DEF ConstructStream, StreamCall, Clobber, StatementInv, StatementTypeOK
<1>3. StatementTypeOK'
  BY <1>1, <1>2 DEF StatementInv, StatementTypeOK, Location
<1>4. ControlInv'
  BY <1>1, SameStatement DEF StatementInv, ControlInv, InMessage, InRaw
<1>5. ErrorInv'
  BY <1>1, <1>2, SameStatement DEF StatementInv, ErrorInv, InMessage, InRaw
<1>6. logged = NULL
  BY <1>1 DEF StatementInv, TextInv
<1>7. TextInv' /\ LastErrorKept'
  BY <1>1, <1>6 DEF TextInv, LastErrorKept
<1>8. RawInv'
  BY <1>1 DEF StatementInv, RawInv, RawLineWhole
<1>9. EndInv'
  BY <1>1, SameStatement DEF StatementInv, EndInv, EndsAsDocumented, FatalStatementsEnd, OnlyFatalEnds
<1> QED
  BY <1>3, <1>4, <1>5, <1>7, <1>8, <1>9 DEF StatementInv

\* The error to restore is the one SaveLastError finds.
LEMMA SaveLastErrorKeeps ==
  ASSUME StatementInv, SaveLastError
  PROVE  StatementInv'
<1>1. /\ ~ended /\ pc = "save" /\ pc' = "init" /\ saved' = last_error
      /\ UNCHANGED <<build, min_log_level, last_error, stmt, ended, entry, err_, streamed, stream_, logged, left, written, failed>>
  BY DEF SaveLastError, Step, streamVars, rawVars
<1>2. StatementTypeOK'
  BY <1>1 DEF StatementInv, StatementTypeOK, Location
<1>3. ControlInv'
  BY <1>1, SameStatement DEF StatementInv, ControlInv, InMessage, InRaw
<1>4. ErrorInv'
  BY <1>1, SameStatement DEF StatementInv, StatementTypeOK, ErrorInv, InMessage, InRaw
<1>5. logged = NULL
  BY <1>1 DEF StatementInv, TextInv
<1>6. TextInv' /\ LastErrorKept'
  BY <1>1, <1>5 DEF TextInv, LastErrorKept
<1>7. RawInv'
  BY <1>1 DEF StatementInv, RawInv, RawLineWhole
<1>8. EndInv'
  BY <1>1 DEF EndInv, EndsAsDocumented, FatalStatementsEnd, OnlyFatalEnds
<1> QED
  BY <1>2, <1>3, <1>4, <1>6, <1>7, <1>8 DEF StatementInv

\* What the program streams is the message, which has no error text yet.
LEMMA InitMessageKeeps ==
  ASSUME StatementInv, InitMessage
  PROVE  StatementInv'
<1>1. /\ ~ended /\ pc = "init"
      /\ UNCHANGED <<build, min_log_level, stmt, ended, entry, err_, saved, logged, left, written, failed>>
  BY DEF InitMessage, Step, rawVars
<1>2. /\ pc' = IF Class = "LogMessage" THEN "emit" ELSE "append"
      /\ last_error' \in Errors
      /\ streamed' \in Texts /\ stream_' = Streamed(streamed')
  BY DEF InitMessage, Step, Clobber, Class
<1>3. /\ pc' \in {"emit", "append"}
      /\ pc' = "emit" => ~Appends
      /\ pc' = "append" => Appends
      /\ Fires(stmt) /\ Class \in {"LogMessage", "Win32ErrorLogMessage"}
  <2>1. /\ stmt \in Statements /\ build \in Builds /\ Fires(stmt)
        /\ Class \in {"LogMessage", "Win32ErrorLogMessage"}
    BY <1>1 DEF StatementInv, StatementTypeOK, ControlInv, InMessage
  <2>2. Appends <=> Class = "Win32ErrorLogMessage"
    BY <2>1, ExpansionFacts DEF Appends, Class, ReportingMacros
  <2> QED
    BY <1>2, <2>1, <2>2
<1>4. stream_' \in Seq(Encoded)
  BY <1>2, StreamedType, StatementAssumption DEF Streamed
<1>5. StatementTypeOK'
  BY <1>1, <1>2, <1>3, <1>4 DEF StatementInv, StatementTypeOK, Location
<1>6. ControlInv'
  BY <1>1, <1>3, SameStatement DEF StatementInv, ControlInv, InMessage, InRaw
<1>7. ErrorInv'
  BY <1>1, <1>3, SameStatement DEF StatementInv, ErrorInv, InMessage, InRaw
<1>8. logged = NULL
  BY <1>1 DEF StatementInv, TextInv
<1>9. TextInv'
  <2>1. pc' = "emit" => stream_' = Streamed(streamed') \o Appended'
    <3>1. pc' = "emit" => Appended' = <<>>
      BY <1>1, <1>3, SameStatement DEF Appended
    <3> QED
      BY <1>2, <1>4, <3>1, ConcatEmptySeq
  <2> QED
    BY <1>1, <1>2, <1>3, <1>8, <2>1 DEF TextInv
<1>10. LastErrorKept' /\ RawInv'
  BY <1>1, <1>3, <1>8 DEF LastErrorKept, RawInv, RawLineWhole
<1>11. EndInv'
  BY <1>1, <1>3 DEF EndInv, EndsAsDocumented, FatalStatementsEnd, OnlyFatalEnds
<1> QED
  BY <1>5, <1>6, <1>7, <1>9, <1>10, <1>11 DEF StatementInv

\* What is appended is the text of the error the message remembers.
LEMMA AppendErrorKeeps ==
  ASSUME StatementInv, AppendError
  PROVE  StatementInv'
<1>1. /\ ~ended /\ pc = "append" /\ pc' = "emit" /\ last_error' \in Errors
      /\ stream_' = stream_ \o SystemErrorCodeToString(err_)
      /\ ended' \in BOOLEAN
      /\ ended' => Overflows(err_)
      /\ UNCHANGED <<build, min_log_level, stmt, entry, err_, saved, streamed, logged, left, written, failed>>
  BY DEF AppendError, Step, Clobber, rawVars
<1>2. Appends /\ err_ = entry /\ entry \in Errors
  BY <1>1 DEF StatementInv, StatementTypeOK, ControlInv, ErrorInv, InMessage
<1>3. stream_' \in Seq(Encoded)
  BY <1>1, <1>2, ErrorTextType, ConcatProperties DEF StatementInv, StatementTypeOK
<1>4. StatementTypeOK'
  BY <1>1, <1>3 DEF StatementInv, StatementTypeOK, Location
<1>5. ControlInv'
  BY <1>1, SameStatement DEF StatementInv, ControlInv, InMessage, InRaw
<1>6. ErrorInv'
  BY <1>1, SameStatement DEF StatementInv, ErrorInv, InMessage, InRaw
<1>7. logged = NULL
  BY <1>1 DEF StatementInv, TextInv
<1>8. TextInv'
  <2>1. stream_' = Streamed(streamed') \o Appended'
    BY <1>1, <1>2, SameStatement DEF StatementInv, TextInv, Appended
  <2> QED
    BY <1>1, <1>7, <2>1 DEF StatementInv, TextInv
<1>9. LastErrorKept' /\ RawInv'
  BY <1>1, <1>7 DEF LastErrorKept, RawInv, RawLineWhole
<1>10. EndInv'
  BY <1>1, <1>2, SameStatement DEF EndInv, EndsAsDocumented, FatalStatementsEnd, OnlyFatalEnds
<1> QED
  BY <1>4, <1>5, <1>6, <1>8, <1>9, <1>10 DEF StatementInv

\* The dialog shows some text for every message.
LEMMA ShownType ==
  ASSUME NEW text \in Seq(Encoded)
  PROVE  UTF8ToWide(text) \in Seq(Characters)
BY ToNarrow, ToWide DEF UTF8ToWide, Utf8ToAnsi, CodePages

\* A message is logged whole, and a FATAL one ends the process.
LEMMA EmitKeeps ==
  ASSUME StatementInv, Emit
  PROVE  StatementInv'
<1> DEFINE dialog == IF Severity(stmt) = LOG_FATAL /\ ~build.NDEBUG THEN UTF8ToWide(stream_) ELSE <<>>
<1>1. /\ ~ended /\ pc = "emit" /\ pc' = "restore" /\ last_error' \in Errors
      /\ ended' \in BOOLEAN
      /\ ended' <=> Severity(stmt) = LOG_FATAL
      /\ UNCHANGED <<build, min_log_level, stmt, entry, err_, saved, streamed, stream_, left, written, failed>>
  BY DEF Emit, Step, Clobber, streamVars, rawVars
<1>2. logged' = [severity |-> Severity(stmt), error |-> err_, text |-> stream_, dialog |-> dialog]
  BY DEF Emit
<1>3. /\ stmt \in Statements /\ build \in Builds
      /\ Fires(stmt) /\ Class # "none"
      /\ err_ = IF Appends THEN entry ELSE NULL
      /\ stream_ \in Seq(Encoded) /\ err_ \in Errors \cup {NULL}
      /\ streamed \in Texts /\ stream_ = Streamed(streamed) \o Appended
  BY <1>1 DEF StatementInv, StatementTypeOK, ControlInv, ErrorInv, TextInv, InMessage
<1>4. dialog \in Seq(Characters) /\ dialog \in {<<>>, UTF8ToWide(stream_)}
  BY <1>3, ShownType, EmptySeq
<1>5. Severity(stmt) \in LOG_VERBOSE .. LOG_FATAL
  BY <1>3, MustEndFacts
<1> HIDE DEF dialog
<1>6. StatementTypeOK'
  <2>1. logged' \in [severity : LOG_VERBOSE .. LOG_FATAL, error : Errors \cup {NULL},
                     text : Seq(Encoded), dialog : Seq(Characters)]
    BY <1>2, <1>3, <1>4, <1>5
  <2> QED
    BY <1>1, <2>1 DEF StatementInv, StatementTypeOK, Location
<1>7. ControlInv'
  BY <1>1, SameStatement DEF StatementInv, ControlInv, InMessage, InRaw
<1>8. ErrorInv'
  BY <1>1, SameStatement DEF StatementInv, ErrorInv, InMessage, InRaw
<1>9. TextInv'
  <2>1. Appended' = Appended
    BY <1>1, SameStatement DEF Appended
  <2>2. logged'.error = err_ /\ logged'.text = stream_ /\ logged'.dialog = dialog
    BY <1>2
  <2> QED
    BY <1>1, <1>3, <1>4, <2>1, <2>2, SameStatement DEF TextInv
<1>10. LastErrorKept' /\ RawInv'
  BY <1>1 DEF LastErrorKept, RawInv, RawLineWhole
<1>11. ended' => MustEnd(stmt)
  BY <1>1, <1>3, MustEndFacts DEF Class
<1>12. EndInv'
  BY <1>1, <1>11, SameStatement DEF EndInv, EndsAsDocumented, FatalStatementsEnd, OnlyFatalEnds
<1> QED
  BY <1>6, <1>7, <1>8, <1>9, <1>10, <1>12 DEF StatementInv

\* ~SaveLastError restores the error SaveLastError has saved.
LEMMA RestoreLastErrorKeeps ==
  ASSUME StatementInv, RestoreLastError
  PROVE  StatementInv'
<1>1. /\ ~ended /\ pc = "restore" /\ pc' = "destroy" /\ last_error' = saved
      /\ UNCHANGED <<build, min_log_level, stmt, ended, entry, err_, saved, streamed, stream_, logged, left, written, failed>>
  BY DEF RestoreLastError, Step, messageVars, streamVars, rawVars
<1>2. saved \in Errors /\ Severity(stmt) # LOG_FATAL
  BY <1>1 DEF StatementInv, ErrorInv, EndInv
<1>3. StatementTypeOK'
  BY <1>1, <1>2 DEF StatementInv, StatementTypeOK, Location
<1>4. ControlInv'
  BY <1>1, SameStatement DEF StatementInv, ControlInv, InMessage, InRaw
<1>5. ErrorInv'
  BY <1>1, SameStatement DEF StatementInv, ErrorInv, InMessage, InRaw
<1>6. TextInv'
  <2>1. Appended' = Appended
    BY <1>1, SameStatement DEF Appended
  <2> QED
    BY <1>1, <2>1, SameStatement DEF StatementInv, TextInv
<1>7. LastErrorKept' /\ RawInv'
  BY <1>1 DEF LastErrorKept, RawInv, RawLineWhole
<1>8. EndInv'
  BY <1>1, <1>2, SameStatement DEF StatementInv, EndInv, EndsAsDocumented, FatalStatementsEnd, OnlyFatalEnds
<1> QED
  BY <1>3, <1>4, <1>5, <1>6, <1>7, <1>8 DEF StatementInv

\* A statement that returns from its message leaves the error it found, unless
\* destroying the stream changes it.
LEMMA DestroyStreamKeeps ==
  ASSUME StatementInv, DestroyStream
  PROVE  StatementInv'
<1>1. /\ ~ended /\ pc = "destroy" /\ pc' = "idle"
      /\ UNCHANGED <<build, min_log_level, stmt, ended, entry, err_, saved, streamed, stream_, logged, left, written, failed>>
  BY DEF DestroyStream, Step, messageVars, streamVars, rawVars
<1>2. last_error' \in Errors /\ (StreamKeepsError => last_error' = last_error)
  BY DEF DestroyStream, StreamCall, Clobber, StatementInv, StatementTypeOK
<1>3. /\ stmt \in Statements /\ build \in Builds
      /\ Class \in {"LogMessage", "Win32ErrorLogMessage"}
      /\ Severity(stmt) # LOG_FATAL
      /\ StreamKeepsError => last_error = entry
  BY <1>1 DEF StatementInv, StatementTypeOK, ControlInv, ErrorInv, EndInv, InMessage
<1>4. StatementTypeOK'
  BY <1>1, <1>2 DEF StatementInv, StatementTypeOK, Location
<1>5. ControlInv' /\ ErrorInv'
  BY <1>1 DEF ControlInv, ErrorInv, InMessage, InRaw
<1>6. TextInv'
  <2>1. Appended' = Appended
    BY <1>1, SameStatement DEF Appended
  <2> QED
    BY <1>1, <2>1, SameStatement DEF StatementInv, TextInv
<1>7. (StreamKeepsError => LastErrorKept') /\ RawInv'
  BY <1>1, <1>2, <1>3 DEF LastErrorKept, RawInv, RawLineWhole
<1>8. ~MustEnd(stmt)
  BY <1>3, MustEndFacts DEF Class
<1>9. EndInv'
  BY <1>1, <1>8, SameStatement DEF EndInv, EndsAsDocumented, FatalStatementsEnd, OnlyFatalEnds
<1> QED
  BY <1>4, <1>5, <1>6, <1>7, <1>9 DEF StatementInv

\* What is known of a statement that runs RawLog.
LEMMA RawFacts ==
  ASSUME StatementInv, pc \in InRaw
  PROVE  /\ stmt \in Statements /\ build \in Builds
         /\ Class = "RawLog" /\ Fires(stmt) /\ ~Appends
         /\ Severity(stmt) = stmt.severity
         /\ stmt.severity \in LOG_VERBOSE .. LOG_FATAL
         /\ stmt.length \in Nat /\ err_ = NULL /\ logged = NULL
<1>1. /\ stmt \in Statements /\ build \in Builds
      /\ Class = "RawLog" /\ Fires(stmt) /\ err_ = NULL /\ logged = NULL
  BY DEF StatementInv, StatementTypeOK, ControlInv, ErrorInv, TextInv, InRaw
<1>2. stmt.macro \in {"RAW_LOG", "RAW_CHECK"}
  BY <1>1, ExpansionFacts DEF Class
<1>3. Severity(stmt) = stmt.severity /\ Severity(stmt) \in LOG_VERBOSE .. LOG_FATAL
  BY <1>1, <1>2, MustEndFacts
<1>4. stmt.length \in Nat
  BY <1>1, <1>2, StatementFacts
<1> QED
  BY <1>1, <1>2, <1>3, <1>4 DEF Appends

\* A step inside RawLog keeps all but what is said of what it has written.
LEMMA RawKeeps ==
  ASSUME StatementInv, pc \in InRaw, pc' \in InRaw \ {"rawTest"}, ~ended, last_error' \in Errors,
         left' \in Nat, written' \in Nat, failed' \in BOOLEAN, RawLineWhole',
         UNCHANGED <<build, min_log_level, stmt, messageVars, ended>>
  PROVE  StatementInv'
<1>1. UNCHANGED <<build, min_log_level, stmt, ended, entry, err_, saved, streamed, stream_, logged>>
  BY DEF messageVars, streamVars
<1>2. StatementTypeOK'
  BY <1>1 DEF StatementInv, StatementTypeOK, InRaw, Location
<1>3. ControlInv' /\ ErrorInv'
  BY <1>1, RawFacts, SameStatement DEF ControlInv, ErrorInv, InMessage, InRaw
<1>4. TextInv' /\ LastErrorKept'
  BY <1>1, RawFacts DEF TextInv, LastErrorKept, InRaw
<1>5. RawInv' /\ EndInv'
  BY <1>1 DEF RawInv, InRaw, EndInv, EndsAsDocumented, FatalStatementsEnd, OnlyFatalEnds
<1> QED
  BY <1>2, <1>3, <1>4, <1>5 DEF StatementInv

\* The level stops all of a raw message or none of it.
LEMMA RawTestKeeps ==
  ASSUME StatementInv, RawTest
  PROVE  StatementInv'
<1>1. /\ ~ended /\ pc = "rawTest" /\ pc \in InRaw
      /\ UNCHANGED <<build, min_log_level, last_error, stmt, messageVars, written, failed, ended>>
  BY DEF RawTest, Step, InRaw
<1>2. /\ pc' = IF stmt.severity >= min_log_level THEN "rawWrite" ELSE "rawEnd"
      /\ left' = IF stmt.severity >= min_log_level THEN stmt.length ELSE 0
  BY DEF RawTest, Step
<1>3. /\ written = 0 /\ stmt.length \in Nat
      /\ last_error \in Errors /\ failed \in BOOLEAN
  BY <1>1, RawFacts DEF StatementInv, StatementTypeOK, RawInv
<1>4. pc' \in InRaw \ {"rawTest"} /\ left' \in Nat /\ written' \in Nat
  BY <1>1, <1>2, <1>3 DEF InRaw
<1>5. RawLineWhole'
  BY <1>1, <1>2, <1>3 DEF RawLineWhole
<1> QED
  BY <1>1, <1>3, <1>4, <1>5, RawKeeps

\* However write cuts up the message, what is written and what is left are all of it.
LEMMA RawWriteKeeps ==
  ASSUME StatementInv, RawWrite
  PROVE  StatementInv'
<1>1. /\ ~ended /\ pc = "rawWrite" /\ pc \in InRaw /\ last_error' \in Errors
      /\ UNCHANGED <<build, min_log_level, stmt, messageVars, ended>>
  BY DEF RawWrite, Step, Clobber, InRaw
<1>2. /\ stmt.length \in Nat /\ left \in Nat /\ written \in Nat /\ failed \in BOOLEAN
      /\ ~failed => written + left = stmt.length
  BY <1>1, RawFacts DEF StatementInv, StatementTypeOK, RawInv, RawLineWhole
<1>3. CASE \E rv \in 1 .. left :
             /\ Step("rawWrite", "rawWrite")
             /\ left' = left - rv /\ written' = written + rv /\ UNCHANGED failed
  <2>1. PICK rv \in 1 .. left :
          /\ pc' = "rawWrite" /\ left' = left - rv /\ written' = written + rv /\ UNCHANGED failed
    BY <1>3 DEF Step
  <2>2. left' \in Nat /\ written' \in Nat /\ (~failed' => written' + left' = stmt'.length)
    BY <1>1, <1>2, <2>1
  <2>3. RawLineWhole'
    BY <2>1, <2>2 DEF RawLineWhole
  <2>4. pc' \in InRaw \ {"rawTest"} /\ failed' \in BOOLEAN
    BY <1>2, <2>1 DEF InRaw
  <2> QED
    BY <1>1, <2>2, <2>3, <2>4, RawKeeps
<1>4. CASE Step("rawWrite", "rawNewline") /\ failed' = TRUE /\ UNCHANGED <<left, written>>
  <2>1. pc' \in InRaw \ {"rawTest"} /\ failed' \in BOOLEAN /\ failed'
    BY <1>4 DEF Step, InRaw
  <2> QED
    BY <1>1, <1>2, <1>4, <2>1, RawKeeps DEF RawLineWhole
<1>5. CASE left = 0 /\ Step("rawWrite", "rawNewline") /\ UNCHANGED rawVars
  <2>1. pc' = "rawNewline" /\ left = 0 /\ UNCHANGED <<left, written, failed>>
    BY <1>5 DEF Step, rawVars
  <2>2. pc' \in InRaw \ {"rawTest"}
    BY <2>1 DEF InRaw
  <2>3. RawLineWhole'
    BY <1>1, <1>2, <2>1 DEF RawLineWhole
  <2> QED
    BY <1>1, <1>2, <2>1, <2>2, <2>3, RawKeeps
<1> QED
  BY <1>3, <1>4, <1>5 DEF RawWrite

\* A message that lacks a newline gets one.
LEMMA RawNewlineKeeps ==
  ASSUME StatementInv, RawNewline
  PROVE  StatementInv'
<1>1. /\ ~ended /\ pc = "rawNewline" /\ pc' = "rawEnd" /\ pc \in InRaw /\ pc' \in InRaw \ {"rawTest"}
      /\ last_error' \in Errors
      /\ UNCHANGED <<build, min_log_level, stmt, messageVars, left, ended>>
  BY DEF RawNewline, Step, Clobber, InRaw
<1>2. /\ stmt.length \in Nat /\ left \in Nat /\ written \in Nat /\ failed \in BOOLEAN
      /\ ~failed => written = stmt.length
  BY <1>1, RawFacts DEF StatementInv, StatementTypeOK, RawInv, RawLineWhole
<1>3. NeedsNewline' <=> NeedsNewline
  BY <1>1, SameStatement
<1>4. CASE NeedsNewline /\ written' = written + 1 /\ UNCHANGED failed
  <2>1. RawLineWhole' /\ written' \in Nat
    BY <1>1, <1>2, <1>3, <1>4 DEF RawLineWhole
  <2> QED
    BY <1>1, <1>2, <1>4, <2>1, RawKeeps
<1>5. CASE failed' = TRUE /\ UNCHANGED written
  <2>1. RawLineWhole' /\ failed' \in BOOLEAN
    BY <1>5 DEF RawLineWhole
  <2> QED
    BY <1>1, <1>2, <1>5, <2>1, RawKeeps
<1>6. CASE ~NeedsNewline /\ UNCHANGED <<written, failed>>
  <2>1. RawLineWhole'
    BY <1>1, <1>2, <1>3, <1>6 DEF RawLineWhole
  <2> QED
    BY <1>1, <1>2, <1>6, <2>1, RawKeeps
<1> QED
  BY <1>4, <1>5, <1>6 DEF RawNewline

\* A raw message that is FATAL ends the process, whether it is written or not.
LEMMA RawEndKeeps ==
  ASSUME StatementInv, RawEnd
  PROVE  StatementInv'
<1>1. /\ ~ended /\ pc = "rawEnd" /\ pc' = "idle" /\ pc \in InRaw
      /\ ended' \in BOOLEAN
      /\ ended' <=> stmt.severity = LOG_FATAL
      /\ UNCHANGED <<build, min_log_level, last_error, stmt, entry, err_, saved, streamed, stream_, logged, left, written, failed>>
  BY DEF RawEnd, Step, messageVars, streamVars, rawVars, InRaw
<1>2. StatementTypeOK'
  BY <1>1 DEF StatementInv, StatementTypeOK, Location
<1>3. ControlInv' /\ ErrorInv'
  BY <1>1 DEF ControlInv, ErrorInv, InMessage, InRaw
<1>4. TextInv' /\ LastErrorKept' /\ RawInv'
  BY <1>1, RawFacts DEF TextInv, LastErrorKept, RawInv, RawLineWhole
<1>5. MustEnd(stmt) <=> stmt.severity = LOG_FATAL
  BY <1>1, RawFacts, MustEndFacts DEF Class
<1>6. EndInv'
  BY <1>1, <1>5, SameStatement DEF EndInv, EndsAsDocumented, FatalStatementsEnd, OnlyFatalEnds
<1> QED
  BY <1>2, <1>3, <1>4, <1>6 DEF StatementInv

\* Before the first statement nothing has been logged and no last error saved.
LEMMA StatementInvInit == StatementInit => StatementInv
<1> SUFFICES ASSUME StatementInit PROVE StatementInv
  OBVIOUS
<1> USE DEF StatementInit
<1>1. StatementTypeOK
  <2>1. streamed \in Texts \cup {<<>>} /\ stream_ \in Seq(Encoded)
    BY EmptySeq
  <2>2. min_log_level \in Int /\ min_log_level <= LOG_FATAL /\ left \in Nat /\ written \in Nat
    BY DEF LOG_FATAL
  <2>3. failed \in BOOLEAN /\ ended \in BOOLEAN
    BY Zenon
  <2>4. {last_error, entry} \subseteq Errors /\ {err_, saved} \subseteq Errors \cup {NULL}
    OBVIOUS
  <2>5. build \in Builds /\ pc \in Location /\ stmt \in Statements \cup {NULL} /\ logged = NULL
    BY DEF Location
  <2> QED
    BY <2>1, <2>2, <2>3, <2>4, <2>5 DEF StatementTypeOK
<1>2. ControlInv /\ ErrorInv /\ TextInv /\ LastErrorKept
  BY DEF ControlInv, ErrorInv, TextInv, LastErrorKept, InMessage, InRaw
<1>3. RawInv /\ EndInv
  BY DEF RawInv, RawLineWhole, EndInv, EndsAsDocumented, FatalStatementsEnd, OnlyFatalEnds
<1> QED
  BY <1>1, <1>2, <1>3 DEF StatementInv

\* Nothing happens.
LEMMA StatementStutters == StatementInv /\ UNCHANGED vars => StatementInv'
<1> SUFFICES ASSUME StatementInv, UNCHANGED vars PROVE StatementInv'
  OBVIOUS
<1>1. UNCHANGED <<build, min_log_level, last_error, pc, stmt, ended, entry, err_, saved, streamed, stream_, logged, left, written, failed>>
  BY DEF vars, messageVars, streamVars, rawVars
<1>2. StatementTypeOK' /\ ControlInv' /\ ErrorInv'
  BY <1>1, SameStatement DEF StatementInv, StatementTypeOK, ControlInv, ErrorInv
<1>3. TextInv' /\ RawInv' /\ (StreamKeepsError => LastErrorKept')
  BY <1>1, SameStatement DEF StatementInv, TextInv, Appended, RawInv, RawLineWhole, LastErrorKept
<1>4. EndInv'
  BY <1>1, SameStatement DEF StatementInv, EndInv, EndsAsDocumented, FatalStatementsEnd, OnlyFatalEnds
<1> QED
  BY <1>2, <1>3, <1>4 DEF StatementInv

\* StatementInv holds of every state of every statement, in every build: it is
\* inductive.
THEOREM StatementInvariant == Spec => []StatementInv
<1>1. StatementInv /\ [Next]_vars => StatementInv'
  BY TestLevelKeeps, EvaluateConditionKeeps, GetErrorKeeps, ConstructStreamKeeps, SaveLastErrorKeeps,
     InitMessageKeeps, AppendErrorKeeps, EmitKeeps, RestoreLastErrorKeeps, DestroyStreamKeeps, RawTestKeeps, RawWriteKeeps,
     RawNewlineKeeps, RawEndKeeps, BeginKeeps, SetMinLogLevelKeeps, StatementStutters
     DEF Next, StatementStep
<1> QED
  BY StatementInvInit, <1>1, PTL DEF Spec

\* The variables keep their types.
THEOREM StatementTypeCorrect == Spec => []StatementTypeOK
<1>1. StatementInv => StatementTypeOK
  BY DEF StatementInv
<1> QED
  BY <1>1, StatementInvariant, PTL

\* A statement that is over leaves the last error it found, if making and
\* destroying its stream, outside SaveLastError, keeps the last error.
THEOREM StatementLastErrorKept == StreamKeepsError /\ Spec => []LastErrorKept
<1>1. ASSUME StreamKeepsError PROVE StatementInv => LastErrorKept
  BY <1>1 DEF StatementInv
<1>2. ASSUME StreamKeepsError PROVE Spec => []LastErrorKept
  BY <1>1, <1>2, StatementInvariant, PTL
<1> QED
  BY <1>2

\* A statement ends the process when its documentation says so, and only then,
\* whatever level is set before or while it executes.
THEOREM StatementEndsAsDocumented == Spec => []EndsAsDocumented
<1>1. StatementInv => EndsAsDocumented
  BY DEF StatementInv, EndInv
<1> QED
  BY <1>1, StatementInvariant, PTL

\* RawLog writes its message whole, with one newline, unless a write fails.
THEOREM StatementRawLineWhole == Spec => []RawLineWhole
<1>1. StatementInv => RawLineWhole
  BY DEF StatementInv, RawInv
<1> QED
  BY <1>1, StatementInvariant, PTL

\* A message is what was streamed, followed by what was appended.
LEMMA MessageText ==
  ASSUME StatementInv, logged # NULL
  PROVE  LET a == Streamed(streamed)
             b == Appended
         IN  /\ streamed \in Seq(Characters)
             /\ a \in Seq(Encoded) /\ b \in Seq(Encoded)
             /\ logged.text \in Seq(Encoded) /\ Len(logged.text) = Len(a) + Len(b)
             /\ \A i \in 1 .. Len(a) : logged.text[i] = a[i]
             /\ SubSeq(logged.text, 1, Len(a)) = a
             /\ SubSeq(logged.text, Len(a) + 1, Len(logged.text)) = b
<1> DEFINE a == Streamed(streamed)
           b == Appended
           text == logged.text
<1>1. streamed \in Seq(Characters) /\ text = a \o b
  BY StatementAssumption DEF StatementInv, TextInv
<1>2. a \in Seq(Encoded)
  BY <1>1, StreamedType DEF Streamed
<1>3. b \in Seq(Encoded)
  BY ErrorTextType, EmptySeq DEF Appended, StatementInv, StatementTypeOK
<1> HIDE DEF a, b, text
<1>4. /\ text \in Seq(Encoded) /\ Len(text) = Len(a) + Len(b)
      /\ \A i \in 1 .. Len(a) : text[i] = a[i]
      /\ \A i \in 1 .. Len(b) : text[Len(a) + i] = b[i]
  <2>1. /\ a \o b \in Seq(Encoded) /\ Len(a \o b) = Len(a) + Len(b)
        /\ \A i \in 1 .. Len(a) + Len(b) : (a \o b)[i] = IF i <= Len(a) THEN a[i] ELSE b[i - Len(a)]
    BY <1>2, <1>3, ConcatProperties
  <2>2. Len(a) \in Nat /\ Len(b) \in Nat
    BY <1>2, <1>3, LenProperties
  <2> QED
    BY <1>1, <2>1, <2>2 DEF text
<1>5. Len(a) \in Nat /\ Len(b) \in Nat
  BY <1>2, <1>3, LenProperties
<1>6. \A i \in 1 .. Len(text) : text[i] \in Encoded
  BY <1>4, ElementOfSeq
<1>7. SubSeq(text, 1, Len(a)) = a
  <2> DEFINE t == SubSeq(text, 1, Len(a))
  <2>1. \A i \in 1 .. Len(a) : text[i] \in Encoded
    BY <1>4, <1>5, <1>6
  <2>2. t \in Seq(Encoded) /\ Len(t) = Len(a) /\ \A i \in 1 .. Len(a) : t[i] = text[i]
    BY <1>5, <2>1, SubSeqProperties
  <2> HIDE DEF t
  <2>3. t = a
    BY <1>2, <1>4, <1>5, <2>2, SeqEqual
  <2> QED
    BY <2>3 DEF t
<1>8. SubSeq(text, Len(a) + 1, Len(text)) = b
  <2> DEFINE t == SubSeq(text, Len(a) + 1, Len(text))
  <2>1. \A i \in Len(a) + 1 .. Len(text) : text[i] \in Encoded
    BY <1>4, <1>5, <1>6
  <2>2. t \in Seq(Encoded) /\ Len(t) = Len(b) /\ \A i \in 1 .. Len(b) : t[i] = text[Len(a) + i]
    BY <1>4, <1>5, <2>1, SubSeqProperties
  <2> HIDE DEF t
  <2>3. t = b
    BY <1>3, <1>4, <1>5, <2>2, SeqEqual
  <2> QED
    BY <2>3 DEF t
<1> QED
  BY <1>1, <1>2, <1>3, <1>4, <1>7, <1>8 DEF a, b, text

\* Wide text the ANSI code page has characters for reaches the message, and the
\* dialog of a debug build, as it was streamed.
THEOREM StatementWideTextKept == Spec => []WideTextKept
<1>1. ASSUME StatementInv PROVE WideTextKept
  <2> SUFFICES ASSUME logged # NULL, streamed \in Seq(Plain)
               PROVE  /\ SubSeq(logged.text, 1, Len(streamed)) = WStringTOString(streamed, "CP_UTF8")
                      /\ logged.dialog # <<>> => SubSeq(logged.dialog, 1, Len(streamed)) = streamed
    BY DEF WideTextKept, Plain
  <2> DEFINE a == Streamed(streamed)
             u == WStringTOString(streamed, "CP_UTF8")
  <2>1. a = u /\ Len(a) = Len(streamed)
    BY StreamedPlain DEF Streamed
  <2>2. /\ streamed \in Seq(Characters) /\ a \in Seq(Encoded) /\ Appended \in Seq(Encoded)
        /\ logged.text \in Seq(Encoded) /\ Len(logged.text) = Len(a) + Len(Appended)
        /\ \A i \in 1 .. Len(a) : logged.text[i] = a[i]
        /\ SubSeq(logged.text, 1, Len(a)) = a
    BY <1>1, MessageText
  <2>3. \A i \in 1 .. Len(u) : u[i] = Encode(streamed[i], "CP_UTF8")
    BY <2>2, ToNarrow DEF CodePages
  <2>4. logged.dialog \in {<<>>, UTF8ToWide(logged.text)}
    BY <1>1 DEF StatementInv, TextInv
  <2> HIDE DEF a, u
  <2>5. Len(streamed) <= Len(logged.text)
    <3>1. Len(a) \in Nat /\ Len(Appended) \in Nat
      BY <2>2, LenProperties
    <3> QED
      BY <2>1, <2>2, <3>1
  <2>6. \A i \in 1 .. Len(streamed) : logged.text[i] = Encode(streamed[i], "CP_UTF8")
    BY <2>1, <2>2, <2>3
  <2>7. SubSeq(UTF8ToWide(logged.text), 1, Len(streamed)) = streamed
    BY <2>2, <2>5, <2>6, ShownPlain
  <2> QED
    BY <2>1, <2>2, <2>4, <2>7 DEF u
<1> QED
  BY <1>1, StatementInvariant, PTL

\* PLOG and the like report the error that was current when they began to log,
\* in the system's own words, when those end as the system ends its lines.
THEOREM StatementPlogReports == EndedSystemText /\ Spec => []PlogReports
<1>1. ASSUME EndedSystemText, StatementInv PROVE PlogReports
  <2>1. ASSUME logged # NULL, Appends
        PROVE  SubSeq(logged.text, Len(Streamed(streamed)) + 1, Len(logged.text))
                 = SystemErrorCodeToString(entry)
    BY <1>1, <2>1, MessageText DEF Appended
  <2>2. entry \in Errors
    BY <1>1 DEF StatementInv, StatementTypeOK
  <2>3. logged # NULL => logged.error = IF Appends THEN entry ELSE NULL
    BY <1>1 DEF StatementInv, TextInv
  <2> QED
    BY <1>1, <2>1, <2>2, <2>3, ErrorText DEF PlogReports
<1>2. ASSUME EndedSystemText PROVE StatementInv => PlogReports
  BY <1>1, <1>2
<1>3. ASSUME EndedSystemText PROVE Spec => []PlogReports
  BY <1>2, <1>3, StatementInvariant, PTL
<1> QED
  BY <1>3
=============================================================================
