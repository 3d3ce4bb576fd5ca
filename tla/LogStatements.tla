--------------------------- MODULE LogStatements ---------------------------
(***************************************************************************)
(* The statements of src/src/logging.h, as the preprocessor expands them   *)
(* in every build, and what one thread does when it executes one: the      *)
(* tests, the life of the LogMessage or Win32ErrorLogMessage, and RawLog.  *)
(* Other threads may call SetMinLogLevel at any time.                      *)
(*                                                                         *)
(* Every function that is called may change the last error of the thread,  *)
(* stream_'s constructor and destructor only where StreamKeepsError is     *)
(* FALSE: they are the library's, and run outside SaveLastError.           *)
(* Where a message goes is the subject of module Logging; here no message  *)
(* or assert handler is installed.  What a message is made of: the wide    *)
(* text the program streams, and the text of a system error, through the   *)
(* conversions of module TextConversion.                                   *)
(***************************************************************************)
EXTENDS TextConversion

CONSTANTS
  Texts,         \* wide strings the program streams
  Levels,        \* what the program passes to SetMinLogLevel
  Lengths,       \* lengths of the messages of RawLog
  WriteFails,    \* write may return -1
  StreamKeepsError,  \* a std::ostringstream is made and destroyed without
                     \* changing the last error
  NULL

LOG_VERBOSE == -1
LOG_INFO == 0
LOG_ERROR == 2
LOG_FATAL == 3
DFATAL == 4   \* the token DFATAL: its severity depends on the build

ASSUME StatementAssumption ==
  /\ NULL \notin Errors /\ Texts \subseteq Seq(Characters)
  /\ Levels \subseteq Int /\ Lengths \subseteq Nat
  /\ WriteFails \in BOOLEAN /\ StreamKeepsError \in BOOLEAN

VARIABLES
  build,           \* which of NDEBUG and DCHECK_ALWAYS_ON are defined
  min_log_level,
  last_error,      \* of the thread
  pc,              \* where it stands in the statement
  stmt,            \* the statement it executes, or has executed
  entry,           \* last_error once the statement is known to log
  err_, saved,     \* of the Win32ErrorLogMessage and of SaveLastError
  streamed,        \* the wide text streamed to the message
  stream_,         \* the message, less its header
  logged,          \* the message logged by the statement, or NULL
  left, written,   \* bytes RawLog has yet to write, and all it has written
  failed,          \* a write has failed
  ended            \* the process has ended

streamVars == <<streamed, stream_>>
messageVars == <<entry, err_, saved, streamVars, logged>>
rawVars == <<left, written, failed>>
vars == <<build, min_log_level, last_error, pc, stmt, messageVars, rawVars, ended>>

-----------------------------------------------------------------------------
(***************************************************************************)
(* The macros.                                                             *)
(***************************************************************************)

Builds == [NDEBUG : BOOLEAN, DCHECK_ALWAYS_ON : BOOLEAN]
DCHECK_IS_ON == ~build.NDEBUG \/ build.DCHECK_ALWAYS_ON

\* Macros with a severity, with both a severity and a condition, and with a
\* condition only.
Leveled == {"LOG", "PLOG", "DLOG", "DPLOG"}
Conditional == {"LOG_IF", "PLOG_IF", "DLOG_IF", "DPLOG_IF"}
Checks == {"LOG_ASSERT", "DLOG_ASSERT", "CHECK", "CHECK_EQ", "PCHECK",
           "DCHECK", "DCHECK_EQ", "DPCHECK", "RAW_CHECK"}

\* A statement: its condition holds or not (it holds when there is none); what
\* RawLog is given has a length and ends with a newline or not.  Only LogAtLevel
\* and RAW_LOG compile with VERBOSE.
Statements ==
  LET Tokens == LOG_INFO .. LOG_FATAL \cup {DFATAL} IN
  [macro : Leveled, severity : Tokens, cond : {TRUE}]
  \cup [macro : Conditional, severity : Tokens, cond : BOOLEAN]
  \cup [macro : {"LogAtLevel"}, severity : LOG_VERBOSE .. LOG_FATAL, cond : {TRUE}]
  \cup [macro : Checks, severity : {LOG_FATAL}, cond : BOOLEAN,
        length : Lengths, newline : {TRUE}]
  \cup [macro : {"RAW_LOG"}, severity : LOG_VERBOSE .. LOG_FATAL, cond : {TRUE},
        length : Lengths, newline : BOOLEAN]

\* LOG_DFATAL.
Severity(s) == IF s.severity # DFATAL THEN s.severity
               ELSE IF build.NDEBUG THEN LOG_ERROR ELSE LOG_FATAL

\* What runs: a class whose object logs, RawLog or BreakDebugger; after LOG_IS_ON
\* or not; always, or if the condition holds, or fails.
Expands(class, leveled, fires) == [class |-> class, leveled |-> leveled, fires |-> fires]
Nothing == Expands("none", FALSE, "always")

\* The macros that DLOG et al. stand for when ENABLE_DLOG is set.
OfDebug(macro) ==
  CASE macro = "DLOG" -> "LOG" [] macro = "DLOG_IF" -> "LOG_IF"
    [] macro = "DPLOG" -> "PLOG" [] macro = "DPLOG_IF" -> "PLOG_IF"
    [] macro = "DLOG_ASSERT" -> "LOG_ASSERT" [] OTHER -> macro

LogExpansion(macro) ==
  CASE macro = "LOG" -> Expands("LogMessage", TRUE, "always")
    [] macro = "LOG_IF" -> Expands("LogMessage", TRUE, "holds")
    [] macro = "LOG_ASSERT" -> Expands("LogMessage", TRUE, "fails")
    [] macro = "PLOG" -> Expands("Win32ErrorLogMessage", TRUE, "always")
    [] macro = "PLOG_IF" -> Expands("Win32ErrorLogMessage", TRUE, "holds")
    [] macro = "LogAtLevel" -> Expands("LogMessage", FALSE, "always")
    [] macro = "RAW_LOG" -> Expands("RawLog", FALSE, "always")
    [] macro = "RAW_CHECK" -> Expands("RawLog", FALSE, "fails")

\* In a release build CHECK et al. discard their message: PCHECK(c) is CHECK(c).
CheckExpansion(macro) ==
  IF build.NDEBUG THEN Expands("BreakDebugger", FALSE, "fails")
  ELSE Expands(IF macro = "PCHECK" THEN "Win32ErrorLogMessage" ELSE "LogMessage", FALSE, "fails")

\* Mutant: DCHECK et al. are CHECK et al. in a release build.
DcheckExpansionAlways(macro) ==
  IF build.NDEBUG THEN CheckExpansion(macro)
  ELSE Expands(IF macro = "DPCHECK" THEN "Win32ErrorLogMessage" ELSE "LogMessage", FALSE, "fails")

DcheckExpansion(macro) ==
  IF ~DCHECK_IS_ON THEN Nothing
  ELSE Expands(IF macro = "DPCHECK" THEN "Win32ErrorLogMessage" ELSE "LogMessage", FALSE, "fails")

\* Mutant: CHECK et al. are controlled by DCHECK_IS_ON.
ExpansionOfChecks(s) ==
  CASE s.macro \in {"CHECK", "CHECK_EQ", "PCHECK"} ->
         IF DCHECK_IS_ON THEN CheckExpansion(s.macro) ELSE Nothing
    [] s.macro \in {"DCHECK", "DCHECK_EQ", "DPCHECK"} -> DcheckExpansion(s.macro)
    [] OfDebug(s.macro) # s.macro /\ build.NDEBUG -> Nothing
    [] OTHER -> LogExpansion(OfDebug(s.macro))

Expansion(s) ==
  CASE s.macro \in {"CHECK", "CHECK_EQ", "PCHECK"} -> CheckExpansion(s.macro)
    [] s.macro \in {"DCHECK", "DCHECK_EQ", "DPCHECK"} -> DcheckExpansion(s.macro)
    [] OfDebug(s.macro) # s.macro /\ build.NDEBUG -> Nothing
    [] OTHER -> LogExpansion(OfDebug(s.macro))

Location == {"idle", "test", "condition", "getError", "construct", "save", "init", "append",
             "emit", "restore", "destroy", "rawTest", "rawWrite", "rawNewline", "rawEnd"}

StatementTypeOK ==
  /\ build \in Builds
  /\ min_log_level \in Int /\ min_log_level <= LOG_FATAL
  /\ {last_error, entry} \subseteq Errors
  /\ {err_, saved} \subseteq Errors \cup {NULL}
  /\ pc \in Location
  /\ stmt \in Statements \cup {NULL}
  /\ streamed \in Texts \cup {<<>>} /\ stream_ \in Seq(Encoded)
  /\ logged = NULL \/ logged \in [severity : LOG_VERBOSE .. LOG_FATAL,
                                 error : Errors \cup {NULL},
                                 text : Seq(Encoded), dialog : Seq(Characters)]
  /\ left \in Nat /\ written \in Nat
  /\ failed \in BOOLEAN /\ ended \in BOOLEAN

StatementInit ==
  /\ build \in Builds
  /\ min_log_level = 0
  /\ last_error \in Errors
  /\ pc = "idle"
  /\ stmt = NULL
  /\ entry = last_error
  /\ err_ = NULL /\ saved = NULL
  /\ streamed = <<>> /\ stream_ = <<>>
  /\ logged = NULL
  /\ left = 0 /\ written = 0
  /\ failed = FALSE /\ ended = FALSE

-----------------------------------------------------------------------------
Step(from, to) == ~ended /\ pc = from /\ pc' = to

\* A call that may change the last error.
Clobber == last_error' \in Errors

\* Mutant: min_log_level = level.
SetMinLogLevelAny(level) ==
  /\ ~ended
  /\ min_log_level' = level
  /\ UNCHANGED <<build, last_error, pc, stmt, messageVars, rawVars, ended>>

\* min_log_level = std::min(LOG_FATAL, level), by any thread.
SetMinLogLevel(level) ==
  /\ ~ended
  /\ min_log_level' = IF level < LOG_FATAL THEN level ELSE LOG_FATAL
  /\ UNCHANGED <<build, last_error, pc, stmt, messageVars, rawVars, ended>>

Begin(s) ==
  /\ Step("idle", "test")
  /\ stmt' = s
  /\ entry' = last_error
  /\ err_' = NULL /\ saved' = NULL /\ logged' = NULL
  /\ streamed' = <<>> /\ stream_' = <<>>
  /\ left' = 0 /\ written' = 0 /\ failed' = FALSE
  /\ UNCHANGED <<build, min_log_level, last_error, ended>>

\* LOG_IS_ON(severity), where the macro asks for it.
TestLevel ==
  LET e == Expansion(stmt) IN
  /\ Step("test", IF e.class = "none" \/ (e.leveled /\ Severity(stmt) < min_log_level)
                  THEN "idle" ELSE "condition")
  /\ UNCHANGED <<build, min_log_level, last_error, stmt, messageVars, rawVars, ended>>

\* Where the expansion goes on once it is to log.
Body(class) == CASE class = "LogMessage" -> "construct"
                 [] class = "Win32ErrorLogMessage" -> "getError"
                 [] class = "RawLog" -> "rawTest"
                 [] OTHER -> "idle"

\* !(condition) ? (void) 0 : ...; BreakDebugger ends the process.
EvaluateCondition ==
  LET e == Expansion(stmt)
      fires == e.fires = "always" \/ (e.fires = "holds" <=> stmt.cond)
  IN
  /\ Step("condition", IF fires THEN Body(e.class) ELSE "idle")
  /\ IF e.fires = "always" THEN UNCHANGED last_error ELSE Clobber
  /\ entry' = last_error'
  /\ ended' = (fires /\ e.class = "BreakDebugger")
  /\ UNCHANGED <<build, min_log_level, stmt, err_, saved, streamVars, logged, rawVars>>

-----------------------------------------------------------------------------
(***************************************************************************)
(* LogMessage and Win32ErrorLogMessage.                                    *)
(***************************************************************************)

\* GetLastSystemErrorCode(), an argument of the constructor.
GetError ==
  /\ Step("getError", "construct")
  /\ err_' = last_error
  /\ UNCHANGED <<build, min_log_level, last_error, stmt, entry, saved, streamVars, logged,
                 rawVars, ended>>

\* What the library does to the last error.
StreamCall == IF StreamKeepsError THEN UNCHANGED last_error ELSE Clobber

\* stream_ is a member before SaveLastError: it is constructed first, and destroyed
\* last.
ConstructStream ==
  /\ Step("construct", "save")
  /\ StreamCall
  /\ UNCHANGED <<build, min_log_level, stmt, messageVars, rawVars, ended>>

\* Mutant: the last error is saved after Init has run.
SaveLastErrorLate ==
  /\ Step("save", "init")
  /\ saved' \in Errors
  /\ UNCHANGED <<build, min_log_level, last_error, stmt, entry, err_, streamVars, logged,
                 rawVars, ended>>

\* SaveLastError is the last member of LogMessage: constructed before the body of
\* the constructor, destroyed after the body of the destructor.
SaveLastError ==
  /\ Step("save", "init")
  /\ saved' = last_error
  /\ UNCHANGED <<build, min_log_level, last_error, stmt, entry, err_, streamVars, logged,
                 rawVars, ended>>

\* out << wstr, for wide text.
Streamed(wstr) == WideToUTF8(wstr)

\* LogMessage::Init writes the header; the program streams the message.
InitMessage ==
  /\ Step("init", IF Expansion(stmt).class = "LogMessage" THEN "emit" ELSE "append")
  /\ \E wstr \in Texts : streamed' = wstr /\ stream_' = Streamed(wstr)
  /\ Clobber
  /\ UNCHANGED <<build, min_log_level, stmt, entry, err_, saved, logged, rawVars, ended>>

\* Mutant: the message gets the error that is current in the destructor.
AppendCurrentError ==
  /\ Step("append", "emit")
  /\ err_' = last_error
  /\ stream_' = stream_ \o SystemErrorCodeToString(last_error)
  /\ Clobber
  /\ UNCHANGED <<build, min_log_level, stmt, entry, saved, streamed, logged, rawVars, ended>>

\* ~Win32ErrorLogMessage appends SystemErrorCodeToString(err_), before the
\* LogMessage it contains is destroyed.  The invalid parameter handler ends the
\* process, unless the program has installed one that returns.
AppendError ==
  /\ Step("append", "emit")
  /\ stream_' = stream_ \o SystemErrorCodeToString(err_)
  /\ ended' \in IF Overflows(err_) THEN BOOLEAN ELSE {FALSE}
  /\ Clobber
  /\ UNCHANGED <<build, min_log_level, stmt, entry, err_, saved, streamed, logged, rawVars>>

\* The body of ~LogMessage; a FATAL message ends the process, in a debug build
\* after a dialog.
Emit ==
  /\ Step("emit", "restore")
  /\ logged' = [severity |-> Severity(stmt), error |-> err_, text |-> stream_,
                dialog |-> IF Severity(stmt) = LOG_FATAL /\ ~build.NDEBUG
                           THEN UTF8ToWide(stream_) ELSE <<>>]
  /\ Clobber
  /\ ended' = (Severity(stmt) = LOG_FATAL)
  /\ UNCHANGED <<build, min_log_level, stmt, entry, err_, saved, streamVars, rawVars>>

\* ~SaveLastError
RestoreLastError ==
  /\ Step("restore", "destroy")
  /\ last_error' = saved
  /\ UNCHANGED <<build, min_log_level, stmt, messageVars, rawVars, ended>>

DestroyStream ==
  /\ Step("destroy", "idle")
  /\ StreamCall
  /\ UNCHANGED <<build, min_log_level, stmt, messageVars, rawVars, ended>>

-----------------------------------------------------------------------------
(***************************************************************************)
(* RawLog(level, message)                                                  *)
(***************************************************************************)

RawTest ==
  /\ Step("rawTest", IF stmt.severity >= min_log_level THEN "rawWrite" ELSE "rawEnd")
  /\ left' = IF stmt.severity >= min_log_level THEN stmt.length ELSE 0
  /\ UNCHANGED <<build, min_log_level, last_error, stmt, messageVars, written, failed, ended>>

\* Mutant: bytes_written = rv.
RawWriteAgain ==
  /\ \/ /\ left > 0
        /\ \E rv \in 1 .. left :
             /\ Step("rawWrite", "rawWrite")
             /\ left' = stmt.length - rv
             /\ written' = written + rv
     \/ left = 0 /\ Step("rawWrite", "rawNewline") /\ UNCHANGED <<left, written>>
  /\ UNCHANGED <<build, min_log_level, last_error, stmt, messageVars, failed, ended>>

\* The program writes what is left; write may write part of it, or fail.  That
\* it writes 0 bytes, after which RawLog only tries again, is a stutter.
RawWrite ==
  /\ \/ /\ left > 0
        /\ \E rv \in 1 .. left :
             /\ Step("rawWrite", "rawWrite")
             /\ left' = left - rv
             /\ written' = written + rv
        /\ UNCHANGED failed
     \/ /\ left > 0 /\ WriteFails
        /\ Step("rawWrite", "rawNewline")
        /\ failed' = TRUE
        /\ UNCHANGED <<left, written>>
     \/ /\ left = 0
        /\ Step("rawWrite", "rawNewline")
        /\ UNCHANGED rawVars
  /\ Clobber
  /\ UNCHANGED <<build, min_log_level, stmt, messageVars, ended>>

\* The newline a message lacks, even after a failed write; writing 0 bytes of it
\* is again a stutter.
NeedsNewline == stmt.length > 0 /\ ~stmt.newline

\* Mutant: a failed write of the newline is tried again.
RawNewlineAgain ==
  /\ \/ /\ Step("rawNewline", "rawEnd")
        /\ NeedsNewline => written' = written + 1
        /\ ~NeedsNewline => UNCHANGED written
        /\ UNCHANGED failed
     \/ /\ Step("rawNewline", "rawNewline")
        /\ NeedsNewline /\ WriteFails
        /\ failed' = TRUE
        /\ UNCHANGED written
  /\ Clobber
  /\ UNCHANGED <<build, min_log_level, stmt, messageVars, left, ended>>

\* do write("\n") while (rv != 1), if the message needs it.
RawNewline ==
  /\ \/ /\ Step("rawNewline", "rawEnd")
        /\ NeedsNewline
        /\ written' = written + 1
        /\ UNCHANGED failed
     \/ /\ Step("rawNewline", "rawEnd")
        /\ NeedsNewline /\ WriteFails
        /\ failed' = TRUE
        /\ UNCHANGED written
     \/ /\ Step("rawNewline", "rawEnd")
        /\ ~NeedsNewline
        /\ UNCHANGED <<written, failed>>
  /\ Clobber
  /\ UNCHANGED <<build, min_log_level, stmt, messageVars, left, ended>>

\* if (level == LOG_FATAL) BreakDebugger();
RawEnd ==
  /\ Step("rawEnd", "idle")
  /\ ended' = (stmt.severity = LOG_FATAL)
  /\ UNCHANGED <<build, min_log_level, last_error, stmt, messageVars, rawVars>>

-----------------------------------------------------------------------------
StatementStep ==
  \/ TestLevel \/ EvaluateCondition
  \/ GetError \/ ConstructStream \/ SaveLastError \/ InitMessage \/ AppendError \/ Emit
  \/ RestoreLastError \/ DestroyStream
  \/ RawTest \/ RawWrite \/ RawNewline \/ RawEnd

Next ==
  \/ StatementStep
  \/ \E s \in Statements : Begin(s)
  \/ \E level \in Levels : SetMinLogLevel(level)

Spec == StatementInit /\ [][Next]_vars

\* The thread is scheduled.
FairSpec == Spec /\ WF_vars(StatementStep)

-----------------------------------------------------------------------------
(***************************************************************************)
(* Properties.                                                             *)
(***************************************************************************)

\* "The code that called the log function" keeps its last error (logging.h:565-569):
\* a statement that is over leaves the one it found, whatever LogMessage's functions
\* have called, unless evaluating its condition has changed it.
LastErrorKept ==
  pc = "idle" /\ ~ended /\ logged # NULL => last_error = entry

\* The statements documented to report the last error.
Appends == stmt.macro \in {"PLOG", "PLOG_IF", "DPLOG", "DPLOG_IF", "PCHECK", "DPCHECK"}

\* PLOG and the like "append the last system error to the message": the one that
\* was current when the statement began to log, not what logging made of it, as
\* one line of the system's own text if it has one that fits.
PlogReports ==
  logged # NULL =>
    /\ logged.error = IF Appends THEN entry ELSE NULL
    /\ Appends =>
         LET text == SystemText[entry]
             appended == SubSeq(logged.text, Len(Streamed(streamed)) + 1, Len(logged.text))
         IN  appended =
               IF text # <<>> /\ Len(CodeText[entry]) + Len(text) + 1 < BufferSize
               THEN CodeText[entry] \o WStringTOString(SubSeq(text, 1, Len(text) - 2), "CP_ACP")
               ELSE <<>>

\* "Non-ASCII characters will be converted to UTF-8 by these operators"
\* (logging.h:660-664), which holds of wide text the ANSI code page has characters
\* for; the dialog of a debug build shows the text as it was streamed.
WideTextKept ==
  logged # NULL /\ streamed \in Seq((Ascii \ {Nul}) \cup Ansi) =>
    /\ SubSeq(logged.text, 1, Len(streamed)) = WStringTOString(streamed, "CP_UTF8")
    /\ logged.dialog # <<>> => SubSeq(logged.dialog, 1, Len(streamed)) = streamed

\* Statements that end the process by their documentation: FATAL messages, in a
\* debug build DFATAL ones, and checks that fail, DCHECKs where they are on.
MustEnd(s) ==
  LET macro == IF build.NDEBUG THEN s.macro ELSE OfDebug(s.macro) IN
  \/ /\ macro \in {"LOG", "PLOG", "LogAtLevel", "RAW_LOG"}
     /\ Severity(s) = LOG_FATAL
  \/ /\ macro \in {"LOG_IF", "PLOG_IF"}
     /\ Severity(s) = LOG_FATAL /\ s.cond
  \/ /\ macro \in {"LOG_ASSERT", "CHECK", "CHECK_EQ", "PCHECK", "RAW_CHECK"}
     /\ ~s.cond
  \/ /\ macro \in {"DCHECK", "DCHECK_EQ", "DPCHECK"}
     /\ DCHECK_IS_ON /\ ~s.cond

\* "LOG_IS_ON(FATAL) always holds ... In particular, CHECK()s will always fire if
\* they fail" (logging.h:266-268): no such statement returns, whatever level is
\* set before or while it executes, in any build.
FatalStatementsEnd == pc = "idle" /\ stmt # NULL => ended \/ ~MustEnd(stmt)

\* No other statement ends the process, except one that appends the text of an
\* error the buffers have no room for.
OnlyFatalEnds == ended => MustEnd(stmt) \/ (Appends /\ Overflows(err_))

\* A statement ends the process when its documentation says so, and only then.
EndsAsDocumented == FatalStatementsEnd /\ OnlyFatalEnds

\* RawLog writes every byte of the message once, and one newline if it lacks
\* one, however the system cuts up the writes, unless one of them fails.
RawLineWhole ==
  ~failed =>
    /\ pc \in {"rawWrite", "rawNewline"} => written + left = stmt.length
    /\ pc = "rawNewline" => left = 0
    /\ pc = "rawEnd" => written \in {0, stmt.length + IF NeedsNewline THEN 1 ELSE 0}

\* Every statement returns or ends the process.
StatementsReturn == pc # "idle" ~> (pc = "idle" \/ ended)
=============================================================================
