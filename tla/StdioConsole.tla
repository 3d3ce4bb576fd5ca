---------------------------- MODULE StdioConsole ----------------------------
(***************************************************************************)
(* RouteStdioToConsole of src/src/stack_trace_win.cc, over the standard    *)
(* output streams of the C runtime.  A stream writes to a file; the        *)
(* descriptors 1 and 2, which the runtime reserves for the streams, are    *)
(* files of their own that code may use directly.                          *)
(***************************************************************************)
CONSTANTS
  Inherited,       \* files the parent process may pass on as stdout or stderr
  HasConsole       \* whether the process may start with a console

Streams == {"stdout", "stderr"}

\* What a stream or descriptor may stand for: nothing, since the start ("none")
\* or since a failed freopen_s ("closed"), what was inherited, or the console.
NoFile == {"none", "closed"}

ASSUME StdioAssumption ==
  /\ Inherited \subseteq {"none", "pipe"} /\ Inherited # {}
  /\ HasConsole \subseteq BOOLEAN /\ HasConsole # {}

VARIABLES
  route,     \* where the main thread stands in RouteStdioToConsole
  stream,    \* the file of each stream
  fd,        \* the file of the descriptor reserved for it
  console,   \* the process is attached to a console
  process    \* "running", or what has ended the process

stdioVars == <<route, stream, fd, console>>

StdioTypeOK ==
  /\ route \in {"done", "testStreams", "attach"} \cup Streams
  /\ stream \in [Streams -> NoFile \cup {"pipe", "console"}]
  /\ fd \in [Streams -> {"none", "pipe", "console"}]
  /\ console \in BOOLEAN

StdioInit ==
  /\ route = "done"
  /\ stream \in [Streams -> Inherited]
  /\ fd = stream
  /\ console \in HasConsole

-----------------------------------------------------------------------------
RouteStdioToConsole == route = "done" /\ route' = "testStreams" /\ UNCHANGED <<stream, fd, console>>

\* Mutant: nothing is changed only if both streams are valid.
TestStreamsBoth ==
  /\ route = "testStreams"
  /\ route' = IF \A s \in Streams : stream[s] \notin NoFile THEN "done" ELSE "attach"
  /\ UNCHANGED <<stream, fd, console, process>>

\* if (_fileno(stdout) >= 0 || _fileno(stderr) >= 0) return;
TestStreams ==
  /\ route = "testStreams"
  /\ route' = IF \E s \in Streams : stream[s] \notin NoFile THEN "done" ELSE "attach"
  /\ UNCHANGED <<stream, fd, console, process>>

\* AttachConsole is denied to a process that has a console; it may find no parent
\* (ERROR_GEN_FAILURE); after any other error AllocConsole is called, whose result
\* is ignored.
Attach ==
  /\ route = "attach"
  /\ \/ console /\ route' = "done" /\ UNCHANGED console
     \/ ~console /\ route' = "done" /\ UNCHANGED console
     \/ ~console /\ route' = "stdout" /\ console' \in BOOLEAN
  /\ UNCHANGED <<stream, fd, process>>

\* if (freopen_s(&pCout, "CONOUT$", "w", stream)) { setvbuf; _dup2 }: freopen_s
\* returns an error, so the branch is taken when the stream could not be opened.
\* The runtime rejects the _dup2 of a closed stream, and may end the process for it.
Reopen(s, next) ==
  /\ route = s
  /\ route' = next
  /\ \/ /\ console
        /\ stream' = [stream EXCEPT ![s] = "console"]
        /\ UNCHANGED process
     \/ /\ ~console
        /\ stream' = [stream EXCEPT ![s] = "closed"]
        /\ process' \in {process, "invalidParameter"}
  /\ UNCHANGED <<fd, console>>

RouteStep == TestStreams \/ Attach \/ Reopen("stdout", "stderr") \/ Reopen("stderr", "done")

-----------------------------------------------------------------------------
\* "Don't change anything if stdout or stderr already point to a valid stream"
\* (stack_trace_win.cc:45-52): what the parent passed on as either of them keeps
\* both as they are, and the process without a new console.
InheritedKept ==
  [][(\E s \in Streams : stream[s] = "pipe") => UNCHANGED <<stream, fd, console>>]_stdioVars

\* "Overwrite FD 1 for the benefit of any code that uses this FD directly"
\* (stack_trace_win.cc:86-90): when the streams have been routed to the console,
\* so have the descriptors.
DescriptorsFollow ==
  route = "done" => \A s \in Streams : stream[s] = "console" => fd[s] = "console"
=============================================================================
