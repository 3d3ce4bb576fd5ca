----------------------------- MODULE AtomicLog -----------------------------
(***************************************************************************)
(* What the logging component promises, whatever locks it uses: "make each *)
(* log output atomic" (src/src/logging.h:115-118).  A log statement is     *)
(* called; before it returns its message is appended to one log file, once *)
(* and in one piece, or is lost, or its end is.  A file otherwise changes  *)
(* only when it is deleted, which it never is while a process has it open. *)
(***************************************************************************)
EXTENDS Naturals, Sequences

CONSTANTS
  Files,     \* log files
  Messages   \* records: field id numbers the calls, whole is FALSE for a part

VARIABLES
  content,   \* the messages in each file
  open,      \* the files a process has open
  called,    \* messages of log statements that have neither written nor lost them
  issued     \* the number of log statements called so far

promiseVars == <<content, open, called, issued>>

PromiseInit ==
  /\ content = [f \in Files |-> <<>>]
  /\ open = {}
  /\ called = {}
  /\ issued = 0

Call(m) ==
  /\ m.id = issued + 1 /\ m.whole
  /\ issued' = issued + 1
  /\ called' = called \cup {m}
  /\ UNCHANGED <<content, open>>

Write(m, f) ==
  /\ m \in called /\ f \in open
  /\ \E whole \in BOOLEAN :
       content' = [content EXCEPT ![f] = Append(@, [m EXCEPT !.whole = whole])]
  /\ called' = called \ {m}
  /\ UNCHANGED <<open, issued>>

OpenFile(f) ==
  /\ open' = open \cup {f}
  /\ UNCHANGED <<content, called, issued>>

\* A file is closed, or messages are lost, or both when a process ends.
CloseOrLose ==
  /\ open' \subseteq open
  /\ called' \subseteq called
  /\ UNCHANGED <<content, issued>>

Remove(f) ==
  /\ f \notin open
  /\ content' = [content EXCEPT ![f] = <<>>]
  /\ UNCHANGED <<open, called, issued>>

PromiseNext ==
  \/ \E m \in Messages : Call(m)
  \/ \E m \in called, f \in Files : Write(m, f)
  \/ \E f \in Files : OpenFile(f) \/ Remove(f)
  \/ CloseOrLose

PromiseSpec == PromiseInit /\ [][PromiseNext]_promiseVars
=============================================================================
