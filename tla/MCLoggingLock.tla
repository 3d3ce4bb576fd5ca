--------------------------- MODULE MCLoggingLock ---------------------------
(* Instances of LoggingLock for TLC: two processes, one or two threads each. *)
EXTENDS LoggingLock, TLC

CONSTANTS p1, p2, m1, w1, m2, w2, log, other, default

MCProcOf == m1 :> p1 @@ w1 :> p1 @@ m2 :> p2 @@ w2 :> p2
MCMainOf == p1 :> m1 @@ p2 :> m2

File(path, mode) ==
  [logging_dest |-> {"file"}, log_file |-> path, lock_log |-> mode, delete_old |-> FALSE]

\* p1 initialises with a mutex or with a critical section and may call
\* InitLogging again with another file; p2 shares the mutex of one of them.
SharedSettings ==
  p1 :> {File(log, "LOCK_LOG_FILE"), File(other, "DONT_LOCK_LOG_FILE")} @@
  p2 :> {File(log, "LOCK_LOG_FILE")}
=============================================================================
