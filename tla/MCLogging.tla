----------------------------- MODULE MCLogging -----------------------------
(* Instances of Logging for TLC. *)
EXTENDS Logging, TLC

CONSTANTS p1, p2, m1, w1, m2, log, other, default, fallback, f1, f2, f3, f4

MCProcOf == m1 :> p1 @@ w1 :> p1 @@ m2 :> p2
MCMainOf == p1 :> m1 @@ p2 :> m2
MCProcOf2 == m1 :> p1 @@ m2 :> p2
MCProcOf1 == m1 :> p1 @@ w1 :> p1
MCMainOf1 == p1 :> m1

MCFileOf == log :> f1 @@ other :> f2 @@ default :> f3 @@ fallback :> f4

\* The LoggingSettings with LOG_TO_FILE.
ToFile(path, mode, delete_old) ==
  [logging_dest |-> {"file"}, log_file |-> path, lock_log |-> mode, delete_old |-> delete_old]

\* Two processes log to the default file: one on demand, the other also after an
\* InitLogging that deletes what is there.
OneFile == p1 :> {ToFile(default, "LOCK_LOG_FILE", TRUE)} @@ p2 :> {}

\* One process, with a critical section, redirects its log to another file.
Redirect ==
  p1 :> {ToFile(log, "DONT_LOCK_LOG_FILE", FALSE), ToFile(other, "DONT_LOCK_LOG_FILE", TRUE)}

\* The process uses the file under its mutex; nothing is deleted.
OwnFile == p1 :> {ToFile(log, "LOCK_LOG_FILE", FALSE)}

\* Two processes initialise the mutex of one file; one deletes what is there.
SharedFile ==
  p1 :> {ToFile(log, "LOCK_LOG_FILE", TRUE)} @@ p2 :> {ToFile(log, "LOCK_LOG_FILE", FALSE)}

\* p1 is redirected from one file to the file of p2.
RedirectShared ==
  p1 :> {ToFile(log, "LOCK_LOG_FILE", FALSE), ToFile(other, "LOCK_LOG_FILE", FALSE)} @@
  p2 :> {ToFile(other, "LOCK_LOG_FILE", FALSE)}

\* InitLogging(LoggingSettings()).
DefaultSettings == p1 :> {ToFile(NULL, "LOCK_LOG_FILE", FALSE)}
=============================================================================
