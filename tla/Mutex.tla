------------------------------- MODULE Mutex -------------------------------
(***************************************************************************)
(* What base::Lock promises: a thread that asks for a lock takes it once,  *)
(* when nobody has it, and only a thread that has a lock gives it back.  A *)
(* call that cannot do so does not return.                                 *)
(***************************************************************************)
EXTENDS Naturals

CONSTANTS
  Locks, Threads, NULL

VARIABLES
  taking, giving,   \* the lock each thread is taking, or giving back, or NULL
  taken             \* how often each lock is taken by each thread

mutexVars == <<taking, giving, taken>>

MutexInit ==
  /\ taking = [t \in Threads |-> NULL]
  /\ giving = [t \in Threads |-> NULL]
  /\ taken = [l \in Locks |-> [t \in Threads |-> 0]]

Idle(t) == taking[t] = NULL /\ giving[t] = NULL

CallTake(t, l) ==
  /\ Idle(t)
  /\ taking' = [taking EXCEPT ![t] = l]
  /\ UNCHANGED <<giving, taken>>

\* A thread takes a lock it has asked for, or one it only tries.
Take(t, l) ==
  /\ taking[t] = l \/ Idle(t)
  /\ \A u \in Threads : taken[l][u] = 0
  /\ taken' = [taken EXCEPT ![l][t] = 1]
  /\ taking' = [taking EXCEPT ![t] = NULL]
  /\ UNCHANGED giving

CallGive(t, l) ==
  /\ Idle(t)
  /\ giving' = [giving EXCEPT ![t] = l]
  /\ UNCHANGED <<taking, taken>>

Give(t, l) ==
  /\ giving[t] = l
  /\ taken[l][t] = 1
  /\ taken' = [taken EXCEPT ![l][t] = 0]
  /\ giving' = [giving EXCEPT ![t] = NULL]
  /\ UNCHANGED taking

MutexNext ==
  \E t \in Threads, l \in Locks :
    CallTake(t, l) \/ Take(t, l) \/ CallGive(t, l) \/ Give(t, l)

MutexSpec == MutexInit /\ [][MutexNext]_mutexVars
=============================================================================
