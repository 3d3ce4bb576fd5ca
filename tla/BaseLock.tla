------------------------------ MODULE BaseLock ------------------------------
(***************************************************************************)
(* base::Lock (src/src/lock.h, lock.cc) over a Windows critical section    *)
(* (src/src/lock_impl_win.cc), with the AutoLock and AutoUnlock scopes.    *)
(*                                                                         *)
(* In a debug build every lock also records, while it is held, the thread  *)
(* that holds it, and asserts that the threads use it as documented.  The  *)
(* assertions and the accesses to that record are steps of their own: the  *)
(* record is "implicitly protected" by the critical section only as long   *)
(* as the program keeps the contract the assertions are there to check.    *)
(***************************************************************************)
EXTENDS Naturals, Sequences

CONSTANTS
  Locks,
  Threads,
  NDEBUG,     \* the build: TRUE for release
  Misuses,    \* threads also call the lock against its contract
  MaxDepth,   \* bound: nested scopes of one lock
  NULL

ASSUME BaseLockAssumption ==
  /\ NULL \notin Threads \cup Locks
  /\ NDEBUG \in BOOLEAN /\ Misuses \in BOOLEAN
  /\ MaxDepth \in Nat

VARIABLES
  pc,                  \* where each thread stands in a call of a lock
  using,               \* the lock it calls
  scopes,              \* the scopes it is in of each lock, the innermost last
  section,             \* owner and recursion count of the critical sections
  owning_thread_ref_,  \* the debug record of every lock
  live,                \* the locks that have not been destroyed
  misused,             \* threads that have called against the contract
  aborted              \* an assertion has failed

lockVars == <<pc, using, scopes, section, owning_thread_ref_, live, misused, aborted>>

\* Between calls a thread holds a lock when its innermost scope of it is "lock"
\* (AutoLock, Acquire, a Try that returned true) and not "unlock" (AutoUnlock).
\* Scopes of several locks nest in any order.
Scope == {"lock", "unlock"}
Location == {"out", "enter", "assertUnheld", "mark",
             "assertAcquired", "assertHeld", "unmark", "leave", "assertOnly"}

BaseLockTypeOK ==
  /\ pc \in [Threads -> Location]
  /\ using \in [Threads -> Locks \cup {NULL}]
  /\ scopes \in [Threads -> [Locks -> Seq(Scope)]]
  /\ section \in [Locks -> [owner : Threads \cup {NULL}, count : Nat]]
  /\ \A l \in Locks : section[l].owner = NULL <=> section[l].count = 0
  /\ owning_thread_ref_ \in [Locks -> Threads \cup {NULL}]
  /\ live \subseteq Locks
  /\ misused \subseteq Threads
  /\ aborted \in BOOLEAN

\* Mutant: the default constructor of PlatformThreadRef leaves id_ as it is.
BaseLockInitUnset ==
  /\ pc = [t \in Threads |-> "out"]
  /\ using = [t \in Threads |-> NULL]
  /\ scopes = [t \in Threads |-> [l \in Locks |-> <<>>]]
  /\ section = [l \in Locks |-> [owner |-> NULL, count |-> 0]]
  /\ owning_thread_ref_ \in [Locks -> {NULL, "garbage"}]
  /\ live = Locks
  /\ misused = {}
  /\ aborted = FALSE

BaseLockInit ==
  /\ pc = [t \in Threads |-> "out"]
  /\ using = [t \in Threads |-> NULL]
  /\ scopes = [t \in Threads |-> [l \in Locks |-> <<>>]]
  /\ section = [l \in Locks |-> [owner |-> NULL, count |-> 0]]
  /\ owning_thread_ref_ = [l \in Locks |-> NULL]
  /\ live = Locks
  /\ misused = {}
  /\ aborted = FALSE

-----------------------------------------------------------------------------
Holds(t, l) == scopes[t][l] # <<>> /\ scopes[t][l][Len(scopes[t][l])] = "lock"

Goto(t, from, to) ==
  /\ ~aborted
  /\ pc[t] = from
  /\ pc' = [pc EXCEPT ![t] = to]

\* Thread t uses lock l until its call returns.
Uses(t, l) == using' = [using EXCEPT ![t] = IF pc'[t] = "out" THEN NULL ELSE l]

\* A thread calls lock l; it keeps to the contract when legal.
Calls(t, l, to, legal) ==
  /\ l \in live
  /\ legal \/ Misuses
  /\ Goto(t, "out", to)
  /\ Uses(t, l)
  /\ misused' = IF legal THEN misused ELSE misused \cup {t}
  /\ UNCHANGED <<live, aborted>>

Push(t, l, scope) ==
  /\ Len(scopes[t][l]) < MaxDepth
  /\ scopes' = [scopes EXCEPT ![t][l] = Append(@, scope)]

Pop(t, l) == scopes' = [scopes EXCEPT ![t][l] = SubSeq(@, 1, Len(@) - 1)]

\* assert(owning_thread_ref_ == ref): the process ends unless it does.
AssertRecord(t, ref, from, to) ==
  /\ ~aborted
  /\ pc[t] = from
  /\ \/ /\ owning_thread_ref_[using[t]] = ref
        /\ pc' = [pc EXCEPT ![t] = to]
        /\ UNCHANGED aborted
     \/ /\ owning_thread_ref_[using[t]] # ref
        /\ aborted' = TRUE
        /\ UNCHANGED pc
  /\ Uses(t, using[t])

\* The critical section lets its owner in again.
Entered(t, l) == [owner |-> t, count |-> section[l].count + 1]
Enterable(t, l) == section[l].owner \in {NULL, t}

\* Where Acquire and Release go on once inside, in either build.
AfterEnter == IF NDEBUG THEN "out" ELSE "assertUnheld"
ReleaseFrom == IF NDEBUG THEN "leave" ELSE "assertHeld"
AssertFrom == IF NDEBUG THEN "leave" ELSE "assertAcquired"

(***************************************************************************)
(* Calls.                                                                  *)
(***************************************************************************)

\* lock.Acquire(), AutoLock(lock): not by a thread that holds the lock.
Acquire(t, l) ==
  /\ Calls(t, l, "enter", ~Holds(t, l))
  /\ Push(t, l, "lock")
  /\ UNCHANGED <<section, owning_thread_ref_>>

\* lock.Try(); false, without any effect, when another thread holds the lock.
Try(t, l) ==
  /\ Calls(t, l, AfterEnter, ~Holds(t, l))
  /\ Enterable(t, l)
  /\ section' = [section EXCEPT ![l] = Entered(t, l)]
  /\ Push(t, l, "lock")
  /\ UNCHANGED owning_thread_ref_

\* lock.Release(): only by the thread that holds the lock.
Release(t, l) ==
  /\ Calls(t, l, ReleaseFrom, Holds(t, l))
  /\ IF Holds(t, l) THEN Pop(t, l) ELSE UNCHANGED scopes
  /\ UNCHANGED <<section, owning_thread_ref_>>

\* ~AutoLock: AssertAcquired, then Release.
EndAutoLock(t, l) ==
  /\ Holds(t, l)
  /\ Calls(t, l, AssertFrom, TRUE)
  /\ Pop(t, l)
  /\ UNCHANGED <<section, owning_thread_ref_>>

\* lock.AssertAcquired(), AutoLock(lock, AlreadyAcquired()): nothing in release.
AssertAcquiredOnly(t, l) ==
  /\ ~NDEBUG
  /\ Calls(t, l, "assertOnly", Holds(t, l))
  /\ UNCHANGED <<scopes, section, owning_thread_ref_>>

\* AutoUnlock(lock): AssertAcquired, then Release.
BeginAutoUnlock(t, l) ==
  /\ Calls(t, l, AssertFrom, Holds(t, l))
  /\ Push(t, l, "unlock")
  /\ UNCHANGED <<section, owning_thread_ref_>>

\* ~AutoUnlock: Acquire.
EndAutoUnlock(t, l) ==
  /\ scopes[t][l] # <<>> /\ ~Holds(t, l)
  /\ Calls(t, l, "enter", TRUE)
  /\ Pop(t, l)
  /\ UNCHANGED <<section, owning_thread_ref_>>

\* ~Lock: of a lock that nobody holds.  assert(owning_thread_ref_.is_null());
\* a lock is not destroyed beside a call of it, or inside AutoUnlock.
Destroy(t, l) ==
  /\ ~aborted
  /\ pc[t] = "out"
  /\ l \in live
  /\ \A u \in Threads : using[u] # l /\ (scopes[u][l] # <<>> => Holds(u, l))
  /\ LET legal == \A u \in Threads : ~Holds(u, l) IN
       /\ legal \/ Misuses
       /\ misused' = IF legal THEN misused ELSE misused \cup {t}
  /\ live' = live \ {l}
  /\ aborted' = (~NDEBUG /\ owning_thread_ref_[l] # NULL)
  /\ UNCHANGED <<pc, using, scopes, section, owning_thread_ref_>>

-----------------------------------------------------------------------------
(***************************************************************************)
(* The steps of Lock::Acquire and Lock::Release.                           *)
(***************************************************************************)

\* Mutant: Lock() tries to enter, and does not look at the result.
EnterAnyway(t) ==
  LET l == using[t] IN
  /\ Goto(t, "enter", AfterEnter)
  /\ Uses(t, l)
  /\ section' = IF Enterable(t, l) THEN [section EXCEPT ![l] = Entered(t, l)] ELSE section
  /\ UNCHANGED <<scopes, owning_thread_ref_, live, misused, aborted>>

\* LockImpl::Lock: EnterCriticalSection.
Enter(t) ==
  LET l == using[t] IN
  /\ Goto(t, "enter", AfterEnter)
  /\ Uses(t, l)
  /\ Enterable(t, l)
  /\ section' = [section EXCEPT ![l] = Entered(t, l)]
  /\ UNCHANGED <<scopes, owning_thread_ref_, live, misused, aborted>>

\* Mutant: CheckUnheldAndMark does not assert.
AssertUnheldNot(t) ==
  /\ Goto(t, "assertUnheld", "mark")
  /\ UNCHANGED <<using, scopes, section, owning_thread_ref_, live, misused, aborted>>

\* CheckUnheldAndMark: assert(owning_thread_ref_.is_null());
AssertUnheld(t) ==
  /\ AssertRecord(t, NULL, "assertUnheld", "mark")
  /\ UNCHANGED <<scopes, section, owning_thread_ref_, live, misused>>

Mark(t) ==
  /\ Goto(t, "mark", "out")
  /\ Uses(t, using[t])
  /\ owning_thread_ref_' = [owning_thread_ref_ EXCEPT ![using[t]] = t]
  /\ UNCHANGED <<scopes, section, live, misused, aborted>>

\* AssertAcquired(): reads the record without holding the lock when the contract
\* is broken.
AssertAcquired(t) ==
  /\ \/ AssertRecord(t, t, "assertAcquired", "assertHeld")
     \/ AssertRecord(t, t, "assertOnly", "out")
  /\ UNCHANGED <<scopes, section, owning_thread_ref_, live, misused>>

\* CheckHeldAndUnmark: assert(owning_thread_ref_ == current thread);
AssertHeld(t) ==
  /\ AssertRecord(t, t, "assertHeld", "unmark")
  /\ UNCHANGED <<scopes, section, owning_thread_ref_, live, misused>>

\* Mutant: the record is not cleared.
UnmarkNot(t) ==
  /\ Goto(t, "unmark", "leave")
  /\ UNCHANGED <<using, scopes, section, owning_thread_ref_, live, misused, aborted>>

Unmark(t) ==
  /\ Goto(t, "unmark", "leave")
  /\ owning_thread_ref_' = [owning_thread_ref_ EXCEPT ![using[t]] = NULL]
  /\ UNCHANGED <<using, scopes, section, live, misused, aborted>>

\* Mutant: the section is not left.
LeaveNot(t) ==
  /\ Goto(t, "leave", "out")
  /\ Uses(t, using[t])
  /\ UNCHANGED <<scopes, section, owning_thread_ref_, live, misused, aborted>>

\* LockImpl::Unlock: LeaveCriticalSection; leaving a section one does not own
\* is undefined: it may go unnoticed, or free the section.
Leave(t) ==
  LET l == using[t]
      free == [owner |-> NULL, count |-> 0]
      left == IF section[l].count = 1 THEN free ELSE [section[l] EXCEPT !.count = @ - 1]
  IN
  /\ Goto(t, "leave", "out")
  /\ Uses(t, l)
  /\ \E s \in IF section[l].owner = t THEN {left} ELSE {section[l], free} :
       section' = [section EXCEPT ![l] = s]
  /\ UNCHANGED <<scopes, owning_thread_ref_, live, misused, aborted>>

-----------------------------------------------------------------------------
LockStep(t) ==
  \/ Enter(t) \/ AssertUnheld(t) \/ Mark(t)
  \/ AssertAcquired(t) \/ AssertHeld(t) \/ Unmark(t) \/ Leave(t)

EndScope(t, l) == EndAutoLock(t, l) \/ EndAutoUnlock(t, l)

BaseLockNext ==
  \E t \in Threads :
    \/ LockStep(t)
    \/ \E l \in Locks :
         \/ Acquire(t, l) \/ Try(t, l) \/ Release(t, l)
         \/ AssertAcquiredOnly(t, l) \/ BeginAutoUnlock(t, l)
         \/ EndScope(t, l) \/ Destroy(t, l)

BaseLockSpec == BaseLockInit /\ [][BaseLockNext]_lockVars

\* A thread in a call is scheduled, every scope ends, whatever calls are made in
\* it, and a critical section does not pass over a waiting thread forever.
FairBaseLockSpec ==
  /\ BaseLockSpec
  /\ \A t \in Threads :
       /\ WF_lockVars(LockStep(t)) /\ SF_lockVars(Enter(t))
       /\ \A l \in Locks : SF_lockVars(EndScope(t, l))

-----------------------------------------------------------------------------
(***************************************************************************)
(* Properties.                                                             *)
(***************************************************************************)

\* base::Lock implements a mutex: a call of Acquire that returns has taken a free
\* lock, once, and one of Release has given it back for the thread that had it; in
\* a debug build even in a program that breaks the contract, which stops first.
\* The lock is taken when CheckUnheldAndMark is through with the section.
Checking(t) == pc[t] \in {"assertUnheld", "mark"}

Locking == INSTANCE Mutex WITH
  taking <- [t \in Threads |->
               IF pc[t] = "enter" \/ Checking(t) THEN using[t] ELSE NULL],
  giving <- [t \in Threads |->
               IF pc[t] \in {"assertAcquired", "assertHeld", "unmark", "leave"}
               THEN using[t] ELSE NULL],
  taken <- [l \in Locks |-> [t \in Threads |->
               IF section[l].owner # t THEN 0
               ELSE IF using[t] = l /\ Checking(t) THEN section[l].count - 1
               ELSE section[l].count]]
Excludes == Locking!MutexSpec

\* "We will commonly fire a DCHECK() if a thread attempts to acquire the lock a
\* second time": in a debug build no call against the contract ever returns,
\* whichever thread the record names while it is checked.
MisuseCaught == \A t \in misused : aborted \/ pc[t] # "out"

\* The assertions never end a program that keeps the contract.
NoFalseAlarm == aborted => misused # {}

\* The record names the owner of the section or nobody ("all private data is
\* implicitly protected by lock_"): a released lock never keeps a record that the
\* next owner trips on.
RecordProtected ==
  \A l \in Locks : owning_thread_ref_[l] # NULL => section[l].owner = owning_thread_ref_[l]

\* A thread owns the section of a lock it is not calling, once, exactly when its
\* innermost scope holds that lock: AutoUnlock gives it up and takes it back.
ScopesBalanced ==
  \A t \in Threads, l \in Locks : using[t] # l =>
    (Holds(t, l) <=> section[l] = [owner |-> t, count |-> 1])

\* A thread that waits for a lock gets it, in a program of one lock: threads that
\* take several in different orders may wait for each other.
Served == \A t \in Threads : pc[t] = "enter" ~> (pc[t] # "enter" \/ aborted)
=============================================================================
