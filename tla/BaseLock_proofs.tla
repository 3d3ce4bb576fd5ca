--------------------------- MODULE BaseLock_proofs ---------------------------
(***************************************************************************)
(* Proofs about BaseLock, for any number of locks and threads, any depth   *)
(* of nested scopes and both builds.                                       *)
(***************************************************************************)
EXTENDS BaseLock, SequenceTheorems, TLAPS

(***************************************************************************)
(* The inductive invariant behind the properties above: at every location  *)
(* it says who owns the section, how often, and whether the record names   *)
(* the owner.  A thread that called against the contract stands before the *)
(* assertion that is going to fail.                                        *)
(***************************************************************************)
\* A debug build, or a program that keeps the contract.
Checked == ~NDEBUG \/ ~Misuses

\* A release build checks nothing: there the contract has to be kept.
ContractKept == NDEBUG => misused = {}

\* Between calls, and in a call that kept to the contract, "unlock" scopes lie
\* directly inside "lock" scopes and the other way round.
Alternates(s) == \A i \in DOMAIN s : s[i] = IF i % 2 = 1 THEN "lock" ELSE "unlock"

\* Locations before the critical section is entered, and after.
WillHold == {"enter", "assertUnheld", "mark", "assertOnly"}
WillRelease == {"assertAcquired", "assertHeld", "unmark", "leave"}

\* Where a call against the contract can stand.
Stops == {"enter", "assertUnheld", "assertAcquired", "assertHeld", "assertOnly"}

InSection(t, l) ==
  IF using[t] # l THEN Holds(t, l)
  ELSE IF t \in misused THEN pc[t] \in {"enter", "assertUnheld"}
  ELSE pc[t] \in Location \ {"out", "enter"}

Recorded(t, l) ==
  /\ ~NDEBUG /\ InSection(t, l)
  /\ using[t] # l \/ t \in misused \/ pc[t] \notin {"assertUnheld", "mark", "leave"}

\* Misuse by a thread that holds the lock lets it in once more.
Entries(t, l) == IF using[t] = l /\ t \in misused /\ pc[t] = "assertUnheld" THEN 2 ELSE 1

UsingInv == \A t \in Threads : using[t] = NULL <=> pc[t] = "out"

ScopesInv ==
  \A t \in Threads \ misused, l \in Locks :
    /\ Alternates(scopes[t][l])
    /\ using[t] = l /\ pc[t] \in WillHold => Holds(t, l)
    /\ using[t] = l /\ pc[t] \in WillRelease => ~Holds(t, l)

\* A call against the contract goes no further than its first assertion.
MisuseInv ==
  /\ misused # {} => Misuses
  /\ \A t \in misused : aborted \/ pc[t] \in Stops

\* A release build asserts nothing.
BuildInv ==
  /\ NDEBUG => \A t \in Threads : pc[t] \in {"out", "enter", "leave"}
  /\ NDEBUG => ~aborted

SectionInv ==
  \A l \in Locks, t \in Threads :
    /\ section[l].owner = t <=> InSection(t, l)
    /\ section[l].owner = t => section[l].count = Entries(t, l)
    /\ owning_thread_ref_[l] = t <=> Recorded(t, l)

BaseLockInv ==
  /\ BaseLockTypeOK /\ UsingInv /\ ScopesInv /\ MisuseInv /\ BuildInv
  /\ SectionInv /\ NoFalseAlarm

(***************************************************************************)
(* Sequences of scopes.                                                    *)
(***************************************************************************)
TopIsLock(s) == s # <<>> /\ s[Len(s)] = "lock"

Popped(s) == SubSeq(s, 1, Len(s) - 1)

\* Entering a scope makes it the innermost one and keeps the others.
LEMMA PushedScope ==
  ASSUME NEW s \in Seq(Scope), NEW x \in Scope
  PROVE  /\ Append(s, x) \in Seq(Scope)
         /\ Append(s, x) # <<>>
         /\ TopIsLock(Append(s, x)) <=> x = "lock"
         /\ Alternates(s) /\ (x = "lock" <=> ~TopIsLock(s)) => Alternates(Append(s, x))
<1>1. /\ Append(s, x) \in Seq(Scope)
      /\ Append(s, x) # <<>>
      /\ Len(Append(s, x)) = Len(s) + 1
      /\ DOMAIN Append(s, x) = 1 .. Len(s) + 1
      /\ \A i \in 1 .. Len(s) : Append(s, x)[i] = s[i]
      /\ Append(s, x)[Len(s) + 1] = x
  BY AppendProperties
<1>2. TopIsLock(Append(s, x)) <=> x = "lock"
  BY <1>1 DEF TopIsLock
<1>3. ASSUME Alternates(s), x = "lock" <=> ~TopIsLock(s)
      PROVE  Alternates(Append(s, x))
  <2>1. Len(s) \in Nat /\ DOMAIN s = 1 .. Len(s)
    OBVIOUS
  <2>2. x = IF (Len(s) + 1) % 2 = 1 THEN "lock" ELSE "unlock"
    <3>1. CASE s = <<>>
      BY <1>3, <3>1 DEF TopIsLock, Scope
    <3>2. CASE s # <<>>
      <4>1. Len(s) \in DOMAIN s
        BY <2>1, <3>2
      <4>2. TopIsLock(s) <=> Len(s) % 2 = 1
        BY <1>3, <3>2, <4>1 DEF TopIsLock, Alternates
      <4> QED
        BY <1>3, <2>1, <4>2 DEF Scope
    <3> QED
      BY <3>1, <3>2
  <2> QED
    BY <1>1, <1>3, <2>1, <2>2 DEF Alternates
<1> QED
  BY <1>1, <1>2, <1>3

\* Leaving the innermost scope.
LEMMA PoppedScope ==
  ASSUME NEW s \in Seq(Scope), s # <<>>
  PROVE  /\ Popped(s) \in Seq(Scope)
         /\ Alternates(s) => Alternates(Popped(s)) /\ (TopIsLock(Popped(s)) <=> ~TopIsLock(s))
<1>1. Len(s) \in Nat /\ Len(s) > 0 /\ DOMAIN s = 1 .. Len(s) /\ \A i \in DOMAIN s : s[i] \in Scope
  OBVIOUS
<1>2. /\ Popped(s) \in Seq(Scope)
      /\ Len(Popped(s)) = Len(s) - 1
      /\ \A i \in 1 .. Len(s) - 1 : Popped(s)[i] = s[i]
  BY <1>1, SubSeqProperties DEF Popped
<1>3. DOMAIN Popped(s) = 1 .. Len(s) - 1
  BY <1>1, <1>2
<1>4. ASSUME Alternates(s)
      PROVE  Alternates(Popped(s)) /\ (TopIsLock(Popped(s)) <=> ~TopIsLock(s))
  <2>1. Alternates(Popped(s))
    BY <1>1, <1>2, <1>3, <1>4 DEF Alternates
  <2>2. TopIsLock(s) <=> Len(s) % 2 = 1
    BY <1>1, <1>4 DEF TopIsLock, Alternates
  <2>3. CASE Len(s) = 1
    BY <1>2, <1>3, <2>1, <2>2, <2>3 DEF TopIsLock
  <2>4. CASE Len(s) > 1
    <3>1. TopIsLock(Popped(s)) <=> (Len(s) - 1) % 2 = 1
      <4>1. Len(s) - 1 \in 1 .. Len(s) - 1 /\ Len(s) - 1 \in DOMAIN s
        BY <1>1, <2>4
      <4>2. Popped(s)[Len(Popped(s))] = s[Len(s) - 1]
        BY <1>2, <4>1
      <4>3. Popped(s) # <<>>
        BY <1>2, <4>1
      <4> QED
        BY <1>4, <4>1, <4>2, <4>3 DEF TopIsLock, Alternates
    <3> QED
      BY <1>1, <2>1, <2>2, <3>1
  <2> QED
    BY <1>1, <2>1, <2>3, <2>4
<1> QED
  BY <1>2, <1>4

\* Entering and leaving scopes of one lock changes those of no other.
LEMMA PushFacts ==
  ASSUME BaseLockTypeOK, NEW t \in Threads, NEW l \in Locks, NEW x \in Scope, Push(t, l, x)
  PROVE  /\ scopes' \in [Threads -> [Locks -> Seq(Scope)]]
         /\ scopes'[t][l] = Append(scopes[t][l], x)
         /\ \A k \in Locks \ {l} : scopes'[t][k] = scopes[t][k]
         /\ \A u \in Threads \ {t} : scopes'[u] = scopes[u]
<1>1. scopes[t][l] \in Seq(Scope) /\ Append(scopes[t][l], x) \in Seq(Scope)
  BY PushedScope DEF BaseLockTypeOK
<1> QED
  BY <1>1 DEF Push, BaseLockTypeOK

\* Leaving a scope takes the innermost one from the scopes of its lock.
LEMMA PopFacts ==
  ASSUME BaseLockTypeOK, NEW t \in Threads, NEW l \in Locks, scopes[t][l] # <<>>, Pop(t, l)
  PROVE  /\ scopes' \in [Threads -> [Locks -> Seq(Scope)]]
         /\ scopes'[t][l] = Popped(scopes[t][l])
         /\ \A k \in Locks \ {l} : scopes'[t][k] = scopes[t][k]
         /\ \A u \in Threads \ {t} : scopes'[u] = scopes[u]
<1>1. scopes[t][l] \in Seq(Scope) /\ Popped(scopes[t][l]) \in Seq(Scope)
  BY PoppedScope DEF BaseLockTypeOK
<1> QED
  BY <1>1 DEF Pop, Popped, BaseLockTypeOK

(***************************************************************************)
(* Types.                                                                  *)
(***************************************************************************)
Counted == [owner : Threads \cup {NULL}, count : Nat]

\* Entering a critical section makes its owner a thread, leaving it takes one
\* from its count.
LEMMA SectionUpdate ==
  ASSUME BaseLockTypeOK, NEW l \in Locks, NEW s \in Counted,
         s.owner = NULL <=> s.count = 0, section' = [section EXCEPT ![l] = s]
  PROVE  /\ section' \in [Locks -> Counted]
         /\ \A k \in Locks : section'[k].owner = NULL <=> section'[k].count = 0
BY DEF BaseLockTypeOK, Counted

\* What Enter leaves in the critical section: an owner and a count that agree.
LEMMA EnteredType ==
  ASSUME BaseLockTypeOK, NEW t \in Threads, NEW l \in Locks
  PROVE  /\ Entered(t, l) \in Counted
         /\ Entered(t, l).owner = NULL <=> Entered(t, l).count = 0
BY BaseLockAssumption DEF BaseLockTypeOK, Counted, Entered

\* A thread that goes on within a call of lock l, or returns from it, uses l or
\* nothing.
LEMMA UsesType ==
  ASSUME BaseLockTypeOK, UsingInv, NEW t \in Threads, NEW l \in Locks, Uses(t, l),
         \A u \in Threads \ {t} : pc'[u] = pc[u]
  PROVE  /\ using' \in [Threads -> Locks \cup {NULL}]
         /\ UsingInv'
         /\ using'[t] = IF pc'[t] = "out" THEN NULL ELSE l
         /\ \A u \in Threads \ {t} : using'[u] = using[u]
BY BaseLockAssumption DEF BaseLockTypeOK, UsingInv, Uses

\* A call keeps the types of all but scopes and sections.
CallTypes ==
  /\ pc \in [Threads -> Location]
  /\ using \in [Threads -> Locks \cup {NULL}] /\ UsingInv
  /\ live \subseteq Locks /\ misused \subseteq Threads /\ aborted \in BOOLEAN

\* Those of a thread that calls a lock.
LEMMA CallsType ==
  ASSUME BaseLockTypeOK, UsingInv, NEW t \in Threads, NEW l, NEW to \in Location,
         NEW legal, Calls(t, l, to, legal)
  PROVE  CallTypes' /\ l \in Locks
<1>1. l \in Locks /\ Uses(t, l) /\ pc' = [pc EXCEPT ![t] = to]
  BY DEF BaseLockTypeOK, Calls, Goto
<1>2. pc' \in [Threads -> Location] /\ \A u \in Threads \ {t} : pc'[u] = pc[u]
  BY <1>1 DEF BaseLockTypeOK
<1>3. live' \subseteq Locks /\ misused' \subseteq Threads /\ aborted' \in BOOLEAN
  BY DEF BaseLockTypeOK, Calls
<1> QED
  BY <1>1, <1>2, <1>3, UsesType DEF CallTypes

\* A step within a call keeps them.
LEMMA StepType ==
  ASSUME BaseLockTypeOK, UsingInv, NEW t \in Threads, NEW from \in Location \ {"out"},
         NEW to \in Location, pc[t] = from, pc' \in {pc, [pc EXCEPT ![t] = to]},
         Uses(t, using[t]), UNCHANGED <<live, misused>>, aborted' \in BOOLEAN
  PROVE  CallTypes' /\ using[t] \in Locks
<1>1. using[t] \in Locks
  BY DEF BaseLockTypeOK, UsingInv
<1>2. pc' \in [Threads -> Location] /\ \A u \in Threads \ {t} : pc'[u] = pc[u]
  BY DEF BaseLockTypeOK
<1>3. live' \subseteq Locks /\ misused' \subseteq Threads
  BY DEF BaseLockTypeOK
<1> QED
  BY <1>1, <1>2, <1>3, UsesType DEF CallTypes

\* The variables keep their types, and a thread in a call uses some lock, under
\* any use of the lock.
LEMMA BaseLockTypeStep ==
  BaseLockTypeOK /\ UsingInv /\ [BaseLockNext]_lockVars => BaseLockTypeOK' /\ UsingInv'
<1> SUFFICES ASSUME BaseLockTypeOK, UsingInv, [BaseLockNext]_lockVars
             PROVE  BaseLockTypeOK' /\ UsingInv'
  OBVIOUS
<1> USE BaseLockAssumption
<1> DEFINE ScopesType == scopes \in [Threads -> [Locks -> Seq(Scope)]]
           SectionsType ==
             /\ section \in [Locks -> Counted]
             /\ \A l \in Locks : section[l].owner = NULL <=> section[l].count = 0
           RecordsType == owning_thread_ref_ \in [Locks -> Threads \cup {NULL}]
<1>0. ScopesType /\ SectionsType /\ RecordsType
  BY DEF BaseLockTypeOK, Counted
<1>1. CallTypes' /\ ScopesType' /\ SectionsType' /\ RecordsType' => BaseLockTypeOK' /\ UsingInv'
  BY DEF CallTypes, BaseLockTypeOK, Counted
<1>2. AfterEnter \in Location /\ ReleaseFrom \in Location /\ AssertFrom \in Location
  BY DEF AfterEnter, ReleaseFrom, AssertFrom, Location
\* A step that enters a section.
<1>3. ASSUME NEW t \in Threads, NEW l \in Locks, section' = [section EXCEPT ![l] = Entered(t, l)]
      PROVE  SectionsType'
  BY <1>3, EnteredType, SectionUpdate
<1>4. ASSUME NEW t \in Threads, NEW l \in Locks, Acquire(t, l)
      PROVE  CallTypes' /\ ScopesType' /\ SectionsType' /\ RecordsType'
  <2>1. Calls(t, l, "enter", ~Holds(t, l)) /\ Push(t, l, "lock") /\ UNCHANGED <<section, owning_thread_ref_>>
    BY <1>4 DEF Acquire
  <2> QED
    BY <1>0, <2>1, CallsType, PushFacts DEF Scope, Location
<1>5. ASSUME NEW t \in Threads, NEW l \in Locks, Try(t, l)
      PROVE  CallTypes' /\ ScopesType' /\ SectionsType' /\ RecordsType'
  <2>1. /\ Calls(t, l, AfterEnter, ~Holds(t, l)) /\ Push(t, l, "lock") /\ UNCHANGED owning_thread_ref_
        /\ section' = [section EXCEPT ![l] = Entered(t, l)]
    BY <1>5 DEF Try
  <2>2. CallTypes' /\ ScopesType'
    BY <1>2, <2>1, CallsType, PushFacts DEF Scope
  <2> QED
    BY <1>0, <1>3, <2>1, <2>2
<1>6. ASSUME NEW t \in Threads, NEW l \in Locks, Release(t, l)
      PROVE  CallTypes' /\ ScopesType' /\ SectionsType' /\ RecordsType'
  <2>1. Calls(t, l, ReleaseFrom, Holds(t, l)) /\ UNCHANGED <<section, owning_thread_ref_>>
    BY <1>6 DEF Release
  <2>2. ScopesType'
    BY <1>0, <1>6, PopFacts DEF Release, Holds
  <2> QED
    BY <1>0, <1>2, <2>1, <2>2, CallsType
<1>7. ASSUME NEW t \in Threads, NEW l \in Locks, EndAutoLock(t, l)
      PROVE  CallTypes' /\ ScopesType' /\ SectionsType' /\ RecordsType'
  <2>1. Calls(t, l, AssertFrom, TRUE) /\ UNCHANGED <<section, owning_thread_ref_>>
    BY <1>7 DEF EndAutoLock
  <2>2. ScopesType'
    BY <1>7, PopFacts DEF EndAutoLock, Holds
  <2> QED
    BY <1>0, <1>2, <2>1, <2>2, CallsType
<1>8. ASSUME NEW t \in Threads, NEW l \in Locks, AssertAcquiredOnly(t, l)
      PROVE  CallTypes' /\ ScopesType' /\ SectionsType' /\ RecordsType'
  <2>1. Calls(t, l, "assertOnly", Holds(t, l)) /\ UNCHANGED <<scopes, section, owning_thread_ref_>>
    BY <1>8 DEF AssertAcquiredOnly
  <2> QED
    BY <1>0, <2>1, CallsType DEF Location
<1>9. ASSUME NEW t \in Threads, NEW l \in Locks, BeginAutoUnlock(t, l)
      PROVE  CallTypes' /\ ScopesType' /\ SectionsType' /\ RecordsType'
  <2>1. Calls(t, l, AssertFrom, Holds(t, l)) /\ Push(t, l, "unlock") /\ UNCHANGED <<section, owning_thread_ref_>>
    BY <1>9 DEF BeginAutoUnlock
  <2> QED
    BY <1>0, <1>2, <2>1, CallsType, PushFacts DEF Scope
<1>10. ASSUME NEW t \in Threads, NEW l \in Locks, EndAutoUnlock(t, l)
       PROVE  CallTypes' /\ ScopesType' /\ SectionsType' /\ RecordsType'
  <2>1. Calls(t, l, "enter", TRUE) /\ UNCHANGED <<section, owning_thread_ref_>>
    BY <1>10 DEF EndAutoUnlock
  <2>2. ScopesType'
    BY <1>10, PopFacts DEF EndAutoUnlock
  <2> QED
    BY <1>0, <2>1, <2>2, CallsType DEF Location
<1>11. ASSUME NEW t \in Threads, NEW l \in Locks, Destroy(t, l) PROVE BaseLockTypeOK' /\ UsingInv'
  BY <1>11 DEF Destroy, BaseLockTypeOK, UsingInv
<1>12. ASSUME NEW t \in Threads, Enter(t)
       PROVE  CallTypes' /\ ScopesType' /\ SectionsType' /\ RecordsType'
  <2>1. /\ pc[t] = "enter" /\ pc' = [pc EXCEPT ![t] = AfterEnter] /\ Uses(t, using[t])
        /\ section' = [section EXCEPT ![using[t]] = Entered(t, using[t])]
        /\ UNCHANGED <<scopes, owning_thread_ref_, live, misused, aborted>>
    BY <1>12 DEF Enter, Goto
  <2>2. CallTypes' /\ using[t] \in Locks
    <3>1. aborted' \in BOOLEAN /\ UNCHANGED <<live, misused>>
      BY <2>1 DEF BaseLockTypeOK
    <3> QED
      BY <1>2, <2>1, <3>1, StepType DEF Location
  <2> QED
    BY <1>0, <1>3, <2>1, <2>2
<1>13. ASSUME NEW t \in Threads, NEW from \in Location \ {"out"}, NEW to \in Location, NEW ref,
              AssertRecord(t, ref, from, to), UNCHANGED <<scopes, section, owning_thread_ref_, live, misused>>
       PROVE  CallTypes' /\ ScopesType' /\ SectionsType' /\ RecordsType'
  <2>1. /\ pc[t] = from /\ pc' \in {pc, [pc EXCEPT ![t] = to]} /\ Uses(t, using[t])
        /\ aborted' \in BOOLEAN
    BY <1>13 DEF AssertRecord, BaseLockTypeOK
  <2>2. UNCHANGED <<live, misused>>
    BY <1>13
  <2>3. CallTypes'
    BY <2>1, <2>2, StepType
  <2> QED
    BY <1>0, <1>13, <2>3
<1>14. ASSUME NEW t \in Threads, Mark(t)
       PROVE  CallTypes' /\ ScopesType' /\ SectionsType' /\ RecordsType'
  <2>1. /\ pc[t] = "mark" /\ pc' = [pc EXCEPT ![t] = "out"] /\ Uses(t, using[t])
        /\ owning_thread_ref_' = [owning_thread_ref_ EXCEPT ![using[t]] = t]
        /\ UNCHANGED <<scopes, section, live, misused, aborted>>
    BY <1>14 DEF Mark, Goto
  <2>2. CallTypes'
    <3>1. aborted' \in BOOLEAN /\ UNCHANGED <<live, misused>>
      BY <2>1 DEF BaseLockTypeOK
    <3> QED
      BY <2>1, <3>1, StepType DEF Location
  <2> QED
    BY <1>0, <2>1, <2>2
<1>15. ASSUME NEW t \in Threads, Unmark(t) PROVE BaseLockTypeOK' /\ UsingInv'
  BY <1>15 DEF Unmark, Goto, BaseLockTypeOK, UsingInv, Location
<1>16. ASSUME NEW t \in Threads, Leave(t)
       PROVE  CallTypes' /\ ScopesType' /\ SectionsType' /\ RecordsType'
  <2> DEFINE l == using[t]
  <2>1. /\ pc[t] = "leave" /\ pc' = [pc EXCEPT ![t] = "out"] /\ Uses(t, l)
        /\ UNCHANGED <<scopes, owning_thread_ref_, live, misused, aborted>>
    BY <1>16 DEF Leave, Goto
  <2>2. CallTypes' /\ l \in Locks
    <3>1. aborted' \in BOOLEAN /\ UNCHANGED <<live, misused>>
      BY <2>1 DEF BaseLockTypeOK
    <3> QED
      BY <2>1, <3>1, StepType DEF Location
  <2>3. PICK s \in IF section[l].owner = t
                   THEN {IF section[l].count = 1 THEN [owner |-> NULL, count |-> 0]
                         ELSE [section[l] EXCEPT !.count = @ - 1]}
                   ELSE {section[l], [owner |-> NULL, count |-> 0]} :
          section' = [section EXCEPT ![l] = s]
    BY <1>16 DEF Leave
  <2>4. section[l] \in Counted /\ (section[l].owner = NULL <=> section[l].count = 0)
    BY <1>0, <2>2
  <2>5. s \in Counted /\ (s.owner = NULL <=> s.count = 0)
    <3>1. CASE section[l].owner = t
      <4>1. section[l].count \in Nat /\ section[l].count # 0
        BY <2>4, <3>1 DEF Counted
      <4>2. s = IF section[l].count = 1 THEN [owner |-> NULL, count |-> 0]
                ELSE [owner |-> t, count |-> section[l].count - 1]
        BY <2>3, <2>4, <3>1 DEF Counted
      <4> QED
        BY <4>1, <4>2 DEF Counted
    <3>2. CASE section[l].owner # t
      BY <2>3, <2>4, <3>2 DEF Counted
    <3> QED
      BY <3>1, <3>2
  <2>6. SectionsType'
    BY <2>2, <2>3, <2>5, SectionUpdate
  <2> QED
    BY <1>0, <2>1, <2>2, <2>6
<1>17. CASE UNCHANGED lockVars
  BY <1>17 DEF lockVars, BaseLockTypeOK, UsingInv
<1>18. ASSUME NEW t \in Threads, AssertUnheld(t) \/ AssertAcquired(t) \/ AssertHeld(t)
       PROVE  CallTypes' /\ ScopesType' /\ SectionsType' /\ RecordsType'
  <2>1. CASE AssertUnheld(t)
    BY <1>13, <2>1 DEF AssertUnheld, Location
  <2>2. CASE AssertHeld(t)
    BY <1>13, <2>2 DEF AssertHeld, Location
  <2>3. CASE AssertAcquired(t)
    BY <1>13, <2>3 DEF AssertAcquired, Location
  <2> QED
    BY <1>18, <2>1, <2>2, <2>3
<1> HIDE DEF ScopesType, SectionsType, RecordsType
<1> QED
  BY <1>1, <1>4, <1>5, <1>6, <1>7, <1>8, <1>9, <1>10, <1>11, <1>12, <1>14, <1>15, <1>16, <1>17,
     <1>18 DEF BaseLockNext, LockStep, EndScope

\* A new lock is free, its record empty, and nobody is using it.
LEMMA BaseLockTypeInit == BaseLockInit => BaseLockTypeOK /\ UsingInv
<1> SUFFICES ASSUME BaseLockInit PROVE BaseLockTypeOK /\ UsingInv
  OBVIOUS
<1>1. scopes \in [Threads -> [Locks -> Seq(Scope)]]
  BY EmptySeq DEF BaseLockInit
<1>2. section \in [Locks -> Counted]
  BY DEF BaseLockInit, Counted
<1>3. \A l \in Locks : section[l].owner = NULL /\ section[l].count = 0
  BY DEF BaseLockInit
<1>4. BaseLockTypeOK
  BY <1>1, <1>2, <1>3 DEF BaseLockInit, BaseLockTypeOK, Location, Counted
<1> QED
  BY <1>4 DEF BaseLockInit, UsingInv

\* Whatever the program does with its locks, a critical section has an owner
\* exactly when its recursion count is not 0, and every variable keeps its type.
THEOREM BaseLockTypeCorrect == BaseLockSpec => []BaseLockTypeOK
BY BaseLockTypeInit, BaseLockTypeStep, PTL DEF BaseLockSpec

(***************************************************************************)
(* The inductive invariant.                                                *)
(***************************************************************************)

\* A step of thread t leaves what the other threads are doing alone.
Others(t) ==
  \A u \in Threads \ {t} :
    /\ pc'[u] = pc[u] /\ using'[u] = using[u] /\ scopes'[u] = scopes[u]
    /\ u \in misused' <=> u \in misused

\* A step of one thread changes neither the scopes of another nor what the other
\* owns and has recorded.
LEMMA OthersKeep ==
  ASSUME NEW t, Others(t), NEW u \in Threads \ {t}, NEW l \in Locks
  PROVE  /\ Holds(u, l)' <=> Holds(u, l)
         /\ InSection(u, l)' <=> InSection(u, l)
         /\ Recorded(u, l)' <=> Recorded(u, l)
         /\ Entries(u, l)' = Entries(u, l)
BY DEF Others, Holds, InSection, Recorded, Entries

\* A step that begins, continues or ends a call of lock l and enters or leaves
\* scopes of l only.
OnLock(t, l) ==
  /\ using[t] \in {NULL, l} /\ using'[t] \in {NULL, l}
  /\ \A k \in Locks \ {l} : scopes'[t][k] = scopes[t][k]

\* Such a step does not change where its thread stands with other locks.
LEMMA OtherLocksKeep ==
  ASSUME NEW t, NEW l \in Locks, OnLock(t, l), NEW k \in Locks \ {l}
  PROVE  /\ Holds(t, k)' <=> Holds(t, k)
         /\ InSection(t, k)' <=> InSection(t, k)
         /\ Recorded(t, k)' <=> Recorded(t, k)
         /\ Entries(t, k)' = Entries(t, k)
         /\ using[t] # k /\ using'[t] # k
<1>1. k # NULL
  BY BaseLockAssumption
<1>2. using[t] # k /\ using'[t] # k
  BY <1>1 DEF OnLock
<1> QED
  BY <1>2 DEF OnLock, Holds, InSection, Recorded, Entries

\* A step that touches neither sections nor records keeps SectionInv when its
\* thread is in the section after it as it was before.
LEMMA SectionKept ==
  ASSUME SectionInv, NEW t \in Threads, NEW l \in Locks, Others(t), OnLock(t, l),
         UNCHANGED <<section, owning_thread_ref_>>,
         InSection(t, l)' <=> InSection(t, l), Recorded(t, l)' <=> Recorded(t, l),
         InSection(t, l) => Entries(t, l)' = Entries(t, l)
  PROVE  SectionInv'
<1> SUFFICES ASSUME NEW k \in Locks, NEW u \in Threads
             PROVE  /\ section'[k].owner = u <=> InSection(u, k)'
                    /\ section'[k].owner = u => section'[k].count = Entries(u, k)'
                    /\ owning_thread_ref_'[k] = u <=> Recorded(u, k)'
  BY DEF SectionInv
<1>1. CASE u # t
  BY <1>1, OthersKeep DEF SectionInv
<1>2. CASE u = t /\ k # l
  BY <1>2, OtherLocksKeep DEF SectionInv
<1>3. CASE u = t /\ k = l
  BY <1>3 DEF SectionInv
<1> QED
  BY <1>1, <1>2, <1>3

\* The parts of the invariant that are about single threads: a step of t keeps
\* them when they hold of t afterwards.
LEMMA ThreadPartsKept ==
  ASSUME ScopesInv, MisuseInv, BuildInv, ~aborted, NEW t \in Threads, NEW l \in Locks,
         Others(t), OnLock(t, l), t \notin misused' => t \notin misused,
         misused' \subseteq Threads,
         t \notin misused' => /\ Alternates(scopes'[t][l])
                              /\ using'[t] = l /\ pc'[t] \in WillHold => Holds(t, l)'
                              /\ using'[t] = l /\ pc'[t] \in WillRelease => ~Holds(t, l)',
         t \in misused' => Misuses /\ pc'[t] \in Stops,
         NDEBUG => pc'[t] \in {"out", "enter", "leave"} /\ ~aborted'
  PROVE  ScopesInv' /\ MisuseInv' /\ BuildInv'
<1>1. ScopesInv'
  <2> SUFFICES ASSUME NEW u \in Threads \ misused', NEW k \in Locks
               PROVE  /\ Alternates(scopes'[u][k])
                      /\ using'[u] = k /\ pc'[u] \in WillHold => Holds(u, k)'
                      /\ using'[u] = k /\ pc'[u] \in WillRelease => ~Holds(u, k)'
    BY DEF ScopesInv
  <2>1. CASE u # t
    BY <2>1, OthersKeep DEF ScopesInv, Others
  <2>2. CASE u = t /\ k # l
    BY <2>2, OtherLocksKeep DEF ScopesInv, OnLock
  <2>3. CASE u = t /\ k = l
    BY <2>3
  <2> QED
    BY <2>1, <2>2, <2>3
<1>2. MisuseInv'
  BY DEF MisuseInv, Others
<1>3. BuildInv'
  BY DEF BuildInv, Others
<1> QED
  BY <1>1, <1>2, <1>3

\* The owner named by a record is the owner of the section.
LEMMA RecordedOwns ==
  ASSUME SectionInv, BaseLockTypeOK
  PROVE  RecordProtected
BY DEF SectionInv, RecordProtected, Recorded, BaseLockTypeOK

\* How a call of lock l starts.
LEMMA CallsFacts ==
  ASSUME BaseLockInv, NEW t \in Threads, NEW l, NEW to \in Location, NEW legal,
         Calls(t, l, to, legal), \A u \in Threads \ {t} : scopes'[u] = scopes[u],
         \A k \in Locks \ {l} : scopes'[t][k] = scopes[t][k]
  PROVE  /\ l \in Locks /\ Others(t) /\ OnLock(t, l)
         /\ pc[t] = "out" /\ pc'[t] = to
         /\ t \notin misused /\ (t \in misused' <=> ~legal)
         /\ misused' \subseteq Threads /\ misused \subseteq misused'
         /\ ~legal => Misuses
         /\ ~aborted /\ ~aborted'
         /\ using[t] = NULL /\ using'[t] = IF to = "out" THEN NULL ELSE l
         /\ scopes[t][l] \in Seq(Scope) /\ Alternates(scopes[t][l])
<1>1. /\ l \in Locks /\ pc[t] = "out" /\ pc' = [pc EXCEPT ![t] = to] /\ ~aborted /\ ~aborted'
      /\ using' = [using EXCEPT ![t] = IF pc'[t] = "out" THEN NULL ELSE l]
      /\ misused' = IF legal THEN misused ELSE misused \cup {t}
      /\ legal \/ Misuses
  BY DEF Calls, Goto, Uses, BaseLockInv, BaseLockTypeOK
<1>2. t \notin misused /\ misused \subseteq Threads
  BY <1>1 DEF BaseLockInv, MisuseInv, BaseLockTypeOK, Stops
<1>3. using[t] = NULL /\ scopes[t][l] \in Seq(Scope) /\ Alternates(scopes[t][l])
  BY <1>1, <1>2 DEF BaseLockInv, BaseLockTypeOK, UsingInv, ScopesInv
<1>4. pc'[t] = to /\ using'[t] = IF to = "out" THEN NULL ELSE l
  BY <1>1 DEF BaseLockInv, BaseLockTypeOK
<1>5. Others(t)
  BY <1>1 DEF Others, BaseLockInv, BaseLockTypeOK
<1>6. OnLock(t, l)
  BY <1>3, <1>4 DEF OnLock
<1> QED
  BY <1>1, <1>2, <1>3, <1>4, <1>5, <1>6

\* A thread between calls, that has not called against the contract, is in the
\* sections it holds.
LEMMA OutFacts ==
  ASSUME BaseLockInv, NEW t \in Threads, pc[t] = "out", ~aborted, NEW l \in Locks
  PROVE  /\ t \notin misused
         /\ InSection(t, l) <=> Holds(t, l)
         /\ Recorded(t, l) <=> ~NDEBUG /\ Holds(t, l)
         /\ Entries(t, l) = 1
<1>1. t \notin misused
  BY DEF BaseLockInv, MisuseInv, Stops
<1>2. using[t] # l
  BY BaseLockAssumption DEF BaseLockInv, UsingInv
<1> QED
  BY <1>1, <1>2 DEF InSection, Recorded, Entries

\* The invariant after a step of thread t that only calls, or only asserts: it
\* touches neither sections nor records.
LEMMA QuietStep ==
  ASSUME BaseLockInv, ~aborted, BaseLockTypeOK', UsingInv', NEW t \in Threads, NEW l \in Locks,
         Others(t), OnLock(t, l), t \notin misused' => t \notin misused,
         UNCHANGED <<section, owning_thread_ref_>>,
         InSection(t, l)' <=> InSection(t, l), Recorded(t, l)' <=> Recorded(t, l),
         InSection(t, l) => Entries(t, l)' = Entries(t, l),
         t \notin misused' => /\ Alternates(scopes'[t][l])
                              /\ using'[t] = l /\ pc'[t] \in WillHold => Holds(t, l)'
                              /\ using'[t] = l /\ pc'[t] \in WillRelease => ~Holds(t, l)',
         t \in misused' => Misuses /\ pc'[t] \in Stops,
         NDEBUG => pc'[t] \in {"out", "enter", "leave"} /\ ~aborted',
         aborted' => misused' # {}
  PROVE  BaseLockInv'
<1>1. SectionInv'
  BY SectionKept DEF BaseLockInv
<1>2. misused' \subseteq Threads
  BY DEF BaseLockTypeOK
<1>3. ScopesInv' /\ MisuseInv' /\ BuildInv'
  BY <1>2, ThreadPartsKept DEF BaseLockInv
<1> QED
  BY <1>1, <1>3 DEF BaseLockInv, NoFalseAlarm

\* A call that goes to location to keeps the invariant: a legal one by a thread
\* that holds the lock goes to an assertion or to leave the section, any other
\* legal one to enter it; an illegal one goes to the assertion it will fail.
LEMMA CallKeeps ==
  ASSUME ContractKept', BaseLockInv, BaseLockTypeOK', UsingInv', NEW t \in Threads, NEW l \in Locks,
         NEW to \in Location \ {"out"}, NEW legal, Calls(t, l, to, legal),
         UNCHANGED <<section, owning_thread_ref_>>,
         \A u \in Threads \ {t} : scopes'[u] = scopes[u],
         \A k \in Locks \ {l} : scopes'[t][k] = scopes[t][k],
         legal => /\ Alternates(scopes'[t][l])
                  /\ to \in WillHold => Holds(t, l)'
                  /\ to \in WillRelease => ~Holds(t, l)'
                  /\ Holds(t, l) <=> to \in {"assertAcquired", "assertHeld", "assertOnly", "leave"}
                  /\ ~Holds(t, l) <=> to = "enter",
         ~legal => IF Holds(t, l) THEN to = "enter"
                   ELSE to \in {"assertAcquired", "assertHeld", "assertOnly"},
         to = "leave" => NDEBUG,
         NDEBUG => to \in {"enter", "leave"}
  PROVE  BaseLockInv'
<1>1. /\ Others(t) /\ OnLock(t, l) /\ pc[t] = "out" /\ pc'[t] = to
      /\ t \in misused' <=> ~legal
      /\ ~legal => Misuses
      /\ ~aborted /\ ~aborted' /\ using'[t] = l /\ t \notin misused
  BY CallsFacts
<1>2. /\ InSection(t, l) <=> Holds(t, l)
      /\ Recorded(t, l) <=> ~NDEBUG /\ Holds(t, l)
      /\ Entries(t, l) = 1
  BY <1>1, OutFacts
<1>3. /\ InSection(t, l)' <=> InSection(t, l)
      /\ Recorded(t, l)' <=> Recorded(t, l)
      /\ Entries(t, l)' = Entries(t, l)
  BY <1>1, <1>2 DEF ContractKept, InSection, Recorded, Entries, Location
<1>4. t \in misused' => pc'[t] \in Stops
  BY <1>1 DEF Stops
<1> QED
  BY <1>1, <1>3, <1>4, QuietStep

\* A call of Acquire, which only moves its thread, keeps the invariant.
LEMMA AcquireKeeps ==
  ASSUME ContractKept', BaseLockInv, BaseLockTypeOK', UsingInv', NEW t \in Threads, NEW l \in Locks,
         Acquire(t, l)
  PROVE  BaseLockInv'
<1>1. Calls(t, l, "enter", ~Holds(t, l)) /\ Push(t, l, "lock") /\ UNCHANGED <<section, owning_thread_ref_>>
  BY DEF Acquire
<1>2. /\ \A u \in Threads \ {t} : scopes'[u] = scopes[u]
      /\ \A k \in Locks \ {l} : scopes'[t][k] = scopes[t][k]
      /\ scopes'[t][l] = Append(scopes[t][l], "lock")
  BY <1>1, PushFacts DEF BaseLockInv, Scope
<1>3. scopes[t][l] \in Seq(Scope) /\ Alternates(scopes[t][l])
  <2>1. "enter" \in Location
    BY DEF Location
  <2> QED
    BY <1>1, <1>2, <2>1, CallsFacts
<1>4. Holds(t, l)' /\ (~Holds(t, l) => Alternates(scopes'[t][l]))
  BY <1>2, <1>3, PushedScope DEF Scope, Holds, TopIsLock
<1> QED
  BY <1>1, <1>2, <1>4, CallKeeps DEF WillHold, WillRelease, Location

\* A call of Release outside a scope, for or against the contract, keeps the
\* invariant.
LEMMA ReleaseKeeps ==
  ASSUME ContractKept', BaseLockInv, BaseLockTypeOK', UsingInv', NEW t \in Threads, NEW l \in Locks,
         Release(t, l)
  PROVE  BaseLockInv'
<1>1. Calls(t, l, ReleaseFrom, Holds(t, l)) /\ UNCHANGED <<section, owning_thread_ref_>>
  BY DEF Release
<1>2. /\ \A u \in Threads \ {t} : scopes'[u] = scopes[u]
      /\ \A k \in Locks \ {l} : scopes'[t][k] = scopes[t][k]
      /\ Holds(t, l) => scopes'[t][l] = Popped(scopes[t][l])
  BY PopFacts DEF Release, Holds, BaseLockInv
<1>3. ReleaseFrom \in Location \ {"out"}
  BY DEF ReleaseFrom, Location
<1>4. scopes[t][l] \in Seq(Scope) /\ Alternates(scopes[t][l]) /\ (~Holds(t, l) => t \in misused')
  BY <1>1, <1>2, <1>3, CallsFacts
<1>5. Holds(t, l) => ~Holds(t, l)' /\ Alternates(scopes'[t][l])
  BY <1>2, <1>4, PoppedScope DEF Holds, TopIsLock
<1> QED
  BY <1>1, <1>2, <1>3, <1>4, <1>5, CallKeeps DEF ContractKept, WillHold, WillRelease, ReleaseFrom

\* ~AutoLock keeps the invariant up to the release it calls.
LEMMA EndAutoLockKeeps ==
  ASSUME ContractKept', BaseLockInv, BaseLockTypeOK', UsingInv', NEW t \in Threads, NEW l \in Locks,
         EndAutoLock(t, l)
  PROVE  BaseLockInv'
<1>1. /\ Holds(t, l) /\ Calls(t, l, AssertFrom, TRUE)
      /\ UNCHANGED <<section, owning_thread_ref_>>
  BY DEF EndAutoLock
<1>2. /\ \A u \in Threads \ {t} : scopes'[u] = scopes[u]
      /\ \A k \in Locks \ {l} : scopes'[t][k] = scopes[t][k]
      /\ scopes'[t][l] = Popped(scopes[t][l])
  BY PopFacts DEF EndAutoLock, Holds, BaseLockInv
<1>3. AssertFrom \in Location \ {"out"}
  BY DEF AssertFrom, Location
<1>4. scopes[t][l] \in Seq(Scope) /\ Alternates(scopes[t][l])
  BY <1>1, <1>2, <1>3, CallsFacts
<1>5. ~Holds(t, l)' /\ Alternates(scopes'[t][l])
  BY <1>1, <1>2, <1>4, PoppedScope DEF Holds, TopIsLock
<1> QED
  BY <1>1, <1>2, <1>3, <1>4, <1>5, CallKeeps DEF WillHold, WillRelease, AssertFrom

\* The call of AssertAcquired alone, which only moves its thread, keeps the
\* invariant.
LEMMA AssertAcquiredOnlyKeeps ==
  ASSUME ContractKept', BaseLockInv, BaseLockTypeOK', UsingInv', NEW t \in Threads, NEW l \in Locks,
         AssertAcquiredOnly(t, l)
  PROVE  BaseLockInv'
<1>1. ~NDEBUG /\ Calls(t, l, "assertOnly", Holds(t, l)) /\ UNCHANGED <<scopes, section, owning_thread_ref_>>
  BY DEF AssertAcquiredOnly
<1>2. /\ \A u \in Threads \ {t} : scopes'[u] = scopes[u]
      /\ \A k \in Locks : scopes'[t][k] = scopes[t][k]
      /\ pc[t] = "out" /\ ~aborted
  BY <1>1 DEF Calls, Goto
<1>3. scopes[t][l] \in Seq(Scope) /\ Alternates(scopes[t][l])
  BY <1>2, OutFacts DEF BaseLockInv, BaseLockTypeOK, ScopesInv
<1>4. Holds(t, l)' <=> Holds(t, l)
  BY <1>1 DEF Holds
<1> QED
  BY <1>1, <1>2, <1>3, <1>4, CallKeeps DEF WillHold, WillRelease, Location

\* The constructor of AutoUnlock keeps the invariant up to the release it calls.
LEMMA BeginAutoUnlockKeeps ==
  ASSUME ContractKept', BaseLockInv, BaseLockTypeOK', UsingInv', NEW t \in Threads, NEW l \in Locks,
         BeginAutoUnlock(t, l)
  PROVE  BaseLockInv'
<1>1. Calls(t, l, AssertFrom, Holds(t, l)) /\ Push(t, l, "unlock") /\ UNCHANGED <<section, owning_thread_ref_>>
  BY DEF BeginAutoUnlock
<1>2. /\ \A u \in Threads \ {t} : scopes'[u] = scopes[u]
      /\ \A k \in Locks \ {l} : scopes'[t][k] = scopes[t][k]
      /\ scopes'[t][l] = Append(scopes[t][l], "unlock")
  BY <1>1, PushFacts DEF BaseLockInv, Scope
<1>3. AssertFrom \in Location \ {"out"}
  BY DEF AssertFrom, Location
<1>4. scopes[t][l] \in Seq(Scope) /\ Alternates(scopes[t][l]) /\ (~Holds(t, l) => t \in misused')
  BY <1>1, <1>2, <1>3, CallsFacts
<1>5. ~Holds(t, l)' /\ (Holds(t, l) => Alternates(scopes'[t][l]))
  BY <1>2, <1>4, PushedScope DEF Scope, Holds, TopIsLock
<1> QED
  BY <1>1, <1>2, <1>3, <1>4, <1>5, CallKeeps DEF ContractKept, WillHold, WillRelease, AssertFrom

\* ~AutoUnlock keeps the invariant up to the acquisition it calls.
LEMMA EndAutoUnlockKeeps ==
  ASSUME ContractKept', BaseLockInv, BaseLockTypeOK', UsingInv', NEW t \in Threads, NEW l \in Locks,
         EndAutoUnlock(t, l)
  PROVE  BaseLockInv'
<1>1. /\ scopes[t][l] # <<>> /\ ~Holds(t, l) /\ Calls(t, l, "enter", TRUE)
      /\ UNCHANGED <<section, owning_thread_ref_>>
  BY DEF EndAutoUnlock
<1>2. /\ \A u \in Threads \ {t} : scopes'[u] = scopes[u]
      /\ \A k \in Locks \ {l} : scopes'[t][k] = scopes[t][k]
      /\ scopes'[t][l] = Popped(scopes[t][l])
  BY PopFacts DEF EndAutoUnlock, BaseLockInv
<1>3. scopes[t][l] \in Seq(Scope) /\ Alternates(scopes[t][l])
  <2>1. "enter" \in Location
    BY DEF Location
  <2> QED
    BY <1>1, <1>2, <2>1, CallsFacts
<1>4. Holds(t, l)' /\ Alternates(scopes'[t][l])
  BY <1>1, <1>2, <1>3, PoppedScope DEF Holds, TopIsLock
<1> QED
  BY <1>1, <1>2, <1>4, CallKeeps DEF WillHold, WillRelease, Location

\* Destroying a lock fails its assertion exactly when a thread holds it.
LEMMA DestroyKeeps ==
  ASSUME ContractKept', BaseLockInv, BaseLockTypeOK', UsingInv', NEW t \in Threads, NEW l \in Locks,
         Destroy(t, l)
  PROVE  BaseLockInv'
<1> DEFINE legal == \A u \in Threads : ~Holds(u, l)
<1>1. /\ UNCHANGED <<pc, using, scopes, section, owning_thread_ref_>>
      /\ ~aborted
      /\ aborted' = (~NDEBUG /\ owning_thread_ref_[l] # NULL)
      /\ \A u \in Threads : using[u] # l
      /\ misused' = IF legal THEN misused ELSE misused \cup {t}
      /\ legal \/ Misuses
      /\ pc[t] = "out"
  BY DEF Destroy
<1> HIDE DEF legal
<1>2. SectionInv'
  <2>1. \A u \in Threads, k \in Locks :
          /\ Holds(u, k)' <=> Holds(u, k)
          /\ using[u] = k => u # t
          /\ u # t => (u \in misused' <=> u \in misused)
    BY <1>1, BaseLockAssumption DEF Holds, BaseLockInv, UsingInv
  <2>2. \A u \in Threads, k \in Locks :
          /\ InSection(u, k)' <=> InSection(u, k)
          /\ Recorded(u, k)' <=> Recorded(u, k)
          /\ Entries(u, k)' = Entries(u, k)
    BY <1>1, <2>1 DEF InSection, Recorded, Entries
  <2> QED
    BY <1>1, <2>2 DEF BaseLockInv, SectionInv
<1>3. \A u \in Threads : owning_thread_ref_[l] = u <=> ~NDEBUG /\ Holds(u, l)
  BY <1>1 DEF BaseLockInv, SectionInv, InSection, Recorded
<1>4. aborted' <=> ~NDEBUG /\ ~legal
  BY <1>1, <1>3, BaseLockAssumption DEF legal, BaseLockInv, BaseLockTypeOK
<1>5. aborted' <=> ~legal
  BY <1>1, <1>4 DEF ContractKept
<1>6. ScopesInv' /\ MisuseInv' /\ BuildInv'
  BY <1>1, <1>4, <1>5 DEF BaseLockInv, ScopesInv, MisuseInv, BuildInv, Holds
<1>7. NoFalseAlarm'
  BY <1>1, <1>5 DEF NoFalseAlarm
<1> QED
  BY <1>2, <1>6, <1>7 DEF BaseLockInv

(***************************************************************************)
(* Entering and leaving the section.                                       *)
(***************************************************************************)

\* A step of thread t on lock l keeps SectionInv when it does so for that lock
\* and changes the section and the record of no other.
LEMMA OneLockKept ==
  ASSUME SectionInv, NEW t \in Threads, NEW l \in Locks, Others(t), OnLock(t, l),
         \A k \in Locks \ {l} : /\ section'[k] = section[k]
                                /\ owning_thread_ref_'[k] = owning_thread_ref_[k],
         \A u \in Threads :
           /\ section'[l].owner = u <=> InSection(u, l)'
           /\ section'[l].owner = u => section'[l].count = Entries(u, l)'
           /\ owning_thread_ref_'[l] = u <=> Recorded(u, l)'
  PROVE  SectionInv'
<1> SUFFICES ASSUME NEW k \in Locks \ {l}, NEW u \in Threads
             PROVE  /\ section'[k].owner = u <=> InSection(u, k)'
                    /\ section'[k].owner = u => section'[k].count = Entries(u, k)'
                    /\ owning_thread_ref_'[k] = u <=> Recorded(u, k)'
  BY DEF SectionInv
<1>1. CASE u # t
  BY <1>1, OthersKeep DEF SectionInv
<1>2. CASE u = t
  BY <1>2, OtherLocksKeep DEF SectionInv
<1> QED
  BY <1>1, <1>2

\* Thread t is in the section after it has entered it, for the second time if
\* it was in it before.
LEMMA EnterSection ==
  ASSUME BaseLockTypeOK, SectionInv, NEW t \in Threads, NEW l \in Locks, Others(t), OnLock(t, l),
         UNCHANGED owning_thread_ref_,
         Enterable(t, l), section' = [section EXCEPT ![l] = Entered(t, l)],
         InSection(t, l) => Entries(t, l) = 1,
         InSection(t, l)', Entries(t, l)' = IF InSection(t, l) THEN 2 ELSE 1,
         Recorded(t, l)' <=> Recorded(t, l)
  PROVE  SectionInv'
<1>1. /\ section'[l] = [owner |-> t, count |-> section[l].count + 1]
      /\ \A k \in Locks \ {l} : section'[k] = section[k]
  BY DEF BaseLockTypeOK, Entered
<1>2. section[l].owner = t \/ (section[l].owner = NULL /\ section[l].count = 0)
  BY DEF Enterable, BaseLockTypeOK
<1>3. section[l].owner = t => section[l].count = 1 /\ InSection(t, l)
  BY DEF SectionInv
<1>4. section'[l].count = Entries(t, l)'
  BY <1>1, <1>2, <1>3, BaseLockAssumption DEF SectionInv
<1>5. ASSUME NEW u \in Threads
      PROVE  /\ section'[l].owner = u <=> InSection(u, l)'
             /\ section'[l].owner = u => section'[l].count = Entries(u, l)'
             /\ owning_thread_ref_'[l] = u <=> Recorded(u, l)'
  <2>1. CASE u = t
    BY <1>1, <1>4, <2>1 DEF SectionInv
  <2>2. CASE u # t
    <3>1. section[l].owner # u
      BY <1>2, <2>2, BaseLockAssumption
    <3> QED
      BY <1>1, <2>2, <3>1, OthersKeep DEF SectionInv
  <2> QED
    BY <2>1, <2>2
<1> QED
  BY <1>1, <1>5, OneLockKept

\* The first entry of thread t is undone when it leaves.
LEMMA LeaveSection ==
  ASSUME BaseLockTypeOK, SectionInv, NEW t \in Threads, NEW l \in Locks, Others(t), OnLock(t, l),
         UNCHANGED owning_thread_ref_,
         InSection(t, l), ~Recorded(t, l),
         section' = [section EXCEPT ![l] = [owner |-> NULL, count |-> 0]],
         ~InSection(t, l)'
  PROVE  SectionInv'
<1>1. ~Recorded(t, l)'
  BY DEF Recorded
<1>2. /\ section'[l] = [owner |-> NULL, count |-> 0]
      /\ \A k \in Locks \ {l} : section'[k] = section[k]
  BY DEF BaseLockTypeOK
<1>3. section[l].owner = t
  BY DEF SectionInv
<1>4. ASSUME NEW u \in Threads
      PROVE  /\ section'[l].owner # u /\ ~InSection(u, l)'
             /\ owning_thread_ref_'[l] = u <=> Recorded(u, l)'
  <2>1. section'[l].owner # u
    BY <1>2, BaseLockAssumption
  <2>2. CASE u = t
    BY <1>1, <2>1, <2>2 DEF SectionInv
  <2>3. CASE u # t
    BY <1>3, <2>1, <2>3, OthersKeep DEF SectionInv
  <2> QED
    BY <2>2, <2>3
<1> QED
  BY <1>2, <1>4, OneLockKept

\* Writing the record of the section one is in.
LEMMA RecordSection ==
  ASSUME BaseLockTypeOK, SectionInv, NEW t \in Threads, NEW l \in Locks, Others(t), OnLock(t, l),
         UNCHANGED section, NEW r \in {t, NULL},
         owning_thread_ref_' = [owning_thread_ref_ EXCEPT ![l] = r],
         InSection(t, l), InSection(t, l)', Entries(t, l)' = Entries(t, l),
         Recorded(t, l)' <=> r = t
  PROVE  SectionInv'
<1>1. owning_thread_ref_'[l] = r /\ \A k \in Locks \ {l} : owning_thread_ref_'[k] = owning_thread_ref_[k]
  BY DEF BaseLockTypeOK
<1>2. section[l].owner = t
  BY DEF SectionInv
<1>3. ASSUME NEW u \in Threads
      PROVE  /\ section'[l].owner = u <=> InSection(u, l)'
             /\ section'[l].owner = u => section'[l].count = Entries(u, l)'
             /\ owning_thread_ref_'[l] = u <=> Recorded(u, l)'
  <2>1. CASE u = t
    BY <1>1, <1>2, <2>1 DEF SectionInv
  <2>2. CASE u # t
    <3>1. ~InSection(u, l) /\ ~InSection(u, l)'
      BY <1>2, <2>2, OthersKeep DEF SectionInv
    <3> QED
      BY <1>1, <1>2, <2>2, <3>1, BaseLockAssumption DEF Recorded
  <2> QED
    BY <2>1, <2>2
<1> QED
  BY <1>1, <1>3, OneLockKept

\* Try keeps the invariant, whether it gets the lock, fails, or asserts.
LEMMA TryKeeps ==
  ASSUME ContractKept', BaseLockInv, BaseLockTypeOK', UsingInv', NEW t \in Threads, NEW l \in Locks,
         Try(t, l)
  PROVE  BaseLockInv'
<1> DEFINE legal == ~Holds(t, l)
<1>1. /\ Calls(t, l, AfterEnter, legal) /\ UNCHANGED owning_thread_ref_
      /\ Enterable(t, l) /\ section' = [section EXCEPT ![l] = Entered(t, l)]
  BY DEF Try
<1>2. /\ \A u \in Threads \ {t} : scopes'[u] = scopes[u]
      /\ \A k \in Locks \ {l} : scopes'[t][k] = scopes[t][k]
      /\ scopes'[t][l] = Append(scopes[t][l], "lock")
  BY PushFacts DEF Try, BaseLockInv, Scope
<1>3. AfterEnter \in Location
  BY DEF AfterEnter, Location
<1>4. /\ Others(t) /\ OnLock(t, l) /\ pc[t] = "out" /\ pc'[t] = AfterEnter
      /\ t \notin misused /\ (t \in misused' <=> Holds(t, l))
      /\ Holds(t, l) => Misuses
      /\ misused' \subseteq Threads
      /\ ~aborted /\ ~aborted' /\ using'[t] = IF AfterEnter = "out" THEN NULL ELSE l
      /\ scopes[t][l] \in Seq(Scope) /\ Alternates(scopes[t][l])
  <2> HIDE DEF legal
  <2>1. /\ Others(t) /\ OnLock(t, l) /\ pc[t] = "out" /\ pc'[t] = AfterEnter
        /\ t \notin misused /\ (t \in misused' <=> ~legal)
        /\ ~legal => Misuses
        /\ misused' \subseteq Threads
        /\ ~aborted /\ ~aborted' /\ using'[t] = IF AfterEnter = "out" THEN NULL ELSE l
        /\ scopes[t][l] \in Seq(Scope) /\ Alternates(scopes[t][l])
    BY <1>1, <1>2, <1>3, CallsFacts
  <2> QED
    BY <2>1 DEF legal
<1>5. Holds(t, l)' /\ (~Holds(t, l) => Alternates(scopes'[t][l]))
  BY <1>2, <1>4, PushedScope DEF Scope, Holds, TopIsLock
<1>6. /\ InSection(t, l) <=> Holds(t, l)
      /\ Recorded(t, l) <=> ~NDEBUG /\ Holds(t, l)
      /\ Entries(t, l) = 1
  BY <1>4, OutFacts
<1>7. /\ InSection(t, l)'
      /\ Recorded(t, l)' <=> Recorded(t, l)
      /\ Entries(t, l)' = IF InSection(t, l) THEN 2 ELSE 1
  <2>1. CASE NDEBUG
    <3>1. using'[t] # l /\ ~Holds(t, l)
      BY <1>4, <2>1, BaseLockAssumption DEF ContractKept, AfterEnter
    <3> QED
      BY <1>5, <1>6, <2>1, <3>1 DEF InSection, Recorded, Entries
  <2>2. CASE ~NDEBUG
    <3>1. using'[t] = l /\ pc'[t] = "assertUnheld"
      BY <1>4, <2>2 DEF AfterEnter
    <3> QED
      BY <1>4, <1>6, <2>2, <3>1 DEF InSection, Recorded, Entries, Location
  <2> QED
    BY <2>1, <2>2
<1>8. SectionInv'
  BY <1>1, <1>4, <1>6, <1>7, EnterSection DEF BaseLockInv
<1>9. ScopesInv' /\ MisuseInv' /\ BuildInv'
  <2>1. pc'[t] \notin WillRelease /\ (NDEBUG => pc'[t] = "out" /\ t \notin misused')
    BY <1>4 DEF ContractKept, AfterEnter, WillRelease
  <2>2. ~NDEBUG => pc'[t] \in Stops
    BY <1>4 DEF AfterEnter, Stops
  <2> QED
    BY <1>4, <1>5, <2>1, <2>2, ThreadPartsKept DEF BaseLockInv
<1> QED
  BY <1>4, <1>8, <1>9 DEF BaseLockInv, NoFalseAlarm

\* A step within a call of thread t.
InCall(t) ==
  /\ ~aborted /\ pc[t] # "out"
  /\ \A u \in Threads \ {t} : pc'[u] = pc[u]
  /\ Uses(t, using[t])
  /\ UNCHANGED <<scopes, misused>>

\* A thread in a call uses some lock.
LEMMA InCallUses ==
  ASSUME BaseLockInv, NEW t \in Threads, pc[t] # "out"
  PROVE  \E l \in Locks : using[t] = l
BY DEF BaseLockInv, BaseLockTypeOK, UsingInv

\* What every such step starts from, and where it leads.
LEMMA StepFacts ==
  ASSUME BaseLockInv, NEW t \in Threads, NEW l \in Locks, using[t] = l, InCall(t)
  PROVE  /\ Others(t) /\ OnLock(t, l)
         /\ using'[t] = IF pc'[t] = "out" THEN NULL ELSE l
         /\ Holds(t, l)' <=> Holds(t, l)
         /\ t \in misused' <=> t \in misused
         /\ misused' \subseteq Threads /\ misused \subseteq Threads
         /\ t \notin misused => Alternates(scopes'[t][l])
         /\ t \in misused => Misuses /\ pc[t] \in Stops
<1>1. using' = [using EXCEPT ![t] = IF pc'[t] = "out" THEN NULL ELSE using[t]]
  BY DEF InCall, Uses
<1>2. using'[t] = IF pc'[t] = "out" THEN NULL ELSE l
  BY <1>1 DEF BaseLockInv, BaseLockTypeOK
<1>3. Others(t)
  BY <1>1 DEF Others, InCall, BaseLockInv, BaseLockTypeOK
<1>4. OnLock(t, l)
  BY <1>2 DEF OnLock, InCall
<1>5. Holds(t, l)' <=> Holds(t, l)
  BY DEF InCall, Holds
<1> QED
  BY <1>2, <1>3, <1>4, <1>5
  DEF InCall, BaseLockInv, BaseLockTypeOK, ScopesInv, MisuseInv

\* Entering the critical section gives its thread the ownership the next location
\* expects.
LEMMA EnterKeeps ==
  ASSUME ContractKept', BaseLockInv, BaseLockTypeOK', UsingInv', NEW t \in Threads,
         NEW l \in Locks, using[t] = l, Enter(t)
  PROVE  BaseLockInv'
<1>1. /\ pc[t] = "enter" /\ pc'[t] = AfterEnter /\ InCall(t)
      /\ Enterable(t, l) /\ section' = [section EXCEPT ![l] = Entered(t, l)]
      /\ UNCHANGED <<scopes, owning_thread_ref_, misused, aborted>>
      /\ ~aborted
  BY DEF Enter, Goto, InCall, BaseLockInv, BaseLockTypeOK
<1>2. /\ Others(t) /\ OnLock(t, l) /\ (Holds(t, l)' <=> Holds(t, l))
      /\ using'[t] = IF AfterEnter = "out" THEN NULL ELSE l
      /\ t \in misused' <=> t \in misused
      /\ t \in misused => Misuses
      /\ t \notin misused => Alternates(scopes'[t][l])
      /\ misused' \subseteq Threads
  BY <1>1, StepFacts
<1>3. t \notin misused => Holds(t, l)
  BY <1>1, <1>2 DEF BaseLockInv, ScopesInv, WillHold
<1>4. NDEBUG => t \notin misused
  BY <1>2 DEF ContractKept
<1>5. /\ InSection(t, l) <=> t \in misused
      /\ Recorded(t, l) <=> ~NDEBUG /\ t \in misused
      /\ Entries(t, l) = 1
  BY <1>1, <1>4 DEF InSection, Recorded, Entries, Location
<1>6. /\ InSection(t, l)'
      /\ Recorded(t, l)' <=> Recorded(t, l)
      /\ Entries(t, l)' = IF InSection(t, l) THEN 2 ELSE 1
  <2>1. CASE NDEBUG
    <3>1. using'[t] # l
      BY <1>2, <2>1, BaseLockAssumption DEF AfterEnter
    <3> QED
      BY <1>2, <1>3, <1>4, <1>5, <2>1, <3>1 DEF InSection, Recorded, Entries
  <2>2. CASE ~NDEBUG
    <3>1. using'[t] = l /\ pc'[t] = "assertUnheld"
      BY <1>1, <1>2, <2>2 DEF AfterEnter
    <3> QED
      BY <1>2, <1>5, <2>2, <3>1 DEF InSection, Recorded, Entries, Location
  <2> QED
    BY <2>1, <2>2
<1>7. SectionInv'
  BY <1>1, <1>2, <1>5, <1>6, EnterSection DEF BaseLockInv
<1>8. ScopesInv' /\ MisuseInv' /\ BuildInv'
  <2>1. pc'[t] \notin WillRelease /\ (NDEBUG => pc'[t] = "out")
    BY <1>1 DEF AfterEnter, WillRelease
  <2>2. ~NDEBUG => pc'[t] \in Stops
    BY <1>1 DEF AfterEnter, Stops
  <2> QED
    BY <1>1, <1>2, <1>3, <1>4, <2>1, <2>2, ThreadPartsKept DEF BaseLockInv, BuildInv
<1> QED
  BY <1>1, <1>7, <1>8 DEF BaseLockInv, NoFalseAlarm

\* A step that passes or fails an assertion, and changes nothing else.
LEMMA AssertKeeps ==
  ASSUME ContractKept', BaseLockInv, BaseLockTypeOK', UsingInv', NEW t \in Threads,
         NEW l \in Locks, using[t] = l, NEW ref, NEW from, NEW to, AssertRecord(t, ref, from, to),
         UNCHANGED <<scopes, section, owning_thread_ref_, live, misused>>,
         \/ from = "assertUnheld" /\ to = "mark" /\ ref = NULL
         \/ from = "assertAcquired" /\ to = "assertHeld" /\ ref = t
         \/ from = "assertHeld" /\ to = "unmark" /\ ref = t
         \/ from = "assertOnly" /\ to = "out" /\ ref = t
  PROVE  BaseLockInv'
<1>1. /\ pc[t] = from /\ ~aborted /\ ~NDEBUG
      /\ from \in {"assertUnheld", "assertAcquired", "assertHeld", "assertOnly"}
  BY DEF AssertRecord, BaseLockInv, BuildInv
<1>2. /\ InCall(t)
      /\ owning_thread_ref_[l] = ref => pc'[t] = to /\ ~aborted'
      /\ owning_thread_ref_[l] # ref => pc'[t] = from /\ aborted'
  BY <1>1 DEF AssertRecord, InCall, BaseLockInv, BaseLockTypeOK
<1>3. /\ Others(t) /\ OnLock(t, l) /\ (Holds(t, l)' <=> Holds(t, l))
      /\ using'[t] = IF pc'[t] = "out" THEN NULL ELSE l
      /\ t \in misused => Misuses /\ pc[t] \in Stops
      /\ t \in misused' <=> t \in misused
      /\ t \notin misused => Alternates(scopes'[t][l])
  BY <1>2, StepFacts
<1>4. t \in misused <=> owning_thread_ref_[l] # ref
  <2>1. owning_thread_ref_[l] = t <=> Recorded(t, l)
    BY <1>3 DEF BaseLockInv, SectionInv
  <2>2. CASE from = "assertUnheld"
    <3>1. InSection(t, l) /\ (Recorded(t, l) <=> t \in misused) /\ ref = NULL
      BY <1>1, <2>2 DEF InSection, Recorded, Location
    <3>2. section[l].owner = t
      BY <1>3, <3>1 DEF BaseLockInv, SectionInv
    <3>3. owning_thread_ref_[l] \in {NULL, t}
      <4>1. RecordProtected
        BY RecordedOwns DEF BaseLockInv
      <4> QED
        BY <1>3, <3>2, <4>1 DEF RecordProtected
    <3> QED
      BY <2>1, <3>1, <3>3, BaseLockAssumption
  <2>3. CASE from # "assertUnheld"
    <3>1. (Recorded(t, l) <=> t \notin misused) /\ ref = t
      BY <1>1, <2>3 DEF InSection, Recorded, Location
    <3> QED
      BY <2>1, <3>1
  <2> QED
    BY <2>2, <2>3
<1>5. /\ t \notin misused /\ pc[t] \in WillHold => Holds(t, l)
      /\ t \notin misused /\ pc[t] \in WillRelease => ~Holds(t, l)
  BY <1>3 DEF BaseLockInv, ScopesInv
<1>6. CASE t \notin misused
  <2>1. pc'[t] = to /\ ~aborted'
    BY <1>2, <1>4, <1>6
  <2>2. /\ InSection(t, l)' <=> InSection(t, l)
        /\ Recorded(t, l)' <=> Recorded(t, l)
        /\ Entries(t, l)' = Entries(t, l)
    <3>1. CASE to = "out"
      <4>1. from = "assertOnly" /\ using'[t] = NULL /\ l # NULL
        BY <1>1, <1>3, <2>1, <3>1, BaseLockAssumption
      <4>3. using'[t] # l /\ Holds(t, l)'
        BY <1>1, <1>3, <1>5, <1>6, <4>1 DEF WillHold
      <4>2. InSection(t, l) /\ Recorded(t, l) /\ Entries(t, l) = 1
        BY <1>1, <1>6, <3>1 DEF InSection, Recorded, Entries, Location
      <4> QED
        BY <1>1, <1>3, <1>6, <4>2, <4>3 DEF InSection, Recorded, Entries
    <3>2. CASE to # "out"
      <4>1. using'[t] = l /\ using[t] = l
        BY <1>3, <2>1, <3>2
      <4> QED
        BY <1>1, <1>3, <1>6, <2>1, <3>2, <4>1 DEF InSection, Recorded, Entries, Location
    <3> QED
      BY <3>1, <3>2
  <2> QED
    BY <1>1, <1>3, <1>5, <1>6, <2>1, <2>2, QuietStep DEF WillHold, WillRelease
<1>7. CASE t \in misused
  <2>1. pc'[t] = pc[t] /\ misused' # {} /\ pc[t] # "out"
    BY <1>1, <1>2, <1>4, <1>3, <1>7
  <2>2. using'[t] = l /\ using[t] = l
    BY <1>3, <2>1
  <2>3. /\ InSection(t, l)' <=> InSection(t, l)
        /\ Recorded(t, l)' <=> Recorded(t, l)
        /\ Entries(t, l)' = Entries(t, l)
    BY <1>3, <1>7, <2>1, <2>2 DEF InSection, Recorded, Entries
  <2> QED
    BY <1>1, <1>3, <1>7, <2>1, <2>3, QuietStep
<1> QED
  BY <1>6, <1>7

\* CheckUnheldAndMark records the thread that has just entered: the invariant holds.
LEMMA MarkKeeps ==
  ASSUME ContractKept', BaseLockInv, BaseLockTypeOK', UsingInv', NEW t \in Threads,
         NEW l \in Locks, using[t] = l, Mark(t)
  PROVE  BaseLockInv'
<1>1. /\ pc[t] = "mark" /\ pc'[t] = "out" /\ ~aborted /\ ~aborted' /\ InCall(t)
      /\ owning_thread_ref_' = [owning_thread_ref_ EXCEPT ![l] = t]
      /\ UNCHANGED <<scopes, section, misused>>
  BY DEF Mark, Goto, InCall, BaseLockInv, BaseLockTypeOK
<1>2. /\ Others(t) /\ OnLock(t, l) /\ (Holds(t, l)' <=> Holds(t, l))
      /\ using'[t] = NULL
      /\ t \notin misused /\ t \notin misused' /\ Alternates(scopes'[t][l])
      /\ misused' \subseteq Threads
  BY <1>1, StepFacts DEF Stops
<1>3. ~NDEBUG /\ Holds(t, l)
  BY <1>1, <1>2 DEF BaseLockInv, BuildInv, ScopesInv, WillHold
<1>4. InSection(t, l) /\ InSection(t, l)' /\ Recorded(t, l)' /\ Entries(t, l)' = Entries(t, l)
  <2>1. using'[t] # l
    BY <1>2, BaseLockAssumption
  <2>2. InSection(t, l) /\ Entries(t, l) = 1
    BY <1>1, <1>2 DEF InSection, Entries, Location
  <2> QED
    BY <1>2, <1>3, <2>1, <2>2 DEF InSection, Recorded, Entries
<1>5. SectionInv'
  BY <1>1, <1>2, <1>4, RecordSection DEF BaseLockInv
<1>6. ScopesInv' /\ MisuseInv' /\ BuildInv'
  BY <1>1, <1>2, <1>3, ThreadPartsKept DEF BaseLockInv, WillHold, WillRelease
<1> QED
  BY <1>1, <1>5, <1>6 DEF BaseLockInv, NoFalseAlarm

\* CheckHeldAndUnmark clears the record of the thread that is about to leave: the
\* invariant holds.
LEMMA UnmarkKeeps ==
  ASSUME ContractKept', BaseLockInv, BaseLockTypeOK', UsingInv', NEW t \in Threads,
         NEW l \in Locks, using[t] = l, Unmark(t)
  PROVE  BaseLockInv'
<1>1. /\ pc[t] = "unmark" /\ pc'[t] = "leave" /\ ~aborted /\ ~aborted'
      /\ owning_thread_ref_' = [owning_thread_ref_ EXCEPT ![l] = NULL]
      /\ UNCHANGED <<using, scopes, section, misused>>
      /\ \A u \in Threads \ {t} : pc'[u] = pc[u]
  BY DEF Unmark, Goto, BaseLockInv, BaseLockTypeOK
<1>2. InCall(t)
  BY <1>1 DEF InCall, Uses, BaseLockInv, BaseLockTypeOK
<1>3. /\ Others(t) /\ OnLock(t, l) /\ (Holds(t, l)' <=> Holds(t, l))
      /\ t \notin misused /\ t \notin misused' /\ Alternates(scopes'[t][l])
      /\ misused' \subseteq Threads
  BY <1>1, <1>2, StepFacts DEF Stops
<1>4. ~NDEBUG /\ ~Holds(t, l)
  BY <1>1, <1>3 DEF BaseLockInv, BuildInv, ScopesInv, WillRelease
<1>5. InSection(t, l) /\ InSection(t, l)' /\ ~Recorded(t, l)' /\ Entries(t, l)' = Entries(t, l)
  BY <1>1, <1>3 DEF InSection, Recorded, Entries, Location
<1>6. SectionInv'
  BY <1>1, <1>3, <1>5, RecordSection, BaseLockAssumption DEF BaseLockInv
<1>7. ScopesInv' /\ MisuseInv' /\ BuildInv'
  BY <1>1, <1>3, <1>4, ThreadPartsKept DEF BaseLockInv, WillHold, WillRelease
<1> QED
  BY <1>1, <1>6, <1>7 DEF BaseLockInv, NoFalseAlarm

\* A thread leaves a section it owns, once.
LEMMA LeaveFacts ==
  ASSUME BaseLockInv, NEW t \in Threads,
         NEW l \in Locks, using[t] = l, Leave(t)
  PROVE  /\ InCall(t) /\ pc[t] = "leave" /\ pc'[t] = "out"
         /\ section[l] = [owner |-> t, count |-> 1]
         /\ section' = [section EXCEPT ![l] = [owner |-> NULL, count |-> 0]]
         /\ InSection(t, l) /\ t \notin misused /\ ~Holds(t, l)
<1>1. pc[t] = "leave" /\ pc'[t] = "out" /\ InCall(t)
  BY DEF Leave, Goto, InCall, BaseLockInv, BaseLockTypeOK
<1>2. t \notin misused
  BY <1>1, StepFacts DEF Stops
<1>3. ~Holds(t, l)
  BY <1>1, <1>2 DEF BaseLockInv, ScopesInv, WillRelease
<1>4. InSection(t, l) /\ Entries(t, l) = 1
  BY <1>1, <1>2 DEF InSection, Entries, Location
<1>5. section[l].owner = t /\ section[l].count = 1
  BY <1>2, <1>4 DEF BaseLockInv, SectionInv
<1>6. section[l] = [owner |-> t, count |-> 1]
  BY <1>2, <1>5 DEF BaseLockInv, BaseLockTypeOK
<1>7. section' = [section EXCEPT ![l] = [owner |-> NULL, count |-> 0]]
  BY <1>5 DEF Leave
<1> QED
  BY <1>1, <1>2, <1>3, <1>4, <1>6, <1>7

\* Leaving the critical section ends what the scope that is over had held.
LEMMA LeaveKeeps ==
  ASSUME ContractKept', BaseLockInv, BaseLockTypeOK', UsingInv', NEW t \in Threads,
         NEW l \in Locks, using[t] = l, Leave(t)
  PROVE  BaseLockInv'
<1>1. ~aborted /\ ~aborted' /\ UNCHANGED <<owning_thread_ref_, misused>>
  BY DEF Leave, Goto
<1>2. /\ InCall(t) /\ pc[t] = "leave" /\ pc'[t] = "out"
      /\ InSection(t, l) /\ t \notin misused /\ ~Holds(t, l)
      /\ section' = [section EXCEPT ![l] = [owner |-> NULL, count |-> 0]]
  BY LeaveFacts
<1>3. /\ Others(t) /\ OnLock(t, l) /\ ~Holds(t, l)' /\ t \notin misused'
      /\ Alternates(scopes'[t][l]) /\ using'[t] = NULL /\ misused' \subseteq Threads
  BY <1>2, StepFacts
<1>4. ~Recorded(t, l) /\ ~InSection(t, l)'
  <2>1. using'[t] # l
    BY <1>2, <1>3, BaseLockAssumption
  <2> QED
    BY <1>2, <1>3, <2>1 DEF InSection, Recorded
<1>5. SectionInv'
  BY <1>1, <1>2, <1>3, <1>4, LeaveSection DEF BaseLockInv
<1>6. ScopesInv' /\ MisuseInv' /\ BuildInv'
  BY <1>1, <1>2, <1>3, ThreadPartsKept DEF BaseLockInv, WillHold, WillRelease
<1> QED
  BY <1>1, <1>5, <1>6 DEF BaseLockInv, NoFalseAlarm

-----------------------------------------------------------------------------
\* Every step of a program whose calls keep the contract keeps the invariant.
LEMMA BaseLockInvStep == ContractKept' /\ BaseLockInv /\ [BaseLockNext]_lockVars => BaseLockInv'
<1> SUFFICES ASSUME ContractKept', BaseLockInv, [BaseLockNext]_lockVars PROVE BaseLockInv'
  OBVIOUS
<1>1. BaseLockTypeOK' /\ UsingInv'
  BY BaseLockTypeStep DEF BaseLockInv
<1>2. ASSUME NEW t \in Threads, NEW l \in Locks, Acquire(t, l) PROVE BaseLockInv'
  BY <1>1, <1>2, AcquireKeeps
<1>3. ASSUME NEW t \in Threads, NEW l \in Locks, Try(t, l) PROVE BaseLockInv'
  BY <1>1, <1>3, TryKeeps
<1>4. ASSUME NEW t \in Threads, NEW l \in Locks, Release(t, l) PROVE BaseLockInv'
  BY <1>1, <1>4, ReleaseKeeps
<1>5. ASSUME NEW t \in Threads, NEW l \in Locks, AssertAcquiredOnly(t, l) PROVE BaseLockInv'
  BY <1>1, <1>5, AssertAcquiredOnlyKeeps
<1>6. ASSUME NEW t \in Threads, NEW l \in Locks, BeginAutoUnlock(t, l) PROVE BaseLockInv'
  BY <1>1, <1>6, BeginAutoUnlockKeeps
<1>7. ASSUME NEW t \in Threads, NEW l \in Locks, EndAutoLock(t, l) PROVE BaseLockInv'
  BY <1>1, <1>7, EndAutoLockKeeps
<1>8. ASSUME NEW t \in Threads, NEW l \in Locks, EndAutoUnlock(t, l) PROVE BaseLockInv'
  BY <1>1, <1>8, EndAutoUnlockKeeps
<1>9. ASSUME NEW t \in Threads, Enter(t) PROVE BaseLockInv'
  BY <1>1, <1>9, EnterKeeps, InCallUses DEF Enter, Goto
<1>10. ASSUME NEW t \in Threads, AssertUnheld(t) PROVE BaseLockInv'
  BY <1>1, <1>10, AssertKeeps, InCallUses DEF AssertUnheld, AssertRecord
<1>11. ASSUME NEW t \in Threads, AssertAcquired(t) PROVE BaseLockInv'
  BY <1>1, <1>11, AssertKeeps, InCallUses DEF AssertAcquired, AssertRecord
<1>12. ASSUME NEW t \in Threads, AssertHeld(t) PROVE BaseLockInv'
  BY <1>1, <1>12, AssertKeeps, InCallUses DEF AssertHeld, AssertRecord
<1>13. ASSUME NEW t \in Threads, Mark(t) PROVE BaseLockInv'
  BY <1>1, <1>13, MarkKeeps, InCallUses DEF Mark, Goto
<1>14. ASSUME NEW t \in Threads, Unmark(t) PROVE BaseLockInv'
  BY <1>1, <1>14, UnmarkKeeps, InCallUses DEF Unmark, Goto
<1>15. ASSUME NEW t \in Threads, Leave(t) PROVE BaseLockInv'
  BY <1>1, <1>15, LeaveKeeps, InCallUses DEF Leave, Goto
<1>16. ASSUME NEW t \in Threads, NEW l \in Locks, Destroy(t, l) PROVE BaseLockInv'
  BY <1>1, <1>16, DestroyKeeps
<1>17. CASE UNCHANGED lockVars
  BY <1>1, <1>17
  DEF lockVars, BaseLockInv, ScopesInv, MisuseInv, BuildInv, SectionInv, NoFalseAlarm, Holds,
      InSection, Recorded, Entries
<1> QED
  BY <1>2, <1>3, <1>4, <1>5, <1>6, <1>7, <1>8, <1>9, <1>10, <1>11, <1>12, <1>13, <1>14, <1>15,
     <1>16, <1>17 DEF BaseLockNext, LockStep, EndScope

\* Before any call nobody holds, owns or has recorded anything.
LEMMA BaseLockInvInit == BaseLockInit => BaseLockInv
<1> SUFFICES ASSUME BaseLockInit PROVE BaseLockInv
  OBVIOUS
<1>1. BaseLockTypeOK /\ UsingInv
  BY BaseLockTypeInit
<1>2. \A t \in Threads, l \in Locks :
        /\ using[t] # l /\ scopes[t][l] = <<>>
        /\ ~Holds(t, l) /\ Alternates(scopes[t][l]) /\ ~InSection(t, l) /\ ~Recorded(t, l)
  <2> SUFFICES ASSUME NEW t \in Threads, NEW l \in Locks
               PROVE  /\ using[t] # l /\ scopes[t][l] = <<>>
                      /\ ~Holds(t, l) /\ Alternates(scopes[t][l])
                      /\ ~InSection(t, l) /\ ~Recorded(t, l)
    OBVIOUS
  <2>1. using[t] # l /\ scopes[t][l] = <<>>
    BY BaseLockAssumption DEF BaseLockInit
  <2>2. Alternates(scopes[t][l])
    BY <2>1, EmptySeq DEF Alternates
  <2> QED
    BY <2>1, <2>2 DEF Holds, InSection, Recorded
<1>3. SectionInv
  BY <1>2, BaseLockAssumption DEF BaseLockInit, SectionInv
<1> QED
  BY <1>1, <1>2, <1>3
  DEF BaseLockInit, BaseLockInv, ScopesInv, MisuseInv, BuildInv, NoFalseAlarm

\* The inductive invariant holds in a debug build, and in a release build of a
\* program that keeps the contract: a location and the scopes of a thread say
\* what it owns.
THEOREM BaseLockInvariant == BaseLockSpec /\ []ContractKept => []BaseLockInv
BY BaseLockInvInit, BaseLockInvStep, PTL DEF BaseLockSpec

\* A release build of a program that keeps the contract keeps it, and a debug
\* build checks it.
LEMMA CheckedKeeps == Checked /\ BaseLockSpec => []ContractKept
<1> DEFINE Inv == ~Misuses => misused = {}
<1>1. BaseLockInit => Inv
  BY DEF BaseLockInit
<1>2. Inv /\ [BaseLockNext]_lockVars => Inv'
  <2> SUFFICES ASSUME misused = {}, ~Misuses, [BaseLockNext]_lockVars PROVE misused' = {}
    OBVIOUS
  <2>1. ASSUME NEW t, NEW l, NEW to, NEW legal, Calls(t, l, to, legal) PROVE misused' = {}
    BY <2>1 DEF Calls
  <2> QED
    BY <2>1 DEF BaseLockNext, LockStep, EndScope, lockVars, Acquire, Try, Release, EndAutoLock,
      AssertAcquiredOnly, BeginAutoUnlock, EndAutoUnlock, Destroy, Enter, AssertUnheld, Mark,
      AssertAcquired, AssertHeld, Unmark, Leave
<1>3. Checked => (Inv => ContractKept)
  BY DEF Checked, ContractKept
<1> HIDE DEF Inv
<1>4. ASSUME Checked PROVE BaseLockSpec => []ContractKept
  BY <1>1, <1>2, <1>3, <1>4, PTL DEF BaseLockSpec
<1> QED
  BY <1>4

\* In a debug build, or under the contract.
LEMMA CheckedInvariant == Checked /\ BaseLockSpec => []BaseLockInv
BY BaseLockInvariant, CheckedKeeps, PTL

\* No call against the contract returns in a debug build.
THEOREM BaseLockMisuseCaught == Checked /\ BaseLockSpec => []MisuseCaught
<1>1. BaseLockInv => MisuseCaught
  BY DEF BaseLockInv, MisuseInv, MisuseCaught, Stops
<1> QED
  BY <1>1, CheckedInvariant, PTL

\* An assertion that fails has found a call against the contract.
THEOREM BaseLockNoFalseAlarm == Checked /\ BaseLockSpec => []NoFalseAlarm
<1>1. BaseLockInv => NoFalseAlarm
  BY DEF BaseLockInv
<1> QED
  BY <1>1, CheckedInvariant, PTL

\* The debug record never names a thread that does not own the section.
THEOREM BaseLockRecordProtected == Checked /\ BaseLockSpec => []RecordProtected
<1>1. BaseLockInv => RecordProtected
  BY RecordedOwns DEF BaseLockInv
<1> QED
  BY <1>1, CheckedInvariant, PTL

\* A thread owns the section of a lock it is not calling, once, exactly when its
\* innermost scope of it is one that holds the lock.
THEOREM BaseLockScopesBalanced == Checked /\ BaseLockSpec => []ScopesBalanced
<1>1. ASSUME BaseLockInv PROVE ScopesBalanced
  <2> SUFFICES ASSUME NEW t \in Threads, NEW l \in Locks, using[t] # l
               PROVE  Holds(t, l) <=> section[l] = [owner |-> t, count |-> 1]
    BY DEF ScopesBalanced
  <2>1. (InSection(t, l) <=> Holds(t, l)) /\ Entries(t, l) = 1
    BY DEF InSection, Entries
  <2>2. Holds(t, l) <=> section[l].owner = t /\ section[l].count = 1
    BY <1>1, <2>1 DEF BaseLockInv, SectionInv
  <2>3. section[l] \in Counted
    BY <1>1 DEF BaseLockInv, BaseLockTypeOK, Counted
  <2> QED
    BY <2>2, <2>3 DEF Counted
<1> QED
  BY <1>1, CheckedInvariant, PTL

(***************************************************************************)
(* Refinement.                                                             *)
(***************************************************************************)
Taking(t) == IF pc[t] = "enter" \/ Checking(t) THEN using[t] ELSE NULL

Giving(t) ==
  IF pc[t] \in {"assertAcquired", "assertHeld", "unmark", "leave"} THEN using[t] ELSE NULL

Taken(t, l) ==
  IF section[l].owner # t THEN 0
  ELSE IF using[t] = l /\ Checking(t) THEN section[l].count - 1
  ELSE section[l].count

TakingMap == [t \in Threads |-> Taking(t)]
GivingMap == [t \in Threads |-> Giving(t)]
TakenMap == [l \in Locks |-> [t \in Threads |-> Taken(t, l)]]

\* The section of lock l looks the same to the threads other than t, and no other
\* section changes.
OneSection(t, l) ==
  /\ \A k \in Locks \ {l} : section'[k] = section[k]
  /\ \A u \in Threads \ {t} :
       /\ section'[l].owner = u <=> section[l].owner = u
       /\ section[l].owner = u => section'[l].count = section[l].count

\* A step of thread t on lock l changes the mutex only there.
LEMMA MapStep ==
  ASSUME NEW t \in Threads, NEW l \in Locks, Others(t), OnLock(t, l), OneSection(t, l)
  PROVE  /\ TakingMap' = [TakingMap EXCEPT ![t] = Taking(t)']
         /\ GivingMap' = [GivingMap EXCEPT ![t] = Giving(t)']
         /\ TakenMap' = [TakenMap EXCEPT ![l][t] = Taken(t, l)']
         /\ Taken(t, l)' = Taken(t, l) => TakenMap' = TakenMap
<1>1. ASSUME NEW u \in Threads \ {t}
      PROVE  /\ Taking(u)' = Taking(u) /\ Giving(u)' = Giving(u)
             /\ \A k \in Locks : Taken(u, k)' = Taken(u, k)
  <2>1. pc'[u] = pc[u] /\ using'[u] = using[u]
    BY DEF Others
  <2>2. Taking(u)' = Taking(u) /\ Giving(u)' = Giving(u)
    BY <2>1 DEF Taking, Giving, Checking
  <2>3. ASSUME NEW k \in Locks PROVE Taken(u, k)' = Taken(u, k)
    <3>1. CASE k = l
      BY <2>1, <3>1 DEF Taken, Checking, OneSection
    <3>2. CASE k # l
      BY <2>1, <3>2 DEF Taken, Checking, OneSection
    <3> QED
      BY <3>1, <3>2
  <2> QED
    BY <2>2, <2>3
<1>2. ASSUME NEW k \in Locks \ {l} PROVE Taken(t, k)' = Taken(t, k)
  <2>1. using[t] # k /\ using'[t] # k
    BY OtherLocksKeep
  <2> QED
    BY <2>1 DEF Taken, OneSection
<1>3. TakingMap' = [TakingMap EXCEPT ![t] = Taking(t)']
  BY <1>1 DEF TakingMap
<1>4. GivingMap' = [GivingMap EXCEPT ![t] = Giving(t)']
  BY <1>1 DEF GivingMap
<1>5. TakenMap' = [TakenMap EXCEPT ![l][t] = Taken(t, l)']
  BY <1>1, <1>2 DEF TakenMap
<1>6. Taken(t, l)' = Taken(t, l) => TakenMap' = TakenMap
  BY <1>1, <1>2 DEF TakenMap
<1> QED
  BY <1>3, <1>4, <1>5, <1>6

MapUnchanged == UNCHANGED <<TakingMap, GivingMap, TakenMap>>

\* The steps of the mutex, by what they change for one thread and one lock.
LEMMA MapSteps ==
  ASSUME NEW t \in Threads, NEW l \in Locks, Others(t), OnLock(t, l), OneSection(t, l)
  PROVE  /\ /\ Taking(t)' = Taking(t) /\ Giving(t)' = Giving(t)
            /\ Taken(t, l)' = Taken(t, l)
            => MapUnchanged
         /\ /\ Taking(t) = NULL /\ Giving(t) = NULL
            /\ Taking(t)' = l /\ Giving(t)' = NULL /\ Taken(t, l)' = Taken(t, l)
            => Locking!CallTake(t, l)
         /\ /\ Taking(t) \in {l, NULL} /\ Giving(t) = NULL
            /\ Taking(t)' = NULL /\ Giving(t)' = NULL
            /\ \A u \in Threads : Taken(u, l) = 0
            /\ Taken(t, l)' = 1
            => Locking!Take(t, l)
         /\ /\ Taking(t) = NULL /\ Giving(t) = NULL
            /\ Taking(t)' = NULL /\ Giving(t)' = l /\ Taken(t, l)' = Taken(t, l)
            => Locking!CallGive(t, l)
         /\ /\ Taking(t) = NULL /\ Giving(t) = l
            /\ Taking(t)' = NULL /\ Giving(t)' = NULL
            /\ Taken(t, l) = 1 /\ Taken(t, l)' = 0
            => Locking!Give(t, l)
<1>1. /\ TakingMap' = [TakingMap EXCEPT ![t] = Taking(t)']
      /\ GivingMap' = [GivingMap EXCEPT ![t] = Giving(t)']
      /\ TakenMap' = [TakenMap EXCEPT ![l][t] = Taken(t, l)']
  BY MapStep
<1>2. /\ Taking(t)' = Taking(t) => TakingMap' = TakingMap
      /\ Giving(t)' = Giving(t) => GivingMap' = GivingMap
      /\ Taken(t, l)' = Taken(t, l) => TakenMap' = TakenMap
  <2>1. Taking(t)' = Taking(t) => TakingMap' = TakingMap
    BY <1>1 DEF TakingMap
  <2>2. Giving(t)' = Giving(t) => GivingMap' = GivingMap
    BY <1>1 DEF GivingMap
  <2>3. Taken(t, l)' = Taken(t, l) => TakenMap' = TakenMap
    BY MapStep
  <2> QED
    BY <2>1, <2>2, <2>3
<1>3. /\ TakingMap[t] = Taking(t) /\ GivingMap[t] = Giving(t)
      /\ \A u \in Threads : TakenMap[l][u] = Taken(u, l)
  BY DEF TakingMap, GivingMap, TakenMap
<1>4. /\ Locking!CallTake(t, l) <=>
           /\ TakingMap[t] = NULL /\ GivingMap[t] = NULL
           /\ TakingMap' = [TakingMap EXCEPT ![t] = l]
           /\ UNCHANGED <<GivingMap, TakenMap>>
      /\ Locking!Take(t, l) <=>
           /\ TakingMap[t] = l \/ (TakingMap[t] = NULL /\ GivingMap[t] = NULL)
           /\ \A v \in Threads : TakenMap[l][v] = 0
           /\ TakenMap' = [TakenMap EXCEPT ![l][t] = 1]
           /\ TakingMap' = [TakingMap EXCEPT ![t] = NULL]
           /\ UNCHANGED GivingMap
      /\ Locking!CallGive(t, l) <=>
           /\ TakingMap[t] = NULL /\ GivingMap[t] = NULL
           /\ GivingMap' = [GivingMap EXCEPT ![t] = l]
           /\ UNCHANGED <<TakingMap, TakenMap>>
      /\ Locking!Give(t, l) <=>
           /\ GivingMap[t] = l /\ TakenMap[l][t] = 1
           /\ TakenMap' = [TakenMap EXCEPT ![l][t] = 0]
           /\ GivingMap' = [GivingMap EXCEPT ![t] = NULL]
           /\ UNCHANGED TakingMap
  BY DEF TakingMap, GivingMap, TakenMap, Taking, Giving, Taken, Locking!CallTake, Locking!Take,
         Locking!CallGive, Locking!Give, Locking!Idle
<1>5. ASSUME Taking(t)' = Taking(t), Giving(t)' = Giving(t), Taken(t, l)' = Taken(t, l)
      PROVE  MapUnchanged
  BY <1>2, <1>5 DEF MapUnchanged
<1>6. ASSUME Taking(t) = NULL, Giving(t) = NULL,
             Taking(t)' = l, Giving(t)' = NULL, Taken(t, l)' = Taken(t, l)
      PROVE  Locking!CallTake(t, l)
  BY <1>1, <1>2, <1>3, <1>4, <1>6
<1>7. ASSUME Taking(t) \in {l, NULL}, Giving(t) = NULL,
             Taking(t)' = NULL, Giving(t)' = NULL,
             \A u \in Threads : Taken(u, l) = 0, Taken(t, l)' = 1
      PROVE  Locking!Take(t, l)
  BY <1>1, <1>2, <1>3, <1>4, <1>7
<1>8. ASSUME Taking(t) = NULL, Giving(t) = NULL,
             Taking(t)' = NULL, Giving(t)' = l, Taken(t, l)' = Taken(t, l)
      PROVE  Locking!CallGive(t, l)
  BY <1>1, <1>2, <1>3, <1>4, <1>8
<1>9. ASSUME Taking(t) = NULL, Giving(t) = l,
             Taking(t)' = NULL, Giving(t)' = NULL, Taken(t, l) = 1, Taken(t, l)' = 0
      PROVE  Locking!Give(t, l)
  BY <1>1, <1>2, <1>3, <1>4, <1>9
<1> QED
  BY <1>5, <1>6, <1>7, <1>8, <1>9

\* A thread that calls a lock asks to take it or to give it back, or only looks at
\* its record.
LEMMA CallMaps ==
  ASSUME BaseLockInv, NEW t \in Threads, NEW l \in Locks,
         NEW to \in {"enter", "assertAcquired", "assertHeld", "leave", "assertOnly"},
         NEW legal, Calls(t, l, to, legal), UNCHANGED section,
         \A u \in Threads \ {t} : scopes'[u] = scopes[u],
         \A k \in Locks \ {l} : scopes'[t][k] = scopes[t][k]
  PROVE  Locking!CallTake(t, l) \/ Locking!CallGive(t, l) \/ MapUnchanged
<1>1. to \in Location \ {"out"}
  BY DEF Location
<1>2. /\ Others(t) /\ OnLock(t, l) /\ pc[t] = "out" /\ pc'[t] = to
      /\ using[t] = NULL /\ using'[t] = l
  BY <1>1, CallsFacts
<1>3. OneSection(t, l)
  BY DEF OneSection
<1>4. Taking(t) = NULL /\ Giving(t) = NULL
  BY <1>2 DEF Taking, Giving, Checking
<1>5. Taken(t, l)' = Taken(t, l)
  BY <1>2 DEF Taken, Checking
<1>6. Taking(t)' = (IF to = "enter" THEN l ELSE NULL)
  BY <1>2 DEF Taking, Checking
<1>7. Giving(t)' = (IF to \in {"enter", "assertOnly"} THEN NULL ELSE l)
  BY <1>2 DEF Giving
<1>8. CASE to = "enter"
  BY <1>2, <1>3, <1>4, <1>5, <1>6, <1>7, <1>8, MapSteps
<1>9. CASE to = "assertOnly"
  BY <1>2, <1>3, <1>4, <1>5, <1>6, <1>7, <1>9, MapSteps
<1>10. CASE to \notin {"enter", "assertOnly"}
  BY <1>2, <1>3, <1>4, <1>5, <1>6, <1>7, <1>10, MapSteps
<1> QED
  BY <1>8, <1>9, <1>10

\* Entering the section takes the lock in a release build; in a debug build the
\* thread has asked for it, and its record decides.
LEMMA EnterMaps ==
  ASSUME BaseLockInv, NEW t \in Threads, NEW l \in Locks, Others(t), OnLock(t, l), Enterable(t, l),
         section' = [section EXCEPT ![l] = Entered(t, l)], pc'[t] = AfterEnter,
         using'[t] = IF AfterEnter = "out" THEN NULL ELSE l,
         NDEBUG => ~InSection(t, l),
         \/ pc[t] = "enter" /\ using[t] = l
         \/ pc[t] = "out" /\ using[t] = NULL
  PROVE  Locking!CallTake(t, l) \/ Locking!Take(t, l) \/ MapUnchanged
<1>1. /\ section'[l].owner = t /\ section'[l].count = section[l].count + 1
      /\ \A k \in Locks \ {l} : section'[k] = section[k]
      /\ section[l].count \in Nat
  BY DEF BaseLockInv, BaseLockTypeOK, Entered
<1>2. section[l].owner = t \/ (section[l].owner = NULL /\ section[l].count = 0)
  BY DEF Enterable, BaseLockInv, BaseLockTypeOK
<1>3. OneSection(t, l)
  BY <1>1, <1>2, BaseLockAssumption DEF OneSection
<1>4. /\ Giving(t) = NULL
      /\ Taking(t) = (IF pc[t] = "enter" THEN l ELSE NULL)
      /\ Taken(t, l) = section[l].count
  BY <1>2, BaseLockAssumption DEF Giving, Taking, Taken, Checking
<1>5. CASE NDEBUG
  <2>1. pc'[t] = "out" /\ using'[t] = NULL
    BY <1>5 DEF AfterEnter
  <2>2. section[l].owner = NULL /\ section[l].count = 0
    BY <1>2, <1>5 DEF BaseLockInv, SectionInv
  <2>3. \A u \in Threads : Taken(u, l) = 0
    BY <2>2, BaseLockAssumption DEF Taken
  <2>4. Taking(t)' = NULL /\ Giving(t)' = NULL /\ Taken(t, l)' = 1
    BY <1>1, <2>1, <2>2, BaseLockAssumption DEF Taking, Giving, Taken, Checking
  <2> QED
    BY <1>3, <1>4, <2>3, <2>4, MapSteps
<1>6. CASE ~NDEBUG
  <2>1. pc'[t] = "assertUnheld" /\ using'[t] = l
    BY <1>6 DEF AfterEnter
  <2>2. Taking(t)' = l /\ Giving(t)' = NULL /\ Taken(t, l)' = section[l].count
    BY <1>1, <2>1 DEF Taking, Giving, Taken, Checking
  <2> QED
    BY <1>3, <1>4, <2>2, MapSteps
<1> QED
  BY <1>5, <1>6

\* An assertion changes neither what a thread has nor what it asks for.
LEMMA AssertMaps ==
  ASSUME BaseLockInv, NEW t \in Threads, NEW ref, NEW from, NEW to, AssertRecord(t, ref, from, to),
         UNCHANGED <<scopes, section, misused>>,
         \/ from = "assertUnheld" /\ to = "mark"
         \/ from = "assertAcquired" /\ to = "assertHeld"
         \/ from = "assertHeld" /\ to = "unmark"
         \/ from = "assertOnly" /\ to = "out"
  PROVE  MapUnchanged
<1>1. pc[t] = from /\ pc'[t] \in {from, to} /\ InCall(t)
  BY DEF AssertRecord, InCall, BaseLockInv, BaseLockTypeOK
<1>2. PICK l \in Locks : using[t] = l
  BY <1>1, InCallUses DEF InCall
<1>3. Others(t) /\ OnLock(t, l) /\ using'[t] = IF pc'[t] = "out" THEN NULL ELSE l
  BY <1>1, <1>2, StepFacts
<1>4. OneSection(t, l)
  BY DEF OneSection
<1>5. Taking(t)' = Taking(t) /\ Giving(t)' = Giving(t) /\ Taken(t, l)' = Taken(t, l)
  BY <1>1, <1>2, <1>3 DEF Taking, Giving, Taken, Checking
<1> QED
  BY <1>3, <1>4, <1>5, MapSteps

\* CheckUnheldAndMark, which finds the record empty, takes the lock.
LEMMA MarkMaps ==
  ASSUME BaseLockInv, NEW t \in Threads, NEW l \in Locks, using[t] = l, Mark(t)
  PROVE  Locking!Take(t, l)
<1>1. pc[t] = "mark" /\ pc'[t] = "out" /\ InCall(t) /\ UNCHANGED section
  BY DEF Mark, Goto, InCall, BaseLockInv, BaseLockTypeOK
<1>2. Others(t) /\ OnLock(t, l) /\ using'[t] = NULL /\ t \notin misused
  BY <1>1, StepFacts DEF Stops
<1>3. InSection(t, l) /\ Entries(t, l) = 1
  BY <1>1, <1>2 DEF InSection, Entries, Location
<1>4. section[l].owner = t /\ section[l].count = 1
  BY <1>3 DEF BaseLockInv, SectionInv
<1>5. \A u \in Threads : Taken(u, l) = 0
  BY <1>1, <1>4 DEF Taken, Checking
<1>6. Taking(t) = l /\ Giving(t) = NULL
  BY <1>1 DEF Taking, Giving, Checking
<1>7. Taking(t)' = NULL /\ Giving(t)' = NULL /\ Taken(t, l)' = 1
  BY <1>1, <1>2, <1>4, BaseLockAssumption DEF Taking, Giving, Taken, Checking
<1>8. OneSection(t, l)
  BY <1>1 DEF OneSection
<1> QED
  BY <1>2, <1>5, <1>6, <1>7, <1>8, MapSteps

\* Clearing the record is no step of the mutex.
LEMMA UnmarkMaps ==
  ASSUME BaseLockInv, NEW t \in Threads, Unmark(t)
  PROVE  MapUnchanged
<1>1. /\ pc[t] = "unmark" /\ pc'[t] = "leave" /\ UNCHANGED <<using, section>>
      /\ \A u \in Threads \ {t} : pc'[u] = pc[u]
  BY DEF Unmark, Goto, BaseLockInv, BaseLockTypeOK
<1>2. \A u \in Threads :
        /\ Taking(u)' = Taking(u) /\ Giving(u)' = Giving(u)
        /\ \A l \in Locks : Taken(u, l)' = Taken(u, l)
  BY <1>1 DEF Taking, Giving, Taken, Checking
<1> QED
  BY <1>2 DEF MapUnchanged, TakingMap, GivingMap, TakenMap

\* The step that leaves the critical section gives the lock back, for the thread
\* that has it.
LEMMA LeaveMaps ==
  ASSUME BaseLockInv, NEW t \in Threads, NEW l \in Locks, using[t] = l, Leave(t)
  PROVE  Locking!Give(t, l)
<1>1. /\ InCall(t) /\ pc[t] = "leave" /\ pc'[t] = "out"
      /\ section[l] = [owner |-> t, count |-> 1]
      /\ section' = [section EXCEPT ![l] = [owner |-> NULL, count |-> 0]]
  BY LeaveFacts
<1>2. Others(t) /\ OnLock(t, l) /\ using'[t] = NULL
  BY <1>1, StepFacts
<1>3. section'[l] = [owner |-> NULL, count |-> 0] /\ \A k \in Locks \ {l} : section'[k] = section[k]
  BY <1>1 DEF BaseLockInv, BaseLockTypeOK
<1>4. OneSection(t, l)
  BY <1>1, <1>3, BaseLockAssumption DEF OneSection
<1>5. Taking(t) = NULL /\ Giving(t) = l /\ Taken(t, l) = 1
  BY <1>1 DEF Taking, Giving, Taken, Checking
<1>6. Taking(t)' = NULL /\ Giving(t)' = NULL /\ Taken(t, l)' = 0
  BY <1>1, <1>2, <1>3, BaseLockAssumption DEF Taking, Giving, Taken, Checking
<1> QED
  BY <1>2, <1>4, <1>5, <1>6, MapSteps

\* Every step of a lock is a step of the mutex or changes nothing of it.
LEMMA StepMaps ==
  ASSUME ContractKept', BaseLockInv, [BaseLockNext]_lockVars
  PROVE  Locking!MutexNext \/ MapUnchanged
<1>1. ASSUME NEW t \in Threads, NEW l \in Locks,
             \/ Acquire(t, l) \/ Release(t, l) \/ EndAutoLock(t, l) \/ AssertAcquiredOnly(t, l)
             \/ BeginAutoUnlock(t, l) \/ EndAutoUnlock(t, l)
      PROVE  Locking!CallTake(t, l) \/ Locking!CallGive(t, l) \/ MapUnchanged
  <2> DEFINE Tos == {"enter", "assertAcquired", "assertHeld", "leave", "assertOnly"}
  <2>1. /\ UNCHANGED section
        /\ \E to \in Tos, legal \in {Holds(t, l), ~Holds(t, l), TRUE} : Calls(t, l, to, legal)
    BY <1>1
    DEF Acquire, Release, EndAutoLock, AssertAcquiredOnly, BeginAutoUnlock, EndAutoUnlock,
        ReleaseFrom, AssertFrom
  <2>2. /\ \A u \in Threads \ {t} : scopes'[u] = scopes[u]
        /\ \A k \in Locks \ {l} : scopes'[t][k] = scopes[t][k]
    <3>1. BaseLockTypeOK
      BY DEF BaseLockInv
    <3>2. \/ \E x \in Scope : Push(t, l, x)
          \/ scopes[t][l] # <<>> /\ Pop(t, l)
          \/ UNCHANGED scopes
      BY <1>1
      DEF Acquire, Release, EndAutoLock, AssertAcquiredOnly, BeginAutoUnlock, EndAutoUnlock,
          Holds, Scope
    <3> QED
      BY <3>1, <3>2, PushFacts, PopFacts
  <2> HIDE DEF Tos
  <2>3. PICK to \in Tos, legal \in {Holds(t, l), ~Holds(t, l), TRUE} : Calls(t, l, to, legal)
    BY <2>1
  <2> QED
    BY <2>1, <2>2, <2>3, CallMaps DEF Tos
<1>2. ASSUME NEW t \in Threads, NEW l \in Locks, Try(t, l)
      PROVE  Locking!CallTake(t, l) \/ Locking!Take(t, l) \/ MapUnchanged
  <2> DEFINE legal == ~Holds(t, l)
  <2>1. /\ Calls(t, l, AfterEnter, legal) /\ Push(t, l, "lock")
        /\ Enterable(t, l) /\ section' = [section EXCEPT ![l] = Entered(t, l)]
    BY <1>2 DEF Try
  <2>2. /\ \A u \in Threads \ {t} : scopes'[u] = scopes[u]
        /\ \A k \in Locks \ {l} : scopes'[t][k] = scopes[t][k]
    BY <2>1, PushFacts DEF BaseLockInv, Scope
  <2>3. AfterEnter \in Location
    BY DEF AfterEnter, Location
  <2>4. /\ Others(t) /\ OnLock(t, l) /\ pc[t] = "out" /\ pc'[t] = AfterEnter /\ ~aborted
        /\ using[t] = NULL /\ using'[t] = IF AfterEnter = "out" THEN NULL ELSE l
        /\ t \in misused' <=> ~legal
    <3> HIDE DEF legal
    <3> QED
      BY <2>1, <2>2, <2>3, CallsFacts
  <2>5. NDEBUG => ~InSection(t, l)
    BY <2>4, OutFacts DEF ContractKept
  <2> QED
    BY <2>1, <2>4, <2>5, EnterMaps
<1>3. ASSUME NEW t \in Threads, NEW l \in Locks, using[t] = l, Enter(t)
      PROVE  Locking!CallTake(t, l) \/ Locking!Take(t, l) \/ MapUnchanged
  <2>1. /\ pc[t] = "enter" /\ pc'[t] = AfterEnter /\ InCall(t)
        /\ Enterable(t, l) /\ section' = [section EXCEPT ![l] = Entered(t, l)]
        /\ UNCHANGED misused
    BY <1>3 DEF Enter, Goto, InCall, BaseLockInv, BaseLockTypeOK
  <2>2. Others(t) /\ OnLock(t, l) /\ using'[t] = IF AfterEnter = "out" THEN NULL ELSE l
    BY <1>3, <2>1, StepFacts
  <2>3. NDEBUG => ~InSection(t, l)
    BY <1>3, <2>1 DEF ContractKept, InSection
  <2> QED
    BY <1>3, <2>1, <2>2, <2>3, EnterMaps
<1>4. ASSUME NEW t \in Threads, AssertUnheld(t) \/ AssertAcquired(t) \/ AssertHeld(t)
      PROVE  MapUnchanged
  <2>1. CASE AssertUnheld(t)
    BY <2>1, AssertMaps DEF AssertUnheld
  <2>2. CASE AssertAcquired(t)
    BY <2>2, AssertMaps DEF AssertAcquired
  <2>3. CASE AssertHeld(t)
    BY <2>3, AssertMaps DEF AssertHeld
  <2> QED
    BY <1>4, <2>1, <2>2, <2>3
<1>5. ASSUME UNCHANGED <<pc, using, section>> PROVE MapUnchanged
  BY <1>5 DEF MapUnchanged, TakingMap, GivingMap, TakenMap, Taking, Giving, Taken, Checking
<1>6. ASSUME NEW t \in Threads, Enter(t) \/ Mark(t) \/ Leave(t) PROVE \E l \in Locks : using[t] = l
  BY <1>6, InCallUses DEF Enter, Mark, Leave, Goto
<1>7. ASSUME NEW t \in Threads, LockStep(t) PROVE Locking!MutexNext \/ MapUnchanged
  <2>1. CASE Enter(t)
    BY <1>3, <1>6, <2>1 DEF Locking!MutexNext
  <2>2. CASE Mark(t)
    BY <1>6, <2>2, MarkMaps DEF Locking!MutexNext
  <2>3. CASE Leave(t)
    BY <1>6, <2>3, LeaveMaps DEF Locking!MutexNext
  <2>4. CASE Unmark(t)
    BY <2>4, UnmarkMaps
  <2> QED
    BY <1>4, <1>7, <2>1, <2>2, <2>3, <2>4 DEF LockStep
<1>8. ASSUME NEW t \in Threads, NEW l \in Locks, Destroy(t, l) PROVE MapUnchanged
  BY <1>5, <1>8 DEF Destroy
<1>9. CASE UNCHANGED lockVars
  BY <1>5, <1>9 DEF lockVars
<1> QED
  BY <1>1, <1>2, <1>7, <1>8, <1>9 DEF BaseLockNext, EndScope, Locking!MutexNext

\* base::Lock implements a mutex, in a debug build and in a program that keeps the
\* contract: a call that takes a lock returns when nobody had it and leaves it taken
\* once, by the caller, and one that gives it back takes it from nobody else.
THEOREM BaseLockExcludes == Checked /\ BaseLockSpec => Excludes
<1>1. BaseLockInit => Locking!MutexInit
  BY BaseLockAssumption DEF BaseLockInit, Locking!MutexInit, Checking
<1>2. ContractKept' /\ BaseLockInv /\ [BaseLockNext]_lockVars
        => [Locking!MutexNext]_(Locking!mutexVars)
  <2>1. MapUnchanged => UNCHANGED Locking!mutexVars
    BY DEF MapUnchanged, TakingMap, GivingMap, TakenMap, Taking, Giving, Taken, Locking!mutexVars
  <2> QED
    BY <2>1, StepMaps
<1> QED
  BY <1>1, <1>2, CheckedInvariant, CheckedKeeps, PTL DEF BaseLockSpec, Excludes, Locking!MutexSpec
=============================================================================
