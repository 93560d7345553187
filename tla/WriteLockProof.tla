---------------------------- MODULE WriteLockProof ----------------------------
(***************************************************************************)
(* Theorems about WriteLock, for every number of processes, calls, polls   *)
(* and children.  The argument: a call past the semaphore owns its         *)
(* Session's permit (PermitOwned); the marker is up only for the permit's  *)
(* owner inside its span (HeldOwned); so a call that loads the marker just *)
(* after its admission finds it down, never gets a re-entrant guard, and   *)
(* owns the file lock while in its span (LockOwned).  Whatever is held is   *)
(* held by somebody at work (Answerable), all take permit, file lock and   *)
(* transaction in this order, and the queue is a line with a first         *)
(* (QueueHasFirst): so nobody waits in a ring.                             *)
(***************************************************************************)
EXTENDS WriteLock, FiniteSetTheorems, TLAPS

PastSemaphore == {"permitted", "opening", "polling", "marking", "locked",
                  "probed", "inTx", "dropping", "unlocked", "releasing"}
HoldsFile   == {"marking", "locked", "probed", "inTx", "dropping"}
HoldsGuard  == {"locked", "probed", "inTx", "dropping"}
MarkerUp    == HoldsGuard \cup {"unlocked"}

PermitOwned ==
  /\ \A t \in Task : pc[t] \in PastSemaphore => permit[ProcOf[t]] = t
  /\ \A p \in Proc : pc[p] = "permitted" => permit[p] = p

LockOwned ==
  /\ \A t \in Task : pc[t] \in HoldsFile => flock = t
  /\ \A p \in Proc : pc[p] \in {"fencing", "migrating"} => flock = p

HeldOwned ==
  \A p \in Proc : held[p] =>
    \E t \in Task : ProcOf[t] = p /\ permit[p] = t /\ pc[t] \in MarkerUp

GuardReal ==
  \A t \in Task : guard[t] = IF pc[t] \in HoldsGuard THEN "real" ELSE "none"

Owned == PermitOwned /\ LockOwned /\ HeldOwned /\ GuardReal /\ FreshCandidate

IInv == TypeOK /\ Owned

-----------------------------------------------------------------------------
\* Tasks and processes are disjoint, and every actor belongs to a process.
LEMMA ActorFacts ==
  /\ Task \cap Proc = {}
  /\ Nobody \notin Task /\ Nobody \notin Proc
  /\ \A t \in Task : t \in Actor /\ t \notin Proc /\ ProcOf[t] \in Proc
  /\ \A p \in Proc : p \in Actor /\ p \notin Task
  /\ \A t \in Task : Owner(t) = ProcOf[t]
  /\ \A p \in Proc : Owner(p) = p
  /\ MaxPoll \in Nat /\ MaxChild \in Nat
BY ConstantAssumption DEF Actor, Owner

-----------------------------------------------------------------------------
\* Every step keeps every variable in its type.
LEMMA TypeStep == TypeOK /\ [Next]_vars => TypeOK'
<1> SUFFICES ASSUME TypeOK, [Next]_vars PROVE TypeOK'
  OBVIOUS
<1> USE ActorFacts DEF TypeOK, Goto, call, session, lock, store,
                       TaskPC, ProcPC, Actor
<1>1. ASSUME NEW p \in Proc, OpenLock(p)
      PROVE  TypeOK'
  BY <1>1 DEF OpenLock
<1>2. ASSUME NEW p \in Proc, OpenRefused(p)
      PROVE  TypeOK'
  BY <1>2 DEF OpenRefused
<1>3. ASSUME NEW p \in Proc, OpenMigrate(p)
      PROVE  TypeOK'
  BY <1>3 DEF OpenMigrate
<1>4. ASSUME NEW p \in Proc, OpenDone(p)
      PROVE  TypeOK'
  BY <1>4 DEF OpenDone
<1>5. ASSUME NEW p \in Proc, DrainReturn(p)
      PROVE  TypeOK'
  BY <1>5 DEF DrainReturn
<1>6. ASSUME NEW p \in Proc, Spawn(p)
      PROVE  TypeOK'
  BY <1>6 DEF Spawn
<1>7. ASSUME NEW p \in Proc, Signal(p)
      PROVE  TypeOK'
  BY <1>7 DEF Signal
<1>8. ASSUME NEW p \in Proc, Shutdown(p)
      PROVE  TypeOK'
  BY <1>8 DEF Shutdown
<1>9. ASSUME NEW p \in Proc, Crash(p)
      PROVE  TypeOK'
  BY <1>9 DEF Crash, Forget
<1>10. ASSUME NEW a \in Actor, Park(a)
       PROVE  TypeOK'
  BY <1>10 DEF Park
<1>11. ASSUME NEW a \in Actor, Admit(a)
       PROVE  TypeOK'
  BY <1>11 DEF Admit, Leaves
<1>12. ASSUME NEW t \in Task, NEW k \in {"mutate", "migrate"}, StartCall(t, k)
       PROVE  TypeOK'
  BY <1>12 DEF StartCall
<1>13. ASSUME NEW t \in Task, LoadHeld(t)
       PROVE  TypeOK'
  BY <1>13 DEF LoadHeld
<1>14. ASSUME NEW t \in Task, FastTry(t)
       PROVE  TypeOK'
  BY <1>14 DEF FastTry, TryLock
<1>15. ASSUME NEW t \in Task, Poll(t)
       PROVE  TypeOK'
  BY <1>15 DEF Poll, TryLock, Budget
<1>16. ASSUME NEW t \in Task, LockTimeout(t)
       PROVE  TypeOK'
  BY <1>16 DEF LockTimeout, GiveUp
<1>17. ASSUME NEW t \in Task, GiveUp(t)
       PROVE  TypeOK'
  BY <1>17 DEF GiveUp
<1>18. ASSUME NEW t \in Task, Mark(t)
       PROVE  TypeOK'
  BY <1>18 DEF Mark
<1>19. ASSUME NEW t \in Task, Allocate(t)
       PROVE  TypeOK'
  BY <1>19 DEF Allocate
<1>20. ASSUME NEW t \in Task, Begin(t)
       PROVE  TypeOK'
  BY <1>20 DEF Begin
<1>21. ASSUME NEW t \in Task, Commit(t)
       PROVE  TypeOK'
  BY <1>21 DEF Commit, EndTx
<1>22. ASSUME NEW t \in Task, Rollback(t)
       PROVE  TypeOK'
  BY <1>22 DEF Rollback, EndTx
<1>23. ASSUME NEW t \in Task, Unlock(t)
       PROVE  TypeOK'
  BY <1>23 DEF Unlock
<1>24. ASSUME NEW t \in Task, ClearHeld(t)
       PROVE  TypeOK'
  BY <1>24 DEF ClearHeld
<1>25. ASSUME NEW t \in Task, ReleasePermit(t)
       PROVE  TypeOK'
  BY <1>25 DEF ReleasePermit, Forget
<1>26. ASSUME NEW t \in Task, CancelQueued(t)
       PROVE  TypeOK'
  BY <1>26 DEF CancelQueued, Leaves, Forget
<1>27. ASSUME NEW t \in Task, Abort(t)
       PROVE  TypeOK'
  BY <1>27 DEF Abort
<1>28. CASE UNCHANGED vars
  BY <1>28 DEF vars
<1> HIDE DEF TypeOK
<1> QED
  BY <1>1, <1>2, <1>3, <1>4, <1>5, <1>6, <1>7, <1>8, <1>9, <1>10, <1>11,
     <1>12, <1>13, <1>14, <1>15, <1>16, <1>17, <1>18, <1>19, <1>20, <1>21,
     <1>22, <1>23, <1>24, <1>25, <1>26, <1>27, <1>28
     DEF Next, Advance, Serve, Disturb, Control, Actor

\* Every step keeps the inductive invariant.
LEMMA InvStep == IInv /\ [Next]_vars => IInv'
<1> SUFFICES ASSUME IInv, [Next]_vars PROVE Owned'
  BY TypeStep DEF IInv
<1> USE ActorFacts
    DEF IInv, TypeOK, PermitOwned, LockOwned, HeldOwned, GuardReal,
        FreshCandidate, Goto, call, session, lock, store, TaskPC, ProcPC,
        PastSemaphore, HoldsFile, HoldsGuard, MarkerUp, Actor
<1> USE DEF Owned
<1>1. ASSUME NEW p \in Proc, OpenLock(p)
      PROVE  Owned'
  BY <1>1 DEF OpenLock
<1>2. ASSUME NEW p \in Proc, OpenRefused(p)
      PROVE  Owned'
  BY <1>2 DEF OpenRefused
<1>3. ASSUME NEW p \in Proc, OpenMigrate(p)
      PROVE  Owned'
  BY <1>3 DEF OpenMigrate
<1>4. ASSUME NEW p \in Proc, OpenDone(p)
      PROVE  Owned'
  BY <1>4 DEF OpenDone
<1>5. ASSUME NEW p \in Proc, DrainReturn(p)
      PROVE  Owned'
  BY <1>5 DEF DrainReturn
<1>6. ASSUME NEW p \in Proc, Spawn(p)
      PROVE  Owned'
  BY <1>6 DEF Spawn
<1>7. ASSUME NEW p \in Proc, Signal(p)
      PROVE  Owned'
  BY <1>7 DEF Signal
<1>8. ASSUME NEW p \in Proc, Shutdown(p)
      PROVE  Owned'
  BY <1>8 DEF Shutdown
<1>9. ASSUME NEW p \in Proc, Crash(p)
      PROVE  Owned'
  BY <1>9 DEF Crash, Forget
<1>10. ASSUME NEW a \in Actor, Park(a)
       PROVE  Owned'
  BY <1>10 DEF Park
<1>11. ASSUME NEW a \in Actor, Admit(a)
       PROVE  Owned'
  BY <1>11 DEF Admit, Leaves
<1>12. ASSUME NEW t \in Task, NEW k \in {"mutate", "migrate"}, StartCall(t, k)
       PROVE  Owned'
  BY <1>12 DEF StartCall
<1>13. ASSUME NEW t \in Task, LoadHeld(t)
       PROVE  Owned'
  BY <1>13 DEF LoadHeld
<1>14. ASSUME NEW t \in Task, FastTry(t)
       PROVE  Owned'
  BY <1>14 DEF FastTry, TryLock
<1>15. ASSUME NEW t \in Task, Poll(t)
       PROVE  Owned'
  BY <1>15 DEF Poll, TryLock, Budget
<1>16. ASSUME NEW t \in Task, LockTimeout(t)
       PROVE  Owned'
  BY <1>16 DEF LockTimeout, GiveUp
<1>17. ASSUME NEW t \in Task, GiveUp(t)
       PROVE  Owned'
  BY <1>17 DEF GiveUp
<1>18. ASSUME NEW t \in Task, Mark(t)
       PROVE  Owned'
  BY <1>18 DEF Mark
<1>19. ASSUME NEW t \in Task, Allocate(t)
       PROVE  Owned'
  BY <1>19 DEF Allocate
<1>20. ASSUME NEW t \in Task, Begin(t)
       PROVE  Owned'
  BY <1>20 DEF Begin
<1>21. ASSUME NEW t \in Task, Commit(t)
       PROVE  Owned'
  BY <1>21 DEF Commit, EndTx
<1>22. ASSUME NEW t \in Task, Rollback(t)
       PROVE  Owned'
  BY <1>22 DEF Rollback, EndTx
<1>23. ASSUME NEW t \in Task, Unlock(t)
       PROVE  Owned'
  <2>1. pc[t] = "dropping" /\ guard[t] = "real" /\ flock = t
    BY <1>23 DEF Unlock
  <2>2. pc' = [pc EXCEPT ![t] = "unlocked"] /\ flock' = Nobody
    BY <1>23, <2>1 DEF Unlock
  <2>3. guard' = [guard EXCEPT ![t] = "none"] /\ permit' = permit /\ held' = held
    BY <1>23 DEF Unlock
  <2>4. op' = op /\ cand' = cand /\ children' = children
    BY <1>23 DEF Unlock
  <2>5. PermitOwned'
    BY <2>1, <2>2, <2>3
  <2>6. LockOwned'
    BY <2>1, <2>2
  <2>7. HeldOwned'
    BY <2>1, <2>2, <2>3
  <2>8. GuardReal' /\ FreshCandidate'
    BY <2>1, <2>2, <2>3, <2>4
  <2> QED
    BY <2>5, <2>6, <2>7, <2>8 DEF Owned
<1>24. ASSUME NEW t \in Task, ClearHeld(t)
       PROVE  Owned'
  BY <1>24 DEF ClearHeld
<1>25. ASSUME NEW t \in Task, ReleasePermit(t)
       PROVE  Owned'
  BY <1>25 DEF ReleasePermit, Forget
<1>26. ASSUME NEW t \in Task, CancelQueued(t)
       PROVE  Owned'
  BY <1>26 DEF CancelQueued, Leaves, Forget
<1>27. ASSUME NEW t \in Task, Abort(t)
       PROVE  Owned'
  BY <1>27 DEF Abort
<1>28. CASE UNCHANGED vars
  BY <1>28 DEF vars
<1> QED
  BY <1>1, <1>2, <1>3, <1>4, <1>5, <1>6, <1>7, <1>8, <1>9, <1>10, <1>11,
     <1>12, <1>13, <1>14, <1>15, <1>16, <1>17, <1>18, <1>19, <1>20, <1>21,
     <1>22, <1>23, <1>24, <1>25, <1>26, <1>27, <1>28
     DEF Next, Advance, Serve, Disturb, Control, Actor

\* The inductive invariant holds in every reachable state.
LEMMA Inductive == Spec => []IInv
<1>1. Init => IInv
  BY ActorFacts
     DEF Init, IInv, Owned, TypeOK, PermitOwned, LockOwned, HeldOwned, GuardReal,
         FreshCandidate, TaskPC, ProcPC, PastSemaphore, HoldsFile, HoldsGuard,
         Actor
<1> QED
  BY <1>1, InvStep, PTL DEF Spec

-----------------------------------------------------------------------------
\* Every variable stays in its type, however many processes and calls there are.
THEOREM TypeCorrect == Spec => []TypeOK
<1>1. IInv => TypeOK
  BY DEF IInv
<1> QED
  BY <1>1, Inductive, PTL

\* Two actors of any processes are never both between taking and releasing the
\* write lock: acquire_with_timeout never hands out a second guard.
THEOREM Exclusion == Spec => []SingleWriter
<1>1. IInv => SingleWriter
  BY ActorFacts
     DEF IInv, Owned, TypeOK, LockOwned, SingleWriter, InSpan, HoldsFile, TaskPC,
         ProcPC, Actor
<1> QED
  BY <1>1, Inductive, PTL

\* The child number read before the transaction is still free inside it.
THEOREM Allocation == Spec => []FreshCandidate
<1>1. IInv => FreshCandidate
  BY DEF IInv, Owned
<1> QED
  BY <1>1, Inductive, PTL

\* The held marker is up only on behalf of the owner of the permit.
THEOREM MarkerTruth == Spec => []HeldMarkerTruthful
<1>1. IInv => HeldMarkerTruthful
  BY DEF IInv, Owned, HeldOwned, LockOwned, HeldMarkerTruthful, MarkerUp,
         HoldsGuard, HoldsFile
<1> QED
  BY <1>1, Inductive, PTL

\* While shutdown holds the permit no call of the Session is past the semaphore.
THEOREM DrainExclusive == Spec => []DrainExcludesWriters
<1>1. IInv => DrainExcludesWriters
  BY ActorFacts
     DEF IInv, Owned, TypeOK, PermitOwned, DrainExcludesWriters, PastSemaphore,
         TaskPC
<1> QED
  BY <1>1, Inductive, PTL

-----------------------------------------------------------------------------
(* Refinement: flock is the owner of the serial store.                     *)

\* A step either leaves owner and children alone, or enters, mints or leaves.
LEMMA SerialStep == IInv /\ [Next]_vars => [Serial!Next]_<<flock, children>>
<1> SUFFICES ASSUME IInv, [Next]_vars
             PROVE  [Serial!Next]_<<flock, children>>
  OBVIOUS
<1> USE ActorFacts
    DEF IInv, Owned, TypeOK, LockOwned, GuardReal, FreshCandidate, HoldsFile,
        HoldsGuard, Goto, call, session, lock, store, Actor,
        Serial!Next, Serial!Enter, Serial!Mint, Serial!Leave
<1>1. ASSUME NEW p \in Proc, OpenLock(p)
      PROVE  [Serial!Next]_<<flock, children>>
  BY <1>1 DEF OpenLock
<1>2. ASSUME NEW p \in Proc, OpenRefused(p)
      PROVE  [Serial!Next]_<<flock, children>>
  BY <1>2 DEF OpenRefused
<1>3. ASSUME NEW p \in Proc, OpenMigrate(p)
      PROVE  [Serial!Next]_<<flock, children>>
  BY <1>3 DEF OpenMigrate
<1>4. ASSUME NEW p \in Proc, OpenDone(p)
      PROVE  [Serial!Next]_<<flock, children>>
  BY <1>4 DEF OpenDone
<1>5. ASSUME NEW p \in Proc, DrainReturn(p)
      PROVE  [Serial!Next]_<<flock, children>>
  BY <1>5 DEF DrainReturn
<1>6. ASSUME NEW p \in Proc, Spawn(p)
      PROVE  [Serial!Next]_<<flock, children>>
  BY <1>6 DEF Spawn
<1>7. ASSUME NEW p \in Proc, Signal(p)
      PROVE  [Serial!Next]_<<flock, children>>
  BY <1>7 DEF Signal
<1>8. ASSUME NEW p \in Proc, Shutdown(p)
      PROVE  [Serial!Next]_<<flock, children>>
  BY <1>8 DEF Shutdown
<1>9. ASSUME NEW p \in Proc, Crash(p)
      PROVE  [Serial!Next]_<<flock, children>>
  BY <1>9 DEF Crash, Forget
<1>10. ASSUME NEW a \in Actor, Park(a)
       PROVE  [Serial!Next]_<<flock, children>>
  BY <1>10 DEF Park
<1>11. ASSUME NEW a \in Actor, Admit(a)
       PROVE  [Serial!Next]_<<flock, children>>
  BY <1>11 DEF Admit, Leaves
<1>12. ASSUME NEW t \in Task, NEW k \in {"mutate", "migrate"}, StartCall(t, k)
       PROVE  [Serial!Next]_<<flock, children>>
  BY <1>12 DEF StartCall
<1>13. ASSUME NEW t \in Task, LoadHeld(t)
       PROVE  [Serial!Next]_<<flock, children>>
  BY <1>13 DEF LoadHeld
<1>14. ASSUME NEW t \in Task, FastTry(t)
       PROVE  [Serial!Next]_<<flock, children>>
  BY <1>14 DEF FastTry, TryLock
<1>15. ASSUME NEW t \in Task, Poll(t)
       PROVE  [Serial!Next]_<<flock, children>>
  BY <1>15 DEF Poll, TryLock, Budget
<1>16. ASSUME NEW t \in Task, LockTimeout(t)
       PROVE  [Serial!Next]_<<flock, children>>
  BY <1>16 DEF LockTimeout, GiveUp
<1>17. ASSUME NEW t \in Task, GiveUp(t)
       PROVE  [Serial!Next]_<<flock, children>>
  BY <1>17 DEF GiveUp
<1>18. ASSUME NEW t \in Task, Mark(t)
       PROVE  [Serial!Next]_<<flock, children>>
  BY <1>18 DEF Mark
<1>19. ASSUME NEW t \in Task, Allocate(t)
       PROVE  [Serial!Next]_<<flock, children>>
  BY <1>19 DEF Allocate
<1>20. ASSUME NEW t \in Task, Begin(t)
       PROVE  [Serial!Next]_<<flock, children>>
  BY <1>20 DEF Begin
<1>21. ASSUME NEW t \in Task, Commit(t)
       PROVE  [Serial!Next]_<<flock, children>>
  BY <1>21 DEF Commit, EndTx
<1>22. ASSUME NEW t \in Task, Rollback(t)
       PROVE  [Serial!Next]_<<flock, children>>
  BY <1>22 DEF Rollback, EndTx
<1>23. ASSUME NEW t \in Task, Unlock(t)
       PROVE  [Serial!Next]_<<flock, children>>
  BY <1>23 DEF Unlock
<1>24. ASSUME NEW t \in Task, ClearHeld(t)
       PROVE  [Serial!Next]_<<flock, children>>
  BY <1>24 DEF ClearHeld
<1>25. ASSUME NEW t \in Task, ReleasePermit(t)
       PROVE  [Serial!Next]_<<flock, children>>
  BY <1>25 DEF ReleasePermit, Forget
<1>26. ASSUME NEW t \in Task, CancelQueued(t)
       PROVE  [Serial!Next]_<<flock, children>>
  BY <1>26 DEF CancelQueued, Leaves, Forget
<1>27. ASSUME NEW t \in Task, Abort(t)
       PROVE  [Serial!Next]_<<flock, children>>
  BY <1>27 DEF Abort
<1>28. CASE UNCHANGED vars
  BY <1>28 DEF vars
<1> QED
  BY <1>1, <1>2, <1>3, <1>4, <1>5, <1>6, <1>7, <1>8, <1>9, <1>10, <1>11,
     <1>12, <1>13, <1>14, <1>15, <1>16, <1>17, <1>18, <1>19, <1>20, <1>21,
     <1>22, <1>23, <1>24, <1>25, <1>26, <1>27, <1>28
     DEF Next, Advance, Serve, Disturb, Control, Actor

\* The write lock implements the serial store: one owner at a time, and each
\* commit numbers exactly the next child.
THEOREM Refinement == Spec => SerialSpec
<1>1. Init => Serial!Init
  BY DEF Init, Serial!Init
<1> QED
  BY <1>1, SerialStep, Inductive, PTL DEF Spec, SerialSpec, Serial!Spec

-----------------------------------------------------------------------------
(* Nothing is left locked, and nobody waits for somebody who waits.         *)

\* Who has a permit, the file or the transaction is at a step from which it will
\* give it back.
PermitLive ==
  \A p \in Proc : permit[p] # Nobody =>
    \/ permit[p] \in Task /\ ProcOf[permit[p]] = p /\ pc[permit[p]] \in PastSemaphore
    \/ permit[p] = p /\ pc[p] = "permitted"

FileLive ==
  flock # Nobody =>
    pc[flock] \in IF flock \in Task THEN HoldsFile ELSE {"fencing", "migrating"}

TxLive ==
  dbWriter # Nobody =>
    pc[dbWriter] = IF dbWriter \in Task THEN "inTx" ELSE "migrating"

Answerable == PermitLive /\ FileLive /\ TxLive

LEMMA AnswerableStep == IInv /\ Answerable /\ [Next]_vars => Answerable'
<1> SUFFICES ASSUME IInv, Answerable, [Next]_vars PROVE Answerable'
  OBVIOUS
<1> USE ActorFacts
    DEF Answerable, PermitLive, FileLive, TxLive, IInv, Owned, TypeOK, PermitOwned,
        LockOwned, GuardReal, PastSemaphore, HoldsFile, HoldsGuard, Goto, call,
        session, lock, store, Actor
<1>1. ASSUME NEW p \in Proc, OpenLock(p)
      PROVE  Answerable'
  BY <1>1 DEF OpenLock
<1>2. ASSUME NEW p \in Proc, OpenRefused(p)
      PROVE  Answerable'
  BY <1>2 DEF OpenRefused
<1>3. ASSUME NEW p \in Proc, OpenMigrate(p)
      PROVE  Answerable'
  BY <1>3 DEF OpenMigrate
<1>4. ASSUME NEW p \in Proc, OpenDone(p)
      PROVE  Answerable'
  BY <1>4 DEF OpenDone
<1>5. ASSUME NEW p \in Proc, DrainReturn(p)
      PROVE  Answerable'
  BY <1>5 DEF DrainReturn
<1>6. ASSUME NEW p \in Proc, Spawn(p)
      PROVE  Answerable'
  BY <1>6 DEF Spawn
<1>7. ASSUME NEW p \in Proc, Signal(p)
      PROVE  Answerable'
  BY <1>7 DEF Signal
<1>8. ASSUME NEW p \in Proc, Shutdown(p)
      PROVE  Answerable'
  BY <1>8 DEF Shutdown
<1>9. ASSUME NEW p \in Proc, Crash(p)
      PROVE  Answerable'
  BY <1>9 DEF Crash, Forget
<1>10. ASSUME NEW a \in Actor, Park(a)
       PROVE  Answerable'
  BY <1>10 DEF Park
<1>11. ASSUME NEW a \in Actor, Admit(a)
       PROVE  Answerable'
  BY <1>11 DEF Admit, Leaves
<1>12. ASSUME NEW t \in Task, NEW k \in {"mutate", "migrate"}, StartCall(t, k)
       PROVE  Answerable'
  BY <1>12 DEF StartCall
<1>13. ASSUME NEW t \in Task, LoadHeld(t)
       PROVE  Answerable'
  BY <1>13 DEF LoadHeld
<1>14. ASSUME NEW t \in Task, FastTry(t)
       PROVE  Answerable'
  BY <1>14 DEF FastTry, TryLock
<1>15. ASSUME NEW t \in Task, Poll(t)
       PROVE  Answerable'
  BY <1>15 DEF Poll, TryLock, Budget
<1>16. ASSUME NEW t \in Task, LockTimeout(t)
       PROVE  Answerable'
  BY <1>16 DEF LockTimeout, GiveUp
<1>17. ASSUME NEW t \in Task, GiveUp(t)
       PROVE  Answerable'
  BY <1>17 DEF GiveUp
<1>18. ASSUME NEW t \in Task, Mark(t)
       PROVE  Answerable'
  BY <1>18 DEF Mark
<1>19. ASSUME NEW t \in Task, Allocate(t)
       PROVE  Answerable'
  BY <1>19 DEF Allocate
<1>20. ASSUME NEW t \in Task, Begin(t)
       PROVE  Answerable'
  BY <1>20 DEF Begin
<1>21. ASSUME NEW t \in Task, Commit(t)
       PROVE  Answerable'
  BY <1>21 DEF Commit, EndTx
<1>22. ASSUME NEW t \in Task, Rollback(t)
       PROVE  Answerable'
  BY <1>22 DEF Rollback, EndTx
<1>23. ASSUME NEW t \in Task, Unlock(t)
       PROVE  Answerable'
  BY <1>23 DEF Unlock
<1>24. ASSUME NEW t \in Task, ClearHeld(t)
       PROVE  Answerable'
  BY <1>24 DEF ClearHeld
<1>25. ASSUME NEW t \in Task, ReleasePermit(t)
       PROVE  Answerable'
  BY <1>25 DEF ReleasePermit, Forget
<1>26. ASSUME NEW t \in Task, CancelQueued(t)
       PROVE  Answerable'
  BY <1>26 DEF CancelQueued, Leaves, Forget
<1>27. ASSUME NEW t \in Task, Abort(t)
       PROVE  Answerable'
  BY <1>27 DEF Abort
<1>28. CASE UNCHANGED vars
  BY <1>28 DEF vars
<1> QED
  BY <1>1, <1>2, <1>3, <1>4, <1>5, <1>6, <1>7, <1>8, <1>9, <1>10, <1>11,
     <1>12, <1>13, <1>14, <1>15, <1>16, <1>17, <1>18, <1>19, <1>20, <1>21,
     <1>22, <1>23, <1>24, <1>25, <1>26, <1>27, <1>28
     DEF Next, Advance, Serve, Disturb, Control, Actor

\* No timeout, error, cancellation or crash leaks a permit, the file lock or a
\* transaction: whatever is held, is held by a call or a process that is still at
\* work on it (permit.rs, libsql/lock.rs Drop).
THEOREM NothingLeaks == Spec => []Answerable
<1>1. Init => Answerable
  BY DEF Init, Answerable, PermitLive, FileLive, TxLive
<1> QED BY <1>1, AnswerableStep, Inductive, PTL DEF Spec

-----------------------------------------------------------------------------
(* The semaphore's queue is a line: it has a first.                         *)

Queue == {a \in Actor : pc[a] = "queued"}

Line ==
  /\ \A a \in Actor :
       /\ ahead[a] \subseteq {b \in Queue : Owner(b) = Owner(a)} \ {a}
       /\ \A b \in ahead[a] : ahead[b] \subseteq ahead[a]
  /\ IsFiniteSet(Queue)

LEMMA QueueKept ==
  ASSUME IInv, [Next]_vars, \A a \in Actor : ~Park(a) /\ ~Admit(a),
         \A t \in Task : ~CancelQueued(t), \A p \in Proc : ~Crash(p)
  PROVE  UNCHANGED ahead /\ Queue' = Queue
<1> USE ActorFacts
    DEF Queue, IInv, TypeOK, Goto, call, session, lock, store, Actor
<1>1. ASSUME NEW p \in Proc, OpenLock(p)
      PROVE  UNCHANGED ahead /\ Queue' = Queue
  BY <1>1 DEF OpenLock
<1>2. ASSUME NEW p \in Proc, OpenRefused(p)
      PROVE  UNCHANGED ahead /\ Queue' = Queue
  BY <1>2 DEF OpenRefused
<1>3. ASSUME NEW p \in Proc, OpenMigrate(p)
      PROVE  UNCHANGED ahead /\ Queue' = Queue
  BY <1>3 DEF OpenMigrate
<1>4. ASSUME NEW p \in Proc, OpenDone(p)
      PROVE  UNCHANGED ahead /\ Queue' = Queue
  BY <1>4 DEF OpenDone
<1>5. ASSUME NEW p \in Proc, DrainReturn(p)
      PROVE  UNCHANGED ahead /\ Queue' = Queue
  BY <1>5 DEF DrainReturn
<1>6. ASSUME NEW p \in Proc, Spawn(p)
      PROVE  UNCHANGED ahead /\ Queue' = Queue
  BY <1>6 DEF Spawn
<1>7. ASSUME NEW p \in Proc, Signal(p)
      PROVE  UNCHANGED ahead /\ Queue' = Queue
  BY <1>7 DEF Signal
<1>8. ASSUME NEW p \in Proc, Shutdown(p)
      PROVE  UNCHANGED ahead /\ Queue' = Queue
  BY <1>8 DEF Shutdown
<1>9. ASSUME NEW t \in Task, NEW k \in {"mutate", "migrate"}, StartCall(t, k)
      PROVE  UNCHANGED ahead /\ Queue' = Queue
  BY <1>9 DEF StartCall
<1>10. ASSUME NEW t \in Task, LoadHeld(t)
       PROVE  UNCHANGED ahead /\ Queue' = Queue
  BY <1>10 DEF LoadHeld
<1>11. ASSUME NEW t \in Task, FastTry(t)
       PROVE  UNCHANGED ahead /\ Queue' = Queue
  BY <1>11 DEF FastTry, TryLock
<1>12. ASSUME NEW t \in Task, Poll(t)
       PROVE  UNCHANGED ahead /\ Queue' = Queue
  BY <1>12 DEF Poll, TryLock, Budget
<1>13. ASSUME NEW t \in Task, LockTimeout(t)
       PROVE  UNCHANGED ahead /\ Queue' = Queue
  BY <1>13 DEF LockTimeout, GiveUp
<1>14. ASSUME NEW t \in Task, GiveUp(t)
       PROVE  UNCHANGED ahead /\ Queue' = Queue
  BY <1>14 DEF GiveUp
<1>15. ASSUME NEW t \in Task, Mark(t)
       PROVE  UNCHANGED ahead /\ Queue' = Queue
  BY <1>15 DEF Mark
<1>16. ASSUME NEW t \in Task, Allocate(t)
       PROVE  UNCHANGED ahead /\ Queue' = Queue
  BY <1>16 DEF Allocate
<1>17. ASSUME NEW t \in Task, Begin(t)
       PROVE  UNCHANGED ahead /\ Queue' = Queue
  BY <1>17 DEF Begin
<1>18. ASSUME NEW t \in Task, Commit(t)
       PROVE  UNCHANGED ahead /\ Queue' = Queue
  BY <1>18 DEF Commit, EndTx
<1>19. ASSUME NEW t \in Task, Rollback(t)
       PROVE  UNCHANGED ahead /\ Queue' = Queue
  BY <1>19 DEF Rollback, EndTx
<1>20. ASSUME NEW t \in Task, Unlock(t)
       PROVE  UNCHANGED ahead /\ Queue' = Queue
  BY <1>20 DEF Unlock
<1>21. ASSUME NEW t \in Task, ClearHeld(t)
       PROVE  UNCHANGED ahead /\ Queue' = Queue
  BY <1>21 DEF ClearHeld
<1>22. ASSUME NEW t \in Task, ReleasePermit(t)
       PROVE  UNCHANGED ahead /\ Queue' = Queue
  BY <1>22 DEF ReleasePermit, Forget
<1>23. ASSUME NEW t \in Task, Abort(t)
       PROVE  UNCHANGED ahead /\ Queue' = Queue
  BY <1>23 DEF Abort
<1>24. CASE UNCHANGED vars
  BY <1>24 DEF vars
<1> QED
  BY <1>1, <1>2, <1>3, <1>4, <1>5, <1>6, <1>7, <1>8, <1>9, <1>10, <1>11,
     <1>12, <1>13, <1>14, <1>15, <1>16, <1>17, <1>18, <1>19, <1>20, <1>21,
     <1>22, <1>23, <1>24
     DEF Next, Advance, Serve, Disturb, Control, Actor

LEMMA LineStep == IInv /\ Line /\ [Next]_vars => Line'
<1> SUFFICES ASSUME IInv, Line, [Next]_vars PROVE Line'
  OBVIOUS
<1> USE ActorFacts
<1>1. pc \in [Actor -> TaskPC \cup ProcPC] /\ ahead \in [Actor -> SUBSET Actor]
  BY DEF IInv, TypeOK
<1>2. ASSUME NEW a \in Actor, Park(a) PROVE Line'
  <2>1. pc[a] # "queued" /\ Queue' = Queue \cup {a}
    BY <1>1, <1>2 DEF Park, Goto, Queue
  <2>2. IsFiniteSet(Queue')
    BY <2>1, FS_AddElement DEF Line
  <2>3. /\ \A b \in Actor : b # a => ahead'[b] = ahead[b]
        /\ ahead'[a] = {b \in Queue : Owner(b) = Owner(a)}
    BY <1>1, <1>2 DEF Park, Queue
  <2>4. \A b \in Actor : a \notin ahead[b]
    BY <2>1 DEF Line, Queue
  <2>5. a \notin Queue
    BY <2>1 DEF Queue
  <2>6. ASSUME NEW b \in Actor
        PROVE  /\ ahead'[b] \subseteq {c \in Queue' : Owner(c) = Owner(b)} \ {b}
               /\ \A c \in ahead'[b] : ahead'[c] \subseteq ahead'[b]
    <3>1. CASE b = a
      <4>1. /\ ahead'[a] \subseteq {c \in Queue' : Owner(c) = Owner(a)} \ {a}
            /\ \A c \in ahead'[a] : c \in Actor /\ c # a /\ Owner(c) = Owner(a)
        BY <2>1, <2>3, <2>5 DEF Queue
      <4>2. ASSUME NEW c \in ahead'[a] PROVE ahead'[c] \subseteq ahead'[a]
        <5>1. ahead'[c] = ahead[c] /\ Owner(c) = Owner(a) /\ c \in Actor
          BY <2>3, <4>1
        <5>2. \A d \in ahead[c] : d \in Queue /\ Owner(d) = Owner(c)
          BY <5>1 DEF Line
        <5> QED BY <2>3, <5>1, <5>2
      <4> QED BY <3>1, <4>1, <4>2
    <3>2. CASE b # a
      <4>1. ahead'[b] = ahead[b]
        BY <2>3, <3>2
      <4>2. \A c \in ahead[b] : c \in Queue /\ c \in Actor /\ ahead'[c] = ahead[c]
        BY <2>3, <2>5 DEF Line, Queue
      <4> QED BY <2>1, <4>1, <4>2 DEF Line
    <3> QED BY <3>1, <3>2
  <2> QED BY <2>2, <2>6 DEF Line
<1>3. ASSUME NEW a \in Actor, Queue' = Queue \ {a}, ahead' = Leaves(a) PROVE Line'
  <2>1. IsFiniteSet(Queue')
    BY <1>3, FS_RemoveElement DEF Line
  <2>2. \A b \in Actor : ahead'[b] = IF b = a THEN {} ELSE ahead[b] \ {a}
    BY <1>3 DEF Leaves
  <2>3. ASSUME NEW b \in Actor
        PROVE  /\ ahead'[b] \subseteq {c \in Queue' : Owner(c) = Owner(b)} \ {b}
               /\ \A c \in ahead'[b] : ahead'[c] \subseteq ahead'[b]
    <3>1. /\ ahead[b] \subseteq {c \in Queue : Owner(c) = Owner(b)} \ {b}
          /\ \A c \in ahead[b] : c \in Actor /\ ahead[c] \subseteq ahead[b]
      BY DEF Line, Queue
    <3>2. CASE b = a
      BY <2>2, <3>2
    <3>3. CASE b # a
      <4>1. ahead'[b] = ahead[b] \ {a}
        BY <2>2, <3>3
      <4>2. \A c \in ahead'[b] : ahead'[c] = ahead[c] \ {a}
        BY <2>2, <3>1, <4>1
      <4> QED BY <1>3, <3>1, <4>1, <4>2
    <3> QED BY <3>2, <3>3
  <2> QED BY <2>1, <2>3 DEF Line
<1>4. ASSUME NEW a \in Actor, Admit(a) PROVE Line'
  <2>1. Queue' = Queue \ {a} /\ ahead' = Leaves(a)
    BY <1>1, <1>4 DEF Admit, Goto, Queue
  <2> QED BY <1>3, <2>1
<1>5. ASSUME NEW t \in Task, CancelQueued(t) PROVE Line'
  <2>1. Queue' = Queue \ {t} /\ ahead' = Leaves(t)
    BY <1>1, <1>5 DEF CancelQueued, Goto, Queue
  <2> QED BY <1>3, <2>1
<1>6. ASSUME NEW p \in Proc, Crash(p) PROVE Line'
  <2>1. Queue' = {a \in Queue : Owner(a) # p}
    BY <1>1, <1>6 DEF Crash, Queue
  <2>2. \A b \in Actor : ahead'[b] = IF Owner(b) = p THEN {} ELSE ahead[b]
    BY <1>6 DEF Crash
  <2>3. IsFiniteSet(Queue')
    BY <2>1, FS_Subset DEF Line
  <2>4. ASSUME NEW b \in Actor
        PROVE  /\ ahead'[b] \subseteq {c \in Queue' : Owner(c) = Owner(b)} \ {b}
               /\ \A c \in ahead'[b] : ahead'[c] \subseteq ahead'[b]
    BY <1>1, <2>1, <2>2 DEF Line
  <2> QED BY <2>3, <2>4 DEF Line
<1>7. CASE /\ \A a \in Actor : ~Park(a) /\ ~Admit(a)
           /\ \A t \in Task : ~CancelQueued(t)
           /\ \A p \in Proc : ~Crash(p)
  <2>1. UNCHANGED ahead /\ Queue' = Queue
    BY <1>7, QueueKept
  <2> QED BY <2>1 DEF Line
<1> QED BY <1>2, <1>4, <1>5, <1>6, <1>7

LEMMA QueueLines == Spec => []Line
<1>1. Init => Line
  <2> SUFFICES ASSUME Init PROVE Line
    OBVIOUS
  <2>1. Queue = {}
    BY DEF Init, Queue
  <2>2. \A a \in Actor : ahead[a] = {}
    BY DEF Init
  <2> QED BY <2>1, <2>2, FS_EmptySet DEF Line
<1> QED BY <1>1, LineStep, Inductive, PTL DEF Spec

\* A set of naturals has a least element.
LEMMA LeastNumber ==
  ASSUME NEW T \in SUBSET Nat, T # {}
  PROVE  \E m \in T : \A k \in T : m <= k
<1> DEFINE R == {p \in Nat \X Nat : p[1] < p[2]}
<1>1. PICK m \in T : \A k \in T : <<k, m>> \notin R
  <2>1. IsWellFoundedOn(R, Nat)
    BY NatLessThanWellFounded DEF OpToRel
  <2> HIDE DEF R
  <2> QED BY <2>1, WFMin
<1>2. \A k \in T : ~(k < m)
  BY <1>1
<1> QED BY <1>1, <1>2

LEMMA QueueHasFirst ==
  ASSUME IInv, Line, NEW p \in Proc, NEW a \in Queue, Owner(a) = p
  PROVE  \E b \in Queue : Owner(b) = p /\ ahead[b] = {}
<1> DEFINE Mine == {b \in Queue : Owner(b) = p}
           Size == {Cardinality(ahead[b]) : b \in Mine}
<1>1. \A b \in Mine : b \in Actor /\ ahead[b] \subseteq Mine \ {b}
  BY DEF Line, Queue
<1>2. \A b \in Mine : IsFiniteSet(ahead[b]) /\ Cardinality(ahead[b]) \in Nat
  <2>1. IsFiniteSet(Queue)
    BY DEF Line
  <2> QED BY <1>1, <2>1, FS_Subset, FS_CardinalityType
<1>3. PICK b \in Mine : \A c \in Mine : Cardinality(ahead[b]) <= Cardinality(ahead[c])
  <2>1. Size \in SUBSET Nat /\ Size # {}
    BY <1>2
  <2>2. PICK m \in Size : \A k \in Size : m <= k
    <3> HIDE DEF Size
    <3> QED BY <2>1, LeastNumber
  <2>3. PICK b \in Mine : m = Cardinality(ahead[b])
    BY <2>2
  <2>4. \A c \in Mine : Cardinality(ahead[c]) \in Size
    OBVIOUS
  <2> QED BY <2>2, <2>3, <2>4
<1>4. ASSUME NEW c \in ahead[b] PROVE FALSE
  <2>1. c \in Mine /\ ahead[c] \subseteq ahead[b] /\ c \notin ahead[c]
    BY <1>1, <1>4 DEF Line
  <2>2. Cardinality(ahead[b]) <= Cardinality(ahead[c])
    BY <1>3, <2>1
  <2>3. Cardinality(ahead[c]) <= Cardinality(ahead[b])
    BY <1>2, <2>1, FS_Subset
  <2>4. ahead[c] = ahead[b]
    BY <1>2, <2>1, <2>2, <2>3, FS_Subset
  <2> QED BY <1>4, <2>1, <2>4
<1> QED BY <1>4

\* Where an actor rests, owing nothing to anybody; and what the two waiting steps
\* wait for, every other step being free to happen.
Resting == {"idle", "down", "open", "drained"}
WantsTx(a) ==
  pc[a] \in {"probed", "fencing"} \/ (a \in Task /\ pc[a] = "locked" /\ op[a] = "migrate")
CanGoOn(a) ==
  /\ pc[a] = "queued" => ahead[a] = {} /\ permit[Owner(a)] = Nobody
  /\ WantsTx(a) => dbWriter = Nobody

\* In every Session with a call in flight, a shutdown or an opening under way, one
\* of its own actors can go on: permit, file lock and transaction are taken in
\* this order by everybody, so nobody waits for somebody who waits, in this
\* process or another, and BEGIN IMMEDIATE finds no transaction open.
SessionMoves ==
  /\ \A a \in Actor : WantsTx(a) => dbWriter = Nobody
  /\ \A p \in Proc : (\E a \in Actor : Owner(a) = p /\ pc[a] \notin Resting) =>
       \E a \in Actor : Owner(a) = p /\ pc[a] \notin Resting /\ CanGoOn(a)

THEOREM NoDeadlock == Spec => []SessionMoves
<1>1. ASSUME IInv, Answerable, Line PROVE SessionMoves
  <2> USE ActorFacts
  <2>1. ASSUME NEW a \in Actor, WantsTx(a) PROVE dbWriter = Nobody
    <3>1. flock = a
      BY <1>1, <2>1 DEF IInv, Owned, TypeOK, LockOwned, HoldsFile, WantsTx, Actor, TaskPC, ProcPC
    <3>2. SUFFICES ASSUME dbWriter # Nobody PROVE FALSE
      OBVIOUS
    <3>3. dbWriter \in Actor /\ flock = dbWriter
      BY <1>1, <3>2 DEF Answerable, TxLive, IInv, Owned, TypeOK, LockOwned, HoldsFile, Actor
    <3>4. pc[a] \in {"inTx", "migrating"}
      BY <1>1, <3>1, <3>2, <3>3 DEF Answerable, TxLive
    <3> QED BY <2>1, <3>4 DEF WantsTx
  <2>2. ASSUME NEW p \in Proc, NEW a \in Actor, Owner(a) = p, pc[a] \notin Resting
        PROVE  \E b \in Actor : Owner(b) = p /\ pc[b] \notin Resting /\ CanGoOn(b)
    <3>1. CASE pc[a] # "queued"
      BY <2>1, <2>2, <3>1 DEF CanGoOn
    <3>2. CASE pc[a] = "queued" /\ permit[p] = Nobody
      <4>1. PICK b \in Queue : Owner(b) = p /\ ahead[b] = {}
        BY <1>1, <2>2, <3>2, QueueHasFirst DEF Queue
      <4> QED BY <2>1, <3>2, <4>1 DEF Queue, CanGoOn, Resting
    <3>3. CASE permit[p] # Nobody
      <4> DEFINE b == permit[p]
      <4>1. b \in Actor /\ Owner(b) = p /\ pc[b] \in PastSemaphore
        BY <1>1, <3>3 DEF Answerable, PermitLive, PastSemaphore
      <4>2. pc[b] \notin Resting /\ pc[b] # "queued"
        BY <4>1 DEF PastSemaphore, Resting
      <4> QED BY <2>1, <4>1, <4>2 DEF CanGoOn
    <3> QED BY <3>1, <3>2, <3>3
  <2> QED BY <2>1, <2>2 DEF SessionMoves
<1> QED BY <1>1, Inductive, NothingLeaks, QueueLines, PTL
=============================================================================
