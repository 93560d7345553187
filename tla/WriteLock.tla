------------------------------ MODULE WriteLock ------------------------------
(***************************************************************************)
(* Serialisation of writers in unblock.  Several processes (one MCP server *)
(* per client) share one database file.  A mutation holds, for its whole   *)
(* span, first the Session's single semaphore permit and then the advisory *)
(* lock on .unblock/.write.lock; inside the span it reads the next child   *)
(* number, opens a BEGIN IMMEDIATE transaction and commits.  The guards    *)
(* are dropped inner first.  Opening a workspace migrates under the same   *)
(* lock, fail-fast.  Processes crash; calls time out, fail and are         *)
(* cancelled; a shutdown drains the permit.                                *)
(***************************************************************************)
EXTENDS Naturals

CONSTANTS
  Proc,      \* processes; each opens one store and one Session
  Task,      \* concurrent calls on those Sessions
  ProcOf,    \* the process a task runs in
  Nobody,    \* no actor
  MaxPoll,   \* try_lock retries that fit in lock_timeout_ms (0: fail-fast)
  MaxChild   \* bound: no call starts once this many children exist

Actor == Task \cup Proc

ASSUME ConstantAssumption ==
  /\ Task \cap Proc = {}
  /\ ProcOf \in [Task -> Proc]
  /\ Nobody \notin Actor
  /\ MaxPoll \in Nat
  /\ MaxChild \in Nat

Owner(a) == IF a \in Proc THEN a ELSE ProcOf[a]

VARIABLES
  pc,        \* where each actor is
  op,        \* what a task runs: "mutate", or "migrate" (Session::migrate)
  guard,     \* the WriteLockGuard a task holds: "none", "real", "reentrant"
  polls,     \* try_lock retries made by a task
  cand,      \* the child number a task has allocated
  ahead,     \* actors that parked on the semaphore before this one
  permit,    \* holder of each Session's permit
  held,      \* the in-memory held marker of each store
  stopping,  \* the shutdown flag of each Session
  flock,     \* whose open file description holds .write.lock
  dbWriter,  \* whose connection is in a BEGIN IMMEDIATE transaction
  children   \* committed children of the one parent, numbered 1..children

session == <<ahead, permit, stopping>>
lock    == <<guard, held, flock>>
store   == <<dbWriter, children>>
call    == <<op, polls, cand>>
vars    == <<pc, call, session, lock, store>>

TaskPC == {"idle", "checked", "queued", "permitted", "opening", "polling",
           "marking", "locked", "probed", "inTx", "dropping", "unlocked",
           "releasing"}
ProcPC == {"down", "starting", "fencing", "migrating", "open", "flagged",
           "queued", "permitted", "drained"}

TypeOK ==
  /\ pc \in [Actor -> TaskPC \cup ProcPC]
  /\ \A t \in Task : pc[t] \in TaskPC
  /\ \A p \in Proc : pc[p] \in ProcPC
  /\ op \in [Task -> {"mutate", "migrate"}]
  /\ guard \in [Task -> {"none", "real", "reentrant"}]
  /\ polls \in [Task -> 0..MaxPoll]
  /\ cand \in [Task -> Nat]
  /\ ahead \in [Actor -> SUBSET Actor]
  /\ permit \in [Proc -> Actor \cup {Nobody}]
  /\ held \in [Proc -> BOOLEAN]
  /\ stopping \in [Proc -> BOOLEAN]
  /\ flock \in Actor \cup {Nobody}
  /\ dbWriter \in Actor \cup {Nobody}
  /\ children \in Nat

Init ==
  /\ pc = [a \in Actor |-> IF a \in Proc THEN "down" ELSE "idle"]
  /\ op = [t \in Task |-> "mutate"]
  /\ guard = [t \in Task |-> "none"]
  /\ polls = [t \in Task |-> 0]
  /\ cand = [t \in Task |-> 0]
  /\ ahead = [a \in Actor |-> {}]
  /\ permit = [p \in Proc |-> Nobody]
  /\ held = [p \in Proc |-> FALSE]
  /\ stopping = [p \in Proc |-> FALSE]
  /\ flock = Nobody
  /\ dbWriter = Nobody
  /\ children = 0

Goto(a, there) == pc' = [pc EXCEPT ![a] = there]

\* The call returns (or its future is dropped): its locals are gone.
Forget(gone) ==
  /\ op' = [t \in Task |-> IF t \in gone THEN "mutate" ELSE op[t]]
  /\ polls' = [t \in Task |-> IF t \in gone THEN 0 ELSE polls[t]]
  /\ cand' = [t \in Task |-> IF t \in gone THEN 0 ELSE cand[t]]

-----------------------------------------------------------------------------
(* The process: open the workspace (migrate under the lock, fail-fast),    *)
(* serve, shut down, crash.                                                *)

Spawn(p) ==
  /\ pc[p] = "down"
  /\ Goto(p, "starting")
  /\ UNCHANGED <<call, session, lock, store>>

\* storage.migrate: acquire_with_timeout(ZERO) on the store's fresh WriteLock.
\* Nothing else runs in the process yet, so its marker is not observable.
OpenLock(p) ==
  /\ pc[p] = "starting"
  /\ flock = Nobody
  /\ flock' = p
  /\ Goto(p, "fencing")
  /\ UNCHANGED <<call, session, guard, held, store>>

\* DatabaseLocked: the workspace does not open and the process exits.
OpenRefused(p) ==
  /\ pc[p] = "starting"
  /\ flock # Nobody
  /\ stopping' = [stopping EXCEPT ![p] = FALSE]
  /\ Goto(p, "down")
  /\ UNCHANGED <<call, ahead, permit, lock, store>>

OpenMigrate(p) ==
  /\ pc[p] = "fencing"
  /\ dbWriter = Nobody
  /\ dbWriter' = p
  /\ Goto(p, "migrating")
  /\ UNCHANGED <<call, session, lock, children>>

OpenDone(p) ==
  /\ pc[p] = "migrating"
  /\ dbWriter' = Nobody
  /\ flock' = Nobody
  /\ Goto(p, "open")
  /\ UNCHANGED <<call, session, guard, held, children>>

\* The signal thread, installed before the workspace opens, sets the flag that
\* is wired into the Session.
Signal(p) ==
  /\ pc[p] # "down"
  /\ ~stopping[p]
  /\ stopping' = [stopping EXCEPT ![p] = TRUE]
  /\ UNCHANGED <<pc, call, ahead, permit, lock, store>>

\* Session::shutdown: store the flag, then drain the permit.
Shutdown(p) ==
  /\ pc[p] = "open"
  /\ stopping' = [stopping EXCEPT ![p] = TRUE]
  /\ Goto(p, "flagged")
  /\ UNCHANGED <<call, ahead, permit, lock, store>>

DrainReturn(p) ==
  /\ pc[p] = "permitted"
  /\ permit' = [permit EXCEPT ![p] = Nobody]
  /\ Goto(p, "drained")
  /\ UNCHANGED <<call, ahead, stopping, lock, store>>

\* The process dies, or exits after the drain.  The kernel closes its file
\* descriptors, SQLite rolls its transaction back, its memory is gone.
Crash(p) ==
  LET dead == {a \in Actor : Owner(a) = p} IN
  /\ pc[p] # "down"
  /\ pc' = [a \in Actor |-> IF a = p THEN "down"
                            ELSE IF a \in dead THEN "idle" ELSE pc[a]]
  /\ guard' = [t \in Task |-> IF t \in dead THEN "none" ELSE guard[t]]
  /\ ahead' = [a \in Actor |-> IF a \in dead THEN {} ELSE ahead[a]]
  /\ permit' = [permit EXCEPT ![p] = Nobody]
  /\ held' = [held EXCEPT ![p] = FALSE]
  /\ stopping' = [stopping EXCEPT ![p] = FALSE]
  /\ flock' = IF flock \in dead THEN Nobody ELSE flock
  /\ dbWriter' = IF dbWriter \in dead THEN Nobody ELSE dbWriter
  /\ Forget(dead)
  /\ UNCHANGED children

-----------------------------------------------------------------------------
(* The semaphore: one permit, waiters served in the order they parked.     *)

\* acquire_write loads the flag once, before it parks.
StartCall(t, k) ==
  /\ pc[t] = "idle"
  /\ pc[ProcOf[t]] \in {"open", "flagged", "queued", "permitted", "drained"}
  /\ ~stopping[ProcOf[t]]
  /\ children < MaxChild
  /\ op' = [op EXCEPT ![t] = k]
  /\ Goto(t, "checked")
  /\ UNCHANGED <<polls, cand, session, lock, store>>

Park(a) ==
  /\ pc[a] \in {"checked", "flagged"}
  /\ ahead' = [ahead EXCEPT ![a] =
                 {b \in Actor : pc[b] = "queued" /\ Owner(b) = Owner(a)}]
  /\ Goto(a, "queued")
  /\ UNCHANGED <<call, permit, stopping, lock, store>>

\* Faulty: a cancelled waiter keeps its place in front of those behind it.
LeavesBehind(a) == [ahead EXCEPT ![a] = {}]

\* A waiter that leaves the queue is no longer ahead of anybody.
Leaves(a) == [b \in Actor |-> IF b = a THEN {} ELSE ahead[b] \ {a}]

\* Faulty: the permit is taken without waiting for its holder.
AdmitBarging(a) ==
  /\ pc[a] = "queued"
  /\ ahead[a] = {}
  /\ permit' = [permit EXCEPT ![Owner(a)] = a]
  /\ ahead' = Leaves(a)
  /\ Goto(a, "permitted")
  /\ UNCHANGED <<call, stopping, lock, store>>

Admit(a) ==
  /\ pc[a] = "queued"
  /\ ahead[a] = {}
  /\ permit[Owner(a)] = Nobody
  /\ permit' = [permit EXCEPT ![Owner(a)] = a]
  /\ ahead' = Leaves(a)
  /\ Goto(a, "permitted")
  /\ UNCHANGED <<call, stopping, lock, store>>

ReleasePermit(t) ==
  /\ pc[t] = "releasing"
  /\ permit' = [permit EXCEPT ![ProcOf[t]] = Nobody]
  /\ Goto(t, "idle")
  /\ Forget({t})
  /\ UNCHANGED <<ahead, stopping, lock, store>>

\* The caller's future is dropped while it waits for the permit.
CancelQueued(t) ==
  /\ pc[t] = "queued"
  /\ ahead' = Leaves(t)
  /\ Goto(t, "idle")
  /\ Forget({t})
  /\ UNCHANGED <<permit, stopping, lock, store>>

-----------------------------------------------------------------------------
(* The advisory lock.                                                      *)

\* Session::migrate tries once; a mutation polls until lock_timeout_ms.
Budget(t) == IF op[t] = "migrate" THEN 0 ELSE MaxPoll

\* The marker is up: a re-entrant guard, no file is opened.
LoadHeld(t) ==
  /\ pc[t] = "permitted"
  /\ IF held[ProcOf[t]]
       THEN /\ guard' = [guard EXCEPT ![t] = "reentrant"]
            /\ Goto(t, "locked")
       ELSE /\ Goto(t, "opening")
            /\ UNCHANGED guard
  /\ UNCHANGED <<call, session, held, flock, store>>

TryLock(t) ==
  /\ flock = Nobody
  /\ flock' = t
  /\ Goto(t, "marking")
  /\ UNCHANGED <<call, session, guard, held, store>>

\* Faulty: the outcome of the first try_lock is not looked at.
FastTryUnchecked(t) ==
  /\ pc[t] = "opening"
  /\ flock' = t
  /\ Goto(t, "marking")
  /\ UNCHANGED <<call, session, guard, held, store>>

FastTry(t) ==
  /\ pc[t] = "opening"
  /\ \/ TryLock(t)
     \/ /\ flock # Nobody
        /\ Goto(t, "polling")
        /\ UNCHANGED <<call, session, lock, store>>

\* Faulty: the deadline is not consulted between polls.
PollForever(t) ==
  /\ pc[t] = "polling"
  /\ flock # Nobody
  /\ polls' = [polls EXCEPT ![t] = @ + 1]
  /\ UNCHANGED <<pc, op, cand, session, lock, store>>

Poll(t) ==
  /\ pc[t] = "polling"
  /\ polls[t] < Budget(t)
  /\ \/ TryLock(t)
     \/ /\ flock # Nobody
        /\ polls' = [polls EXCEPT ![t] = @ + 1]
        /\ UNCHANGED <<pc, op, cand, session, lock, store>>

\* DatabaseLocked after the last poll, a lock file that cannot be opened, or
\* the future dropped at the sleep: the file closes and the permit follows.
GiveUp(t) ==
  /\ \/ pc[t] = "opening"
     \/ pc[t] = "polling"
  /\ Goto(t, "releasing")
  /\ UNCHANGED <<call, session, lock, store>>

\* Faulty: one poll too many is awaited before the timeout fires.
LockTimeoutOffByOne(t) ==
  /\ pc[t] = "polling"
  /\ polls[t] > Budget(t)
  /\ GiveUp(t)

LockTimeout(t) ==
  /\ pc[t] = "polling"
  /\ polls[t] >= Budget(t)
  /\ GiveUp(t)

\* Faulty: the permit is given back as soon as the file lock is held.
MarkReleasingPermit(t) ==
  /\ pc[t] = "marking"
  /\ held' = [held EXCEPT ![ProcOf[t]] = TRUE]
  /\ guard' = [guard EXCEPT ![t] = "real"]
  /\ permit' = [permit EXCEPT ![ProcOf[t]] = Nobody]
  /\ Goto(t, "locked")
  /\ UNCHANGED <<call, ahead, stopping, flock, store>>

\* locked_guard: the marker goes up only once the flock is held.
Mark(t) ==
  /\ pc[t] = "marking"
  /\ held' = [held EXCEPT ![ProcOf[t]] = TRUE]
  /\ guard' = [guard EXCEPT ![t] = "real"]
  /\ Goto(t, "locked")
  /\ UNCHANGED <<call, session, flock, store>>

\* Drop of the guard: the file is unlocked, then the marker is cleared.
Unlock(t) ==
  /\ pc[t] = "dropping"
  /\ guard' = [guard EXCEPT ![t] = "none"]
  /\ IF guard[t] = "real"
       THEN flock' = Nobody /\ Goto(t, "unlocked")
       ELSE UNCHANGED flock /\ Goto(t, "releasing")
  /\ UNCHANGED <<call, session, held, store>>

\* Faulty: the guard's drop forgets the marker.
ClearHeldForgotten(t) ==
  /\ pc[t] = "unlocked"
  /\ Goto(t, "releasing")
  /\ UNCHANGED <<call, session, lock, store>>

ClearHeld(t) ==
  /\ pc[t] = "unlocked"
  /\ held' = [held EXCEPT ![ProcOf[t]] = FALSE]
  /\ Goto(t, "releasing")
  /\ UNCHANGED <<call, session, guard, flock, store>>

-----------------------------------------------------------------------------
(* The span: allocate, BEGIN IMMEDIATE, commit or roll back.               *)

\* Faulty: the counter is advanced once when read and once when used.
AllocateTwice(t) ==
  /\ pc[t] = "locked"
  /\ op[t] = "mutate"
  /\ cand' = [cand EXCEPT ![t] = children + 2]
  /\ Goto(t, "probed")
  /\ UNCHANGED <<op, polls, session, lock, store>>

\* next_child_number, read on the read connection before the transaction.
Allocate(t) ==
  /\ pc[t] = "locked"
  /\ op[t] = "mutate"
  /\ cand' = [cand EXCEPT ![t] = children + 1]
  /\ Goto(t, "probed")
  /\ UNCHANGED <<op, polls, session, lock, store>>

Begin(t) ==
  /\ pc[t] = IF op[t] = "mutate" THEN "probed" ELSE "locked"
  /\ dbWriter = Nobody
  /\ dbWriter' = t
  /\ Goto(t, "inTx")
  /\ UNCHANGED <<call, session, lock, children>>

EndTx(t) ==
  /\ pc[t] = "inTx"
  /\ dbWriter' = Nobody
  /\ Goto(t, "dropping")

\* The insert finds its id taken (IdCollision) unless the number is still free.
Commit(t) ==
  /\ EndTx(t)
  /\ IF op[t] = "mutate"
       THEN cand[t] > children /\ children' = cand[t]
       ELSE UNCHANGED children
  /\ UNCHANGED <<call, session, lock>>

Rollback(t) ==
  /\ EndTx(t)
  /\ UNCHANGED <<call, session, lock, children>>

\* Config gate, allocation error, busy database or cancellation: both guards
\* are dropped before any transaction.
Abort(t) ==
  /\ pc[t] \in {"locked", "probed"}
  /\ Goto(t, "dropping")
  /\ UNCHANGED <<call, session, lock, store>>

-----------------------------------------------------------------------------
\* Steps the runtime owes an actor that is ready to run.
Advance(t) ==
  \/ Park(t) \/ Admit(t) \/ LoadHeld(t) \/ FastTry(t) \/ Poll(t)
  \/ LockTimeout(t) \/ Mark(t) \/ Allocate(t) \/ Begin(t)
  \/ Commit(t) \/ Rollback(t) \/ Unlock(t) \/ ClearHeld(t) \/ ReleasePermit(t)

Serve(p) ==
  \/ OpenLock(p) \/ OpenRefused(p) \/ OpenMigrate(p) \/ OpenDone(p)
  \/ Park(p) \/ Admit(p) \/ DrainReturn(p)

\* Steps the environment may or may not take.
Disturb(t) ==
  \/ \E k \in {"mutate", "migrate"} : StartCall(t, k)
  \/ CancelQueued(t) \/ GiveUp(t) \/ Abort(t)

Control(p) == Spawn(p) \/ Signal(p) \/ Shutdown(p) \/ Crash(p)

Next ==
  \/ \E t \in Task : Advance(t) \/ Disturb(t)
  \/ \E p \in Proc : Serve(p) \/ Control(p)

Spec == Init /\ [][Next]_vars

FairSpec ==
  /\ Spec
  /\ \A t \in Task : WF_vars(Advance(t))
  /\ \A p \in Proc : WF_vars(Serve(p))

-----------------------------------------------------------------------------
(* Properties.                                                             *)

\* An actor is in its write span: guard in hand, not yet dropped.
InSpan(a) == pc[a] \in {"locked", "probed", "inTx", "fencing", "migrating"}

\* At most one actor of all processes is between its lock and its unlock
\* (D31: writes of two processes never interleave), whatever guard it holds.
SingleWriter ==
  \A a, b \in Actor : InSpan(a) /\ InSpan(b) => a = b

\* The number a mutation allocated is still the next one when it inserts:
\* IdCollision cannot come from a writer that takes the lock.
FreshCandidate ==
  \A t \in Task : op[t] = "mutate" /\ pc[t] \in {"probed", "inTx"}
                    => cand[t] = children + 1

\* The held marker never outlives the flock by more than the drop that is
\* clearing it, and it is up on behalf of the task that owns the permit: no
\* other call of the process can load it and skip the file lock.
HeldMarkerTruthful ==
  \A p \in Proc : held[p] =>
    \E t \in Task : /\ ProcOf[t] = p
                    /\ permit[p] = t
                    /\ flock = t \/ pc[t] = "unlocked"

\* While shutdown holds the drained permit, no call of the Session is past
\* the semaphore: none waits for the file lock, none is in a transaction.
DrainExcludesWriters ==
  \A p \in Proc : pc[p] = "permitted" =>
    \A t \in Task : ProcOf[t] = p => pc[t] \in {"idle", "checked", "queued"}

\* The doc of Session::shutdown: a returned Ok(()) witnesses that no write is
\* mid-transaction.
ShutdownWitness ==
  \A p \in Proc : pc[p] = "drained" =>
    \A t \in Task : ProcOf[t] = p => pc[t] # "inTx"

\* Every call returns: the semaphore queue moves and the lock poll is bounded.
CallsReturn == \A t \in Task : pc[t] # "idle" ~> pc[t] = "idle"

\* A shutdown that has begun drains (or the process dies first), however many
\* calls are parked in front of it.
ShutdownDrains ==
  \A p \in Proc : pc[p] = "flagged" ~> pc[p] \in {"drained", "down"}

\* The serial store this protocol promises: one owner at a time, and each
\* commit adds the next child on behalf of the owner.
Serial == INSTANCE SerialStore WITH owner <- flock

SerialSpec == Serial!Spec
=============================================================================
