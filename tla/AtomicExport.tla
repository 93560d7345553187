---------------------------- MODULE AtomicExport ----------------------------
(***************************************************************************)
(* Exports of the store to one file.  An export takes no lock: it writes a  *)
(* temporary file beside the target, syncs it, renames it over the target  *)
(* and syncs the directory.  Exports of one process and of several run at  *)
(* once; steps fail, processes die, and the machine loses power, after     *)
(* which only what reached the disk is left.                               *)
(***************************************************************************)
EXTENDS Naturals, Sequences

CONSTANTS
  Export,  \* calls; bound: each runs once, and stands for the file it creates
  Proc,    \* process ids; a restarted process may get its old one
  ProcOf,  \* the process a call runs in
  Temp,    \* names of temporary files
  Tries,   \* Tries[p]: the names a process tries in turn, from its pid
  Target,  \* the name of the exported file
  NoFile   \* a name that does not exist, or a call without a name

ASSUME ExportAssumption ==
  /\ ProcOf \in [Export -> Proc]
  /\ Tries \in [Proc -> Seq(Temp)]
  /\ \A p \in Proc : Tries[p] # <<>>
  /\ Target \notin Temp
  /\ NoFile \notin Export \cup Temp

Name == Temp \cup {Target}

VARIABLES
  pc,       \* where each call is
  attempt,  \* which name a call tries next
  name,     \* the name a call's TempFileGuard removes
  dir,      \* the directory: the file each name denotes
  disk,     \* the directory as it would be after a power loss
  body,     \* whether a file holds all the lines
  flushed,  \* the files whose content is on the disk
  faults,   \* history: "sync" (a directory sync failed), "power"
  since     \* history: the files that were the target from this one on

files == <<dir, disk>>
data  == <<body, flushed>>
vars  == <<pc, attempt, name, files, data, faults, since>>

\* Between the creation of the temporary file and the rename.
Writing == {"created", "written", "synced"}
Running == {"naming", "renamed", "failing"} \cup Writing
Ended == {"idle", "ok", "error"}

TypeOK ==
  /\ pc \in [Export -> Running \cup Ended \cup {"dead"}]
  /\ attempt \in [Export -> Nat]
  /\ \A e \in Export : attempt[e] \in 1..Len(Tries[ProcOf[e]])
  /\ name \in [Export -> Temp \cup {NoFile}]
  /\ \A e \in Export : pc[e] \in Writing \cup {"renamed", "failing"}
                         => name[e] \in Temp
  /\ dir \in [Name -> Export \cup {NoFile}]
  /\ disk \in [Name -> Export \cup {NoFile}]
  /\ body \in [Export -> {"partial", "whole"}]
  /\ flushed \subseteq Export
  /\ faults \subseteq {"sync", "power"}
  /\ since \in [Export -> SUBSET Export]

Init ==
  /\ pc = [e \in Export |-> "idle"]
  /\ attempt = [e \in Export |-> 1]
  /\ name = [e \in Export |-> NoFile]
  /\ dir = [n \in Name |-> NoFile]
  /\ disk = [n \in Name |-> NoFile]
  /\ body = [e \in Export |-> "partial"]
  /\ flushed = {}
  /\ faults = {}
  /\ since = [e \in Export |-> {}]

Goto(e, from, to) == pc[e] = from /\ pc' = [pc EXCEPT ![e] = to]

-----------------------------------------------------------------------------
\* The path is confined and the corpus read; a blocking task does the rest,
\* and runs on if the caller is cancelled.
Begin(e) ==
  /\ Goto(e, "idle", "naming")
  /\ UNCHANGED <<attempt, name, files, data, faults, since>>

\* The name that is tried next.
Candidate(e) == Tries[ProcOf[e]][attempt[e]]

Create(e) ==
  /\ Goto(e, "naming", "created")
  /\ name' = [name EXCEPT ![e] = Candidate(e)]
  /\ dir' = [dir EXCEPT ![Candidate(e)] = e]
  /\ UNCHANGED <<attempt, disk, data, faults, since>>

\* Faulty: a file left under the name is truncated and used.
TakeNameTruncating(e) == Create(e)

\* create_new succeeds only if the name is free.
TakeName(e) == dir[Candidate(e)] = NoFile /\ Create(e)

\* Faulty: the number of attempts is not bounded.
NextNameUnbounded(e) ==
  /\ Goto(e, "naming", "naming")
  /\ dir[Candidate(e)] # NoFile
  /\ attempt' = [attempt EXCEPT ![e] = @ + 1]
  /\ UNCHANGED <<name, files, data, faults, since>>

NextName(e) ==
  /\ Goto(e, "naming", "naming")
  /\ dir[Candidate(e)] # NoFile
  /\ attempt[e] < Len(Tries[ProcOf[e]])
  /\ attempt' = [attempt EXCEPT ![e] = @ + 1]
  /\ UNCHANGED <<name, files, data, faults, since>>

\* Every name is taken, or the file cannot be created: there is no guard yet.
NoName(e) ==
  /\ Goto(e, "naming", "error")
  /\ UNCHANGED <<attempt, name, files, data, faults, since>>

Write(e) ==
  /\ Goto(e, "created", "written")
  /\ body' = [body EXCEPT ![e] = "whole"]
  /\ UNCHANGED <<attempt, name, files, flushed, faults, since>>

\* Faulty: the file is not synced before it is renamed.
FlushOmitted(e) ==
  /\ Goto(e, "written", "synced")
  /\ UNCHANGED <<attempt, name, files, data, faults, since>>

Flush(e) ==
  /\ Goto(e, "written", "synced")
  /\ flushed' = flushed \cup {e}
  /\ UNCHANGED <<attempt, name, files, body, faults, since>>

\* The rename goes by name: it moves whatever file has the name by now.
Rename(e) ==
  LET f == dir[name[e]] IN
  /\ Goto(e, "synced", "renamed")
  /\ f # NoFile
  /\ dir' = [dir EXCEPT ![Target] = f, ![name[e]] = NoFile]
  /\ since' = [g \in Export |-> IF g = f THEN {f}
                                ELSE IF since[g] = {} THEN {}
                                ELSE since[g] \cup {f}]
  /\ UNCHANGED <<attempt, name, disk, data, faults>>

\* Faulty: the call returns without a sync of the directory.
SyncDirectoryOmitted(e) ==
  /\ Goto(e, "renamed", "ok")
  /\ UNCHANGED <<attempt, name, files, data, faults, since>>

\* The directory is synced, the guard is told to keep its hands off.
SyncDirectory(e) ==
  /\ Goto(e, "renamed", "ok")
  /\ disk' = dir
  /\ UNCHANGED <<attempt, name, dir, data, faults, since>>

-----------------------------------------------------------------------------
(* Failures.                                                               *)

\* Writing, flushing, syncing, a check or the rename fails.
Fail(e) ==
  /\ \E s \in Writing : Goto(e, s, "failing")
  /\ UNCHANGED <<attempt, name, files, data, faults, since>>

\* The directory cannot be opened (no descriptors left) or synced.
SyncFails(e) ==
  /\ Goto(e, "renamed", "failing")
  /\ faults' = faults \cup {"sync"}
  /\ UNCHANGED <<attempt, name, files, data, since>>

\* Faulty: a guard that never removes.
DropGuardKeeping(e) ==
  /\ Goto(e, "failing", "error")
  /\ UNCHANGED <<attempt, name, files, data, faults, since>>

\* The guard removes whatever file has the name by now.
DropGuard(e) ==
  /\ Goto(e, "failing", "error")
  /\ dir' = [dir EXCEPT ![name[e]] = NoFile]
  /\ UNCHANGED <<attempt, name, disk, data, faults, since>>

\* The process dies; the directory is the kernel's and stays.
Crash(p) ==
  /\ \E e \in Export : ProcOf[e] = p /\ pc[e] \in Running
  /\ pc' = [e \in Export |-> IF ProcOf[e] = p /\ pc[e] \in Running
                               THEN "dead" ELSE pc[e]]
  /\ UNCHANGED <<attempt, name, files, data, faults, since>>

\* The kernel writes a directory entry back, in any order.
Writeback(n) ==
  /\ disk' = [disk EXCEPT ![n] = dir[n]]
  /\ UNCHANGED <<pc, attempt, name, dir, data, faults, since>>

\* What was not synced is whole or not, as luck has it; it is on the disk then.
PowerLoss(torn) ==
  /\ pc' = [e \in Export |-> IF pc[e] \in Running THEN "dead" ELSE pc[e]]
  /\ dir' = disk
  /\ body' = [e \in Export |-> IF e \in torn THEN "partial" ELSE body[e]]
  /\ flushed' = flushed \cup {e \in Export : pc[e] # "idle"}
  /\ faults' = faults \cup {"power"}
  /\ UNCHANGED <<attempt, name, disk, since>>

-----------------------------------------------------------------------------
Step(e) ==
  \/ Begin(e) \/ TakeName(e) \/ NextName(e) \/ NoName(e) \/ Write(e)
  \/ Flush(e) \/ Rename(e) \/ SyncDirectory(e)
  \/ Fail(e) \/ SyncFails(e) \/ DropGuard(e)

Next ==
  \/ \E e \in Export : Step(e)
  \/ \E p \in Proc : Crash(p)
  \/ \E n \in Name : Writeback(n)
  \/ \E torn \in SUBSET (Export \ flushed) : PowerLoss(torn)

Spec == Init /\ [][Next]_vars

-----------------------------------------------------------------------------
(* Properties.                                                             *)

IsWhole(f) == f = NoFile \/ body[f] = "whole"

\* Whatever is interrupted, and across power losses, the exported file is the
\* whole output of one export, as long as no directory sync has failed.
TargetWhole == "sync" \notin faults => IsWhole(dir[Target])

\* What a call that returned Ok wrote is not lost to a power loss: the target,
\* seen now or after one, is its file or one that replaced it later.  So an
\* export that begins after another has returned is never undone by it.
AckedDurable ==
  "sync" \notin faults =>
    \A e \in Export : pc[e] = "ok" => {dir[Target], disk[Target]} \subseteq since[e]

\* A temporary file belongs to the call that created it until it is renamed or
\* removed: concurrent exports, of one process too, do not meet in one file.
OwnTemp ==
  "sync" \notin faults =>
    \A e \in Export : pc[e] \in Writing => dir[name[e]] = e

\* Failed exports leave nothing behind: only a crash or a power loss does.
TempsCleared ==
  "power" \notin faults /\ (\A e \in Export : pc[e] \in Ended)
    => \A n \in Temp : dir[n] = NoFile

\* The documentation of write_atomic: the file is written atomically.
AlwaysWhole == IsWhole(dir[Target])
=============================================================================
