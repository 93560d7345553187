------------------------- MODULE AtomicExportProof -------------------------
(***************************************************************************)
(* For any calls, processes and names: the target is always whole, what is  *)
(* acknowledged is durable, and temporary files are owned and cleared; the  *)
(* whole is an atomic, durable replacement of one file (DurableFile).       *)
(***************************************************************************)
EXTENDS AtomicExport, TLAPS

\* A temporary file is held by the call that created it, unless a power loss
\* has brought it back: somebody is left who removes or has lost it.
Held ==
  "power" \notin faults =>
    \A n \in Temp : dir[n] # NoFile =>
      name[dir[n]] = n /\ pc[dir[n]] \in Writing \cup {"failing", "dead"}

\* A guard that is about to remove removes its own file.
OwnUntilRemoved ==
  "sync" \notin faults =>
    \A e \in Export : pc[e] \in Writing \cup {"failing"} => dir[name[e]] = e

\* The data is whole before it is synced and synced before it is renamed.
InOrder ==
  \A e \in Export :
    /\ pc[e] \in {"written", "synced"} => body[e] = "whole"
    /\ pc[e] = "synced" => e \in flushed

\* The target is safe to lose power over, as is what would be there then.
Safe(f) == f = NoFile \/ (body[f] = "whole" /\ f \in flushed)
TargetSafe == "sync" \notin faults => Safe(dir[Target]) /\ Safe(disk[Target])

\* From its rename on, the target is a call's file or a later one.
Since ==
  "sync" \notin faults =>
    \A e \in Export :
      /\ pc[e] = "renamed" => dir[Target] \in since[e]
      /\ pc[e] = "ok" => dir[Target] \in since[e] /\ disk[Target] \in since[e]

IInv == TypeOK /\ Held /\ OwnUntilRemoved /\ InOrder /\ TargetSafe /\ Since

USE DEF Name, Writing, Running, Ended, files, data

LEMMA InitInv == Init => IInv
  BY ExportAssumption
  DEF Init, IInv, TypeOK, Held, OwnUntilRemoved, InOrder, TargetSafe, Safe, Since

\* The name a call tries is one of the temporary names.
LEMMA CandidateTemp ==
  ASSUME TypeOK, NEW e \in Export
  PROVE  Candidate(e) \in Temp
<1>1. Tries[ProcOf[e]] \in Seq(Temp)  BY ExportAssumption
<1>2. attempt[e] \in 1..Len(Tries[ProcOf[e]])  BY DEF TypeOK
<1> QED BY <1>1, <1>2 DEF Candidate

\* Type correctness: one step per action.
LEMMA TypeStep == TypeOK /\ [Next]_vars => TypeOK'
<1> SUFFICES ASSUME TypeOK, [Next]_vars PROVE TypeOK'
  OBVIOUS
<1> USE ExportAssumption
<1>1. ASSUME NEW e \in Export, Begin(e) PROVE TypeOK'
  BY <1>1 DEF TypeOK, Begin, Goto
<1>2. ASSUME NEW e \in Export, TakeName(e) PROVE TypeOK'
  BY <1>2, CandidateTemp DEF TypeOK, TakeName, Create, Goto
<1>3. ASSUME NEW e \in Export, NextName(e) PROVE TypeOK'
  BY <1>3 DEF TypeOK, NextName, Goto
<1>4. ASSUME NEW e \in Export, NoName(e) PROVE TypeOK'
  BY <1>4 DEF TypeOK, NoName, Goto
<1>5. ASSUME NEW e \in Export, Write(e) PROVE TypeOK'
  BY <1>5 DEF TypeOK, Write, Goto
<1>6. ASSUME NEW e \in Export, Flush(e) PROVE TypeOK'
  BY <1>6 DEF TypeOK, Flush, Goto
<1>7. ASSUME NEW e \in Export, Rename(e) PROVE TypeOK'
  <2>1. name[e] \in Temp /\ dir[name[e]] \in Export
    BY <1>7 DEF TypeOK, Rename, Goto
  <2>2. dir' \in [Name -> Export \cup {NoFile}]
    BY <1>7, <2>1 DEF TypeOK, Rename
  <2>3. since' \in [Export -> SUBSET Export]
    BY <1>7, <2>1 DEF TypeOK, Rename
  <2>4. pc' = [pc EXCEPT ![e] = "renamed"] /\ pc[e] = "synced"
    BY <1>7 DEF Rename, Goto
  <2> QED BY <1>7, <2>2, <2>3, <2>4 DEF TypeOK, Rename
<1>8. ASSUME NEW e \in Export, SyncDirectory(e) PROVE TypeOK'
  BY <1>8 DEF TypeOK, SyncDirectory, Goto
<1>9. ASSUME NEW e \in Export, Fail(e) PROVE TypeOK'
  BY <1>9 DEF TypeOK, Fail, Goto
<1>10. ASSUME NEW e \in Export, SyncFails(e) PROVE TypeOK'
  BY <1>10 DEF TypeOK, SyncFails, Goto
<1>11. ASSUME NEW e \in Export, DropGuard(e) PROVE TypeOK'
  BY <1>11 DEF TypeOK, DropGuard, Goto
<1>12. ASSUME NEW p \in Proc, Crash(p) PROVE TypeOK'
  BY <1>12 DEF TypeOK, Crash
<1>13. ASSUME NEW n \in Name, Writeback(n) PROVE TypeOK'
  BY <1>13 DEF TypeOK, Writeback
<1>14. ASSUME NEW torn \in SUBSET (Export \ flushed), PowerLoss(torn)
       PROVE  TypeOK'
  BY <1>14 DEF TypeOK, PowerLoss
<1>15. CASE UNCHANGED vars
  BY <1>15 DEF TypeOK, vars
<1> QED
  BY <1>1, <1>2, <1>3, <1>4, <1>5, <1>6, <1>7, <1>8, <1>9, <1>10, <1>11,
     <1>12, <1>13, <1>14, <1>15
  DEF Next, Step

\* Only the steps of the call itself, and a power loss, touch its data.
LEMMA InOrderStep == TypeOK /\ InOrder /\ [Next]_vars => InOrder'
<1> SUFFICES ASSUME TypeOK, InOrder, [Next]_vars PROVE InOrder'
  OBVIOUS
<1> USE ExportAssumption DEF TypeOK, InOrder
<1>1. ASSUME NEW e \in Export, Begin(e) PROVE InOrder'
  BY <1>1 DEF Begin, Goto
<1>2. ASSUME NEW e \in Export, TakeName(e) PROVE InOrder'
  BY <1>2, CandidateTemp DEF TakeName, Create, Goto
<1>3. ASSUME NEW e \in Export, NextName(e) PROVE InOrder'
  BY <1>3 DEF NextName, Goto
<1>4. ASSUME NEW e \in Export, NoName(e) PROVE InOrder'
  BY <1>4 DEF NoName, Goto
<1>5. ASSUME NEW e \in Export, Write(e) PROVE InOrder'
  BY <1>5 DEF Write, Goto
<1>6. ASSUME NEW e \in Export, Flush(e) PROVE InOrder'
  BY <1>6 DEF Flush, Goto
<1>7. ASSUME NEW e \in Export, Rename(e) PROVE InOrder'
  BY <1>7 DEF Rename, Goto
<1>8. ASSUME NEW e \in Export, SyncDirectory(e) PROVE InOrder'
  BY <1>8 DEF SyncDirectory, Goto
<1>9. ASSUME NEW e \in Export, Fail(e) PROVE InOrder'
  BY <1>9 DEF Fail, Goto
<1>10. ASSUME NEW e \in Export, SyncFails(e) PROVE InOrder'
  BY <1>10 DEF SyncFails, Goto
<1>11. ASSUME NEW e \in Export, DropGuard(e) PROVE InOrder'
  BY <1>11 DEF DropGuard, Goto
<1>12. ASSUME NEW p \in Proc, Crash(p) PROVE InOrder'
  BY <1>12 DEF Crash
<1>13. ASSUME NEW n \in Name, Writeback(n) PROVE InOrder'
  BY <1>13 DEF Writeback
<1>14. ASSUME NEW torn \in SUBSET (Export \ flushed), PowerLoss(torn)
       PROVE  InOrder'
  BY <1>14 DEF PowerLoss
<1>15. CASE UNCHANGED vars
  BY <1>15 DEF vars
<1> QED
  BY <1>1, <1>2, <1>3, <1>4, <1>5, <1>6, <1>7, <1>8, <1>9, <1>10, <1>11,
     <1>12, <1>13, <1>14, <1>15
  DEF Next, Step

\* A name is given up by a rename or a removal, which both empty it.
LEMMA HeldStep == TypeOK /\ Held /\ [Next]_vars => Held'
<1> SUFFICES ASSUME TypeOK, Held, [Next]_vars PROVE Held'
  OBVIOUS
<1> USE ExportAssumption DEF TypeOK, Held
<1>1. ASSUME NEW e \in Export, Begin(e) PROVE Held'
  BY <1>1 DEF Begin, Goto
<1>2. ASSUME NEW e \in Export, TakeName(e) PROVE Held'
  BY <1>2, CandidateTemp DEF TakeName, Create, Goto
<1>3. ASSUME NEW e \in Export, NextName(e) PROVE Held'
  BY <1>3 DEF NextName, Goto
<1>4. ASSUME NEW e \in Export, NoName(e) PROVE Held'
  BY <1>4 DEF NoName, Goto
<1>5. ASSUME NEW e \in Export, Write(e) PROVE Held'
  BY <1>5 DEF Write, Goto
<1>6. ASSUME NEW e \in Export, Flush(e) PROVE Held'
  BY <1>6 DEF Flush, Goto
<1>7. ASSUME NEW e \in Export, Rename(e) PROVE Held'
  <2>1. name[e] \in Temp /\ name[e] # Target  BY <1>7 DEF Rename, Goto
  <2>2. SUFFICES ASSUME "power" \notin faults, NEW n \in Temp, dir'[n] # NoFile
                 PROVE  /\ name[dir'[n]] = n
                        /\ pc'[dir'[n]] \in Writing \cup {"failing", "dead"}
    BY <1>7 DEF Rename
  <2>3. n # name[e] /\ dir'[n] = dir[n] /\ dir[n] \in Export
    BY <1>7, <2>1, <2>2 DEF Rename
  <2>4. name[dir[n]] = n /\ pc[dir[n]] \in Writing \cup {"failing", "dead"}
    BY <1>7, <2>2, <2>3 DEF Rename
  <2>5. dir[n] # e  BY <2>3, <2>4
  <2> QED BY <1>7, <2>3, <2>4, <2>5 DEF Rename, Goto
<1>8. ASSUME NEW e \in Export, SyncDirectory(e) PROVE Held'
  BY <1>8 DEF SyncDirectory, Goto
<1>9. ASSUME NEW e \in Export, Fail(e) PROVE Held'
  BY <1>9 DEF Fail, Goto
<1>10. ASSUME NEW e \in Export, SyncFails(e) PROVE Held'
  BY <1>10 DEF SyncFails, Goto
<1>11. ASSUME NEW e \in Export, DropGuard(e) PROVE Held'
  BY <1>11 DEF DropGuard, Goto
<1>12. ASSUME NEW p \in Proc, Crash(p) PROVE Held'
  BY <1>12 DEF Crash
<1>13. ASSUME NEW n \in Name, Writeback(n) PROVE Held'
  BY <1>13 DEF Writeback
<1>14. ASSUME NEW torn \in SUBSET (Export \ flushed), PowerLoss(torn)
       PROVE  Held'
  BY <1>14 DEF PowerLoss
<1>15. CASE UNCHANGED vars
  BY <1>15 DEF vars
<1> QED
  BY <1>1, <1>2, <1>3, <1>4, <1>5, <1>6, <1>7, <1>8, <1>9, <1>10, <1>11,
     <1>12, <1>13, <1>14, <1>15
  DEF Next, Step

\* create_new gives a call a name that no other call has.
LEMMA OwnUntilRemovedStep == TypeOK /\ OwnUntilRemoved /\ [Next]_vars => OwnUntilRemoved'
<1> SUFFICES ASSUME TypeOK, OwnUntilRemoved, [Next]_vars PROVE OwnUntilRemoved'
  OBVIOUS
<1> USE ExportAssumption DEF TypeOK, OwnUntilRemoved
<1>1. ASSUME NEW e \in Export, Begin(e) PROVE OwnUntilRemoved'
  BY <1>1 DEF Begin, Goto
<1>2. ASSUME NEW e \in Export, TakeName(e) PROVE OwnUntilRemoved'
  BY <1>2, CandidateTemp DEF TakeName, Create, Goto
<1>3. ASSUME NEW e \in Export, NextName(e) PROVE OwnUntilRemoved'
  BY <1>3 DEF NextName, Goto
<1>4. ASSUME NEW e \in Export, NoName(e) PROVE OwnUntilRemoved'
  BY <1>4 DEF NoName, Goto
<1>5. ASSUME NEW e \in Export, Write(e) PROVE OwnUntilRemoved'
  BY <1>5 DEF Write, Goto
<1>6. ASSUME NEW e \in Export, Flush(e) PROVE OwnUntilRemoved'
  BY <1>6 DEF Flush, Goto
<1>7. ASSUME NEW e \in Export, Rename(e) PROVE OwnUntilRemoved'
  BY <1>7 DEF Rename, Goto
<1>8. ASSUME NEW e \in Export, SyncDirectory(e) PROVE OwnUntilRemoved'
  BY <1>8 DEF SyncDirectory, Goto
<1>9. ASSUME NEW e \in Export, Fail(e) PROVE OwnUntilRemoved'
  BY <1>9 DEF Fail, Goto
<1>10. ASSUME NEW e \in Export, SyncFails(e) PROVE OwnUntilRemoved'
  BY <1>10 DEF SyncFails, Goto
<1>11. ASSUME NEW e \in Export, DropGuard(e) PROVE OwnUntilRemoved'
  BY <1>11 DEF DropGuard, Goto
<1>12. ASSUME NEW p \in Proc, Crash(p) PROVE OwnUntilRemoved'
  BY <1>12 DEF Crash
<1>13. ASSUME NEW n \in Name, Writeback(n) PROVE OwnUntilRemoved'
  BY <1>13 DEF Writeback
<1>14. ASSUME NEW torn \in SUBSET (Export \ flushed), PowerLoss(torn)
       PROVE  OwnUntilRemoved'
  BY <1>14 DEF PowerLoss
<1>15. CASE UNCHANGED vars
  BY <1>15 DEF vars
<1> QED
  BY <1>1, <1>2, <1>3, <1>4, <1>5, <1>6, <1>7, <1>8, <1>9, <1>10, <1>11,
     <1>12, <1>13, <1>14, <1>15
  DEF Next, Step

\* What is renamed over the target is the call's own file, whole and synced.
LEMMA TargetSafeStep == TypeOK /\ OwnUntilRemoved /\ InOrder /\ TargetSafe /\ [Next]_vars => TargetSafe'
<1> SUFFICES ASSUME TypeOK, OwnUntilRemoved, InOrder, TargetSafe, [Next]_vars PROVE TargetSafe'
  OBVIOUS
<1> USE ExportAssumption DEF TypeOK, OwnUntilRemoved, InOrder, TargetSafe
<1>1. ASSUME NEW e \in Export, Begin(e) PROVE TargetSafe'
  BY <1>1 DEF Begin, Goto, Safe
<1>2. ASSUME NEW e \in Export, TakeName(e) PROVE TargetSafe'
  BY <1>2, CandidateTemp DEF TakeName, Create, Goto, Safe
<1>3. ASSUME NEW e \in Export, NextName(e) PROVE TargetSafe'
  BY <1>3 DEF NextName, Goto, Safe
<1>4. ASSUME NEW e \in Export, NoName(e) PROVE TargetSafe'
  BY <1>4 DEF NoName, Goto, Safe
<1>5. ASSUME NEW e \in Export, Write(e) PROVE TargetSafe'
  BY <1>5 DEF Write, Goto, Safe
<1>6. ASSUME NEW e \in Export, Flush(e) PROVE TargetSafe'
  BY <1>6 DEF Flush, Goto, Safe
<1>7. ASSUME NEW e \in Export, Rename(e) PROVE TargetSafe'
  BY <1>7 DEF Rename, Goto, Safe
<1>8. ASSUME NEW e \in Export, SyncDirectory(e) PROVE TargetSafe'
  BY <1>8 DEF SyncDirectory, Goto, Safe
<1>9. ASSUME NEW e \in Export, Fail(e) PROVE TargetSafe'
  BY <1>9 DEF Fail, Goto, Safe
<1>10. ASSUME NEW e \in Export, SyncFails(e) PROVE TargetSafe'
  BY <1>10 DEF SyncFails, Goto, Safe
<1>11. ASSUME NEW e \in Export, DropGuard(e) PROVE TargetSafe'
  BY <1>11 DEF DropGuard, Goto, Safe
<1>12. ASSUME NEW p \in Proc, Crash(p) PROVE TargetSafe'
  BY <1>12 DEF Crash, Safe
<1>13. ASSUME NEW n \in Name, Writeback(n) PROVE TargetSafe'
  BY <1>13 DEF Writeback, Safe
<1>14. ASSUME NEW torn \in SUBSET (Export \ flushed), PowerLoss(torn)
       PROVE  TargetSafe'
  BY <1>14 DEF PowerLoss, Safe
<1>15. CASE UNCHANGED vars
  BY <1>15 DEF vars, Safe
<1> QED
  BY <1>1, <1>2, <1>3, <1>4, <1>5, <1>6, <1>7, <1>8, <1>9, <1>10, <1>11,
     <1>12, <1>13, <1>14, <1>15
  DEF Next, Step

\* A later rename is added to every call that has replaced the target.
LEMMA SinceStep == TypeOK /\ OwnUntilRemoved /\ Since /\ [Next]_vars => Since'
<1> SUFFICES ASSUME TypeOK, OwnUntilRemoved, Since, [Next]_vars PROVE Since'
  OBVIOUS
<1> USE ExportAssumption DEF TypeOK, OwnUntilRemoved, Since
<1>1. ASSUME NEW e \in Export, Begin(e) PROVE Since'
  BY <1>1 DEF Begin, Goto
<1>2. ASSUME NEW e \in Export, TakeName(e) PROVE Since'
  BY <1>2, CandidateTemp DEF TakeName, Create, Goto
<1>3. ASSUME NEW e \in Export, NextName(e) PROVE Since'
  BY <1>3 DEF NextName, Goto
<1>4. ASSUME NEW e \in Export, NoName(e) PROVE Since'
  BY <1>4 DEF NoName, Goto
<1>5. ASSUME NEW e \in Export, Write(e) PROVE Since'
  BY <1>5 DEF Write, Goto
<1>6. ASSUME NEW e \in Export, Flush(e) PROVE Since'
  BY <1>6 DEF Flush, Goto
<1>7. ASSUME NEW e \in Export, Rename(e) PROVE Since'
  BY <1>7 DEF Rename, Goto
<1>8. ASSUME NEW e \in Export, SyncDirectory(e) PROVE Since'
  BY <1>8 DEF SyncDirectory, Goto
<1>9. ASSUME NEW e \in Export, Fail(e) PROVE Since'
  BY <1>9 DEF Fail, Goto
<1>10. ASSUME NEW e \in Export, SyncFails(e) PROVE Since'
  BY <1>10 DEF SyncFails, Goto
<1>11. ASSUME NEW e \in Export, DropGuard(e) PROVE Since'
  BY <1>11 DEF DropGuard, Goto
<1>12. ASSUME NEW p \in Proc, Crash(p) PROVE Since'
  BY <1>12 DEF Crash
<1>13. ASSUME NEW n \in Name, Writeback(n) PROVE Since'
  BY <1>13 DEF Writeback
<1>14. ASSUME NEW torn \in SUBSET (Export \ flushed), PowerLoss(torn)
       PROVE  Since'
  BY <1>14 DEF PowerLoss
<1>15. CASE UNCHANGED vars
  BY <1>15 DEF vars
<1> QED
  BY <1>1, <1>2, <1>3, <1>4, <1>5, <1>6, <1>7, <1>8, <1>9, <1>10, <1>11,
     <1>12, <1>13, <1>14, <1>15
  DEF Next, Step

LEMMA InvStep == IInv /\ [Next]_vars => IInv'
  BY TypeStep, HeldStep, OwnUntilRemovedStep, InOrderStep, TargetSafeStep,
     SinceStep
  DEF IInv

THEOREM Invariance == Spec => []IInv
  BY InitInv, InvStep, PTL DEF Spec

\* Every reachable state is well typed.
THEOREM TypeCorrect == Spec => []TypeOK
<1>1. IInv => TypeOK  BY DEF IInv
<1> QED BY <1>1, Invariance, PTL

\* The exported file is never a part of an export, nor a mixture of two, as long
\* as directories can be synced: the order write, sync, rename of write_atomic.
THEOREM Wholeness == Spec => []TargetWhole
<1>1. IInv => TargetWhole
  BY DEF IInv, TargetSafe, Safe, TargetWhole, IsWhole
<1> QED BY <1>1, Invariance, PTL

\* An export that returned Ok survives a power loss: the directory sync before
\* the return.
THEOREM Durability == Spec => []AckedDurable
<1>1. IInv => AckedDurable  BY DEF IInv, Since, AckedDurable
<1> QED BY <1>1, Invariance, PTL

\* Two exports never write to one temporary file: create_new.
THEOREM Ownership == Spec => []OwnTemp
<1>1. IInv => OwnTemp  BY DEF IInv, OwnUntilRemoved, OwnTemp
<1> QED BY <1>1, Invariance, PTL

\* Without crashes no temporary file is left over: TempFileGuard.
THEOREM Clearing == Spec => []TempsCleared
<1>1. IInv => TempsCleared
  <2>1. SUFFICES ASSUME IInv, "power" \notin faults,
                        \A e \in Export : pc[e] \in Ended,
                        NEW n \in Temp, dir[n] # NoFile
                 PROVE  FALSE
    BY DEF TempsCleared
  <2>2. dir[n] \in Export  BY <2>1 DEF IInv, TypeOK
  <2>3. pc[dir[n]] \in Writing \cup {"failing", "dead"}
    BY <2>1 DEF IInv, Held
  <2> QED BY <2>1, <2>2, <2>3
<1> QED BY <1>1, Invariance, PTL

-----------------------------------------------------------------------------
(* Refinement: what a name denotes is a call's output, so much of it as the *)
(* file holds.                                                              *)

Shown(f) == IF f = NoFile THEN NoFile ELSE <<f, body[f]>>

Durable == INSTANCE DurableFile WITH
  Writer <- Export, None <- NoFile,
  now <- Shown(dir[Target]), kept <- Shown(disk[Target]),
  replaced <- {e \in Export : since[e] # {}},
  told <- {e \in Export : pc[e] = "ok"}

\* A call that has not renamed its file has not been the target.
Fresh ==
  "sync" \notin faults =>
    \A e \in Export : pc[e] \in {"idle", "naming"} \cup Writing => since[e] = {}

\* A step that neither renames nor tells Ok keeps what the two histories tell.
LEMMA QuietHistory ==
  ASSUME Fresh, since' = since, faults' = faults \/ "sync" \in faults',
         \A e \in Export : pc'[e] \in {"idle", "naming"} \cup Writing
                           => pc[e] \in {"idle", "naming"} \cup Writing
  PROVE  Fresh'
  BY DEF Fresh

LEMMA FreshStep == IInv /\ Fresh /\ [Next]_vars => Fresh'
<1> SUFFICES ASSUME IInv, Fresh, [Next]_vars PROVE Fresh'
  OBVIOUS
<1> USE ExportAssumption
<1>1. pc \in [Export -> Running \cup Ended \cup {"dead"}]
  BY DEF IInv, TypeOK
<1>2. ASSUME NEW e \in Export, Rename(e) PROVE Fresh'
  <2>1. pc' = [pc EXCEPT ![e] = "renamed"] /\ faults' = faults
    BY <1>2 DEF Rename, Goto
  <2>2. "sync" \notin faults => dir[name[e]] = e
    BY <1>2 DEF IInv, OwnUntilRemoved, Rename, Goto
  <2>3. SUFFICES ASSUME "sync" \notin faults, NEW g \in Export,
                        pc'[g] \in {"idle", "naming"} \cup Writing
                 PROVE  since'[g] = {}
    BY <2>1 DEF Fresh
  <2>4. g # e /\ since[g] = {}
    BY <1>1, <2>1, <2>3 DEF Fresh
  <2> QED BY <1>2, <2>2, <2>3, <2>4 DEF Rename
<1>3. ASSUME NEW e \in Export, Step(e), ~Rename(e) PROVE Fresh'
  <2>1. since' = since
    BY <1>3 DEF Step, Begin, TakeName, Create, NextName, NoName, Write, Flush,
                SyncDirectory, Fail, SyncFails, DropGuard
  <2>2. faults' = faults \/ "sync" \in faults'
    BY <1>3 DEF Step, Begin, TakeName, Create, NextName, NoName, Write, Flush,
                SyncDirectory, Fail, SyncFails, DropGuard
  <2>3. \A g \in Export : pc'[g] \in {"idle", "naming"} \cup Writing
                         => pc[g] \in {"idle", "naming"} \cup Writing
    BY <1>1, <1>3 DEF Step, Begin, TakeName, Create, NextName, NoName, Write, Flush,
                      SyncDirectory, Fail, SyncFails, DropGuard, Goto
  <2> QED BY <2>1, <2>2, <2>3, QuietHistory
<1>4. ASSUME NEW p \in Proc, Crash(p) PROVE Fresh'
  BY <1>1, <1>4 DEF Crash, Fresh
<1>5. ASSUME NEW n \in Name, Writeback(n) PROVE Fresh'
  BY <1>5, QuietHistory DEF Writeback
<1>6. ASSUME NEW torn \in SUBSET (Export \ flushed), PowerLoss(torn) PROVE Fresh'
  BY <1>1, <1>6 DEF PowerLoss, Fresh
<1>7. CASE UNCHANGED vars
  BY <1>7, QuietHistory DEF vars
<1> QED BY <1>2, <1>3, <1>4, <1>5, <1>6, <1>7 DEF Next

\* A step that leaves the target's names and the histories alone is a stutter.
LEMMA Stutter ==
  ASSUME IInv, "sync" \notin faults,
         dir'[Target] = dir[Target], disk'[Target] = disk[Target],
         \A f \in Export : body[f] = "whole" => body'[f] = "whole",
         since' = since, \A e \in Export : pc'[e] = "ok" <=> pc[e] = "ok"
  PROVE  UNCHANGED Durable!vars
<1>1. Safe(dir[Target]) /\ Safe(disk[Target])
  BY DEF IInv, TargetSafe
<1>2. dir[Target] \in Export \cup {NoFile} /\ disk[Target] \in Export \cup {NoFile}
  BY DEF IInv, TypeOK
<1>3. Shown(dir[Target])' = Shown(dir[Target]) /\ Shown(disk[Target])' = Shown(disk[Target])
  BY <1>1, <1>2 DEF Shown, Safe
<1> QED BY <1>3 DEF Durable!vars

LEMMA DurableStep ==
  ASSUME IInv, Fresh, [Next]_vars, "sync" \notin faults, "sync" \notin faults'
  PROVE  [Durable!Next]_(Durable!vars)
<1> USE ExportAssumption
<1>1. /\ pc \in [Export -> Running \cup Ended \cup {"dead"}]
      /\ dir \in [Name -> Export \cup {NoFile}] /\ disk \in [Name -> Export \cup {NoFile}]
      /\ body \in [Export -> {"partial", "whole"}] /\ since \in [Export -> SUBSET Export]
  BY DEF IInv, TypeOK
<1>2. ASSUME NEW e \in Export, Rename(e) PROVE Durable!Replace(e)
  <2>1. dir[name[e]] = e /\ body[e] = "whole" /\ name[e] # Target /\ since[e] = {}
    BY <1>2 DEF IInv, TypeOK, OwnUntilRemoved, InOrder, Fresh, Rename, Goto
  <2>2. dir'[Target] = e /\ UNCHANGED <<disk, body>>
    BY <1>1, <1>2, <2>1 DEF Rename
  <2>3. Shown(dir[Target])' = <<e, "whole">> /\ Shown(disk[Target])' = Shown(disk[Target])
    BY <2>1, <2>2 DEF Shown
  <2>4. {g \in Export : since[g] # {}}' = {g \in Export : since[g] # {}} \cup {e}
    BY <1>1, <1>2, <2>1 DEF Rename
  <2>5. \A g \in Export : pc'[g] = "ok" <=> pc[g] = "ok"
    BY <1>1, <1>2 DEF Rename, Goto
  <2> QED BY <2>1, <2>3, <2>4, <2>5 DEF Durable!Replace
<1>3. ASSUME NEW e \in Export, SyncDirectory(e) PROVE Durable!Tell(e)
  <2>1. pc[e] = "renamed" /\ pc' = [pc EXCEPT ![e] = "ok"] /\ disk' = dir
        /\ UNCHANGED <<dir, body, since>>
    BY <1>3 DEF SyncDirectory, Goto
  <2>2. since[e] # {}
    BY <2>1 DEF IInv, Since
  <2>3. {g \in Export : pc[g] = "ok"}' = {g \in Export : pc[g] = "ok"} \cup {e}
    BY <1>1, <2>1
  <2>4. Shown(disk[Target])' = Shown(dir[Target]) /\ Shown(dir[Target])' = Shown(dir[Target])
    BY <2>1 DEF Shown
  <2> QED BY <2>1, <2>2, <2>3, <2>4 DEF Durable!Tell
<1>4. ASSUME NEW e \in Export, Step(e), ~Rename(e), ~SyncDirectory(e)
      PROVE  UNCHANGED Durable!vars
  <2>1. ~SyncFails(e)
    BY <1>4 DEF SyncFails
  <2>2. since' = since /\ disk' = disk
    BY <1>4, <2>1 DEF Step, Begin, TakeName, Create, NextName, NoName, Write, Flush,
                      Fail, DropGuard
  <2>3. \A f \in Export : body[f] = "whole" => body'[f] = "whole"
    BY <1>1, <1>4, <2>1 DEF Step, Begin, TakeName, Create, NextName, NoName, Write,
                            Flush, Fail, DropGuard
  <2>4. dir'[Target] = dir[Target]
    <3>1. CASE TakeName(e)
      <4>1. Candidate(e) # Target
        BY CandidateTemp DEF IInv
      <4> QED BY <1>1, <3>1, <4>1 DEF TakeName, Create
    <3>2. CASE DropGuard(e)
      <4>1. name[e] # Target
        BY <3>2 DEF IInv, TypeOK, DropGuard, Goto
      <4> QED BY <1>1, <3>2, <4>1 DEF DropGuard
    <3>3. CASE ~TakeName(e) /\ ~DropGuard(e)
      BY <1>4, <2>1, <3>3 DEF Step, Begin, NextName, NoName, Write, Flush, Fail
    <3> QED BY <3>1, <3>2, <3>3
  <2>5. \A g \in Export : pc'[g] = "ok" <=> pc[g] = "ok"
    BY <1>1, <1>4, <2>1 DEF Step, Begin, TakeName, Create, NextName, NoName, Write,
                            Flush, Fail, DropGuard, Goto
  <2> QED BY <2>2, <2>3, <2>4, <2>5, Stutter
<1>5. ASSUME NEW p \in Proc, Crash(p) PROVE UNCHANGED Durable!vars
  <2>1. UNCHANGED <<dir, disk, body, since>>
    BY <1>5 DEF Crash
  <2>2. \A g \in Export : pc'[g] = "ok" <=> pc[g] = "ok"
    BY <1>1, <1>5 DEF Crash
  <2> QED BY <2>1, <2>2, Stutter
<1>6. ASSUME NEW n \in Name, Writeback(n) PROVE Durable!Persist \/ UNCHANGED Durable!vars
  <2>1. disk' = [disk EXCEPT ![n] = dir[n]] /\ UNCHANGED <<pc, dir, body, since>>
    BY <1>6 DEF Writeback
  <2>2. CASE n = Target
    <3>1. Shown(disk[Target])' = Shown(dir[Target]) /\ Shown(dir[Target])' = Shown(dir[Target])
      BY <1>1, <2>1, <2>2 DEF Shown
    <3> QED BY <2>1, <3>1 DEF Durable!Persist
  <2>3. CASE n # Target
    BY <1>1, <2>1, <2>3, Stutter
  <2> QED BY <2>2, <2>3
<1>7. ASSUME NEW torn \in SUBSET (Export \ flushed), PowerLoss(torn)
      PROVE  Durable!LosePower
  <2>1. dir' = disk /\ disk' = disk /\ since' = since
    BY <1>7 DEF PowerLoss
  <2>2. Safe(disk[Target])
    BY DEF IInv, TargetSafe
  <2>3. Shown(disk[Target])' = Shown(disk[Target])
    BY <1>1, <1>7, <2>1, <2>2 DEF Shown, Safe, PowerLoss
  <2>4. Shown(dir[Target])' = Shown(disk[Target])
    BY <2>1, <2>3 DEF Shown
  <2>5. \A g \in Export : pc'[g] = "ok" <=> pc[g] = "ok"
    BY <1>1, <1>7 DEF PowerLoss
  <2> QED BY <2>1, <2>3, <2>4, <2>5 DEF Durable!LosePower
<1>8. CASE UNCHANGED vars
  BY <1>8, Stutter DEF vars
<1> QED BY <1>2, <1>3, <1>4, <1>5, <1>6, <1>7, <1>8 DEF Next, Durable!Next

\* As long as no directory sync fails, exporting is an atomic, durable replacement
\* of one file, whatever calls and processes do it at once, fail or die, and
\* through power losses (atomic.rs, write_atomic_blocking).
THEOREM ExportsAtomically ==
  Spec /\ []("sync" \notin faults) => Durable!Spec
<1>1. Init => Fresh
  BY DEF Init, Fresh
<1>2. Spec => []Fresh
  BY <1>1, FreshStep, Invariance, PTL DEF Spec
<1>3. Init => Durable!Init
  BY DEF Init, Durable!Init, Shown
<1>4. IInv /\ Fresh /\ "sync" \notin faults /\ ("sync" \notin faults)' /\ [Next]_vars
        => [Durable!Next]_(Durable!vars)
  BY DurableStep
<1> QED BY <1>2, <1>3, <1>4, Invariance, PTL DEF Spec, Durable!Spec
=============================================================================
