----------------------------- MODULE Migrations -----------------------------
(***************************************************************************)
(* Bringing a database file to the current schema.  Every open of a         *)
(* workspace runs the forward steps under the cross-process write lock; the *)
(* steps work statement by statement on a file that an earlier run may have *)
(* left half done, that an older build wrote, that a newer build wrote, or  *)
(* whose version stamp does not tell the truth.  A stamp that lies is       *)
(* reported with a recovery the operator carries out by hand.               *)
(***************************************************************************)
EXTENDS Integers, FiniteSets

CONSTANTS
  Procs,      \* the processes that open the workspace
  NoProc,     \* nobody
  MaxFaults   \* bound on the runs that die or whose statement fails

ASSUME NoProcAssumption == NoProc \notin Procs
ASSUME FaultsAssumption == MaxFaults \in Nat

-----------------------------------------------------------------------------
(* The schema and the ladder.                                               *)

BaselineVersion == 1
Current         == 3
Newer           == 4        \* the stamp of a build after this one
CommentsStep    == 2
ConfigStep      == 3

\* The tables of the frozen baseline; the indexes stand for all that follows
\* the comments table.  Then what step 2 and step 3 add.
BaselineParts == {"issues", "comments", "indexes"}
CommentsParts == {"updated_at", "redacted_at"}
ConfigColumns == {"key", "value"}
AllParts      == BaselineParts \cup CommentsParts \cup ConfigColumns

\* Statement order: what is created before an element.
Before(e) ==
  CASE e = "comments"    -> {"issues"}
    [] e = "indexes"     -> {"issues", "comments"}
    [] e = "redacted_at" -> {"updated_at"}
    [] OTHER             -> {}

\* What the sentinel can name: a column of comments, the config table as a
\* whole, or one of its columns.
Gaps == CommentsParts \cup ConfigColumns \cup {"config"}

Databases == [stamp : 0 .. Newer, shape : SUBSET AllParts]
CurrentDb == [stamp |-> Current, shape |-> AllParts]

-----------------------------------------------------------------------------
VARIABLES
  db,      \* what is on disk: the stamp and the schema elements that exist
  tx,      \* the open transaction: its owner and the database as it sees it
  fence,   \* who holds the write lock file
  pc,      \* per process: where its open stands, or how it ended
  found,   \* per process: the stamp it read on entry
  at,      \* per process: the version its ladder has reached
  hint,    \* the gaps of the last lying-stamp report not yet acted on
  faults

vars == <<db, tx, fence, pc, found, at, hint, faults>>

Working == {"read", "baseline", "stampbase", "begin", "ddl", "stamp",
            "commit", "reread", "witness"}
Ended   == {"closed", "busy", "newer", "ladder", "gaps", "open"}

NoTx == [owner |-> NoProc, db |-> [stamp |-> 0, shape |-> {}]]

TypeOK ==
  /\ db \in Databases
  /\ tx \in [owner : Procs \cup {NoProc}, db : Databases]
  /\ fence \in Procs \cup {NoProc}
  /\ pc \in [Procs -> Working \cup Ended]
  /\ found \in [Procs -> 0 .. Newer]
  /\ at \in [Procs -> 0 .. Newer]
  /\ hint \in SUBSET Gaps
  /\ faults \in 0 .. MaxFaults

(***************************************************************************)
(* Files found on disk: any stamp over any shape, since the stamp is one    *)
(* number anybody can write.  Only the later columns need their table.      *)
(***************************************************************************)
OnDisk ==
  {d \in Databases :
     d.shape \cap CommentsParts # {} => "comments" \in d.shape}

Init ==
  /\ db \in OnDisk
  /\ tx = NoTx
  /\ fence = NoProc
  /\ pc = [p \in Procs |-> "closed"]
  /\ found = [p \in Procs |-> 0]
  /\ at = [p \in Procs |-> 0]
  /\ hint = {}
  /\ faults = 0

-----------------------------------------------------------------------------
(* Statements.  Inside a transaction a statement sees and changes what the   *)
(* transaction sees; outside it changes the file, once no other transaction  *)
(* holds the database.                                                       *)

Seen(p) == IF tx.owner = p THEN tx.db ELSE db

Put(p, d) ==
  IF tx.owner = p
    THEN tx' = [tx EXCEPT !.db = d] /\ UNCHANGED db
    ELSE tx.owner = NoProc /\ db' = d /\ UNCHANGED tx

Goto(p, label) == pc' = [pc EXCEPT ![p] = label]

\* The end of a run: an uncommitted transaction is rolled back and the lock
\* file is let go of.
Leave(p, label) ==
  /\ Goto(p, label)
  /\ tx' = IF tx.owner = p THEN NoTx ELSE tx
  /\ fence' = IF fence = p THEN NoProc ELSE fence

-----------------------------------------------------------------------------
(* One open.                                                                 *)

\* Faulty: the run relies on the transaction alone.
FenceFreeUntaken(p) == tx.owner = NoProc

\* The lock file is tried once, before the stamp is read, for the whole run.
FenceFree(p) == fence = NoProc

TakeFence(p) ==
  /\ pc[p] \in Ended
  /\ FenceFree(p)
  /\ fence' = p
  /\ Goto(p, "read")
  /\ UNCHANGED <<db, tx, found, at, hint, faults>>

FenceBusy(p) ==
  /\ pc[p] \in Ended \ {"busy"}
  /\ ~FenceFree(p)
  /\ Goto(p, "busy")
  /\ UNCHANGED <<db, tx, fence, found, at, hint, faults>>

TooNew(version) == version > Current

ReadStamp(p) ==
  /\ pc[p] = "read"
  /\ found' = [found EXCEPT ![p] = db.stamp]
  /\ \/ /\ TooNew(db.stamp)
        /\ Leave(p, "newer")
        /\ UNCHANGED at
     \/ /\ ~TooNew(db.stamp)
        /\ at' = [at EXCEPT ![p] = db.stamp]
        /\ Goto(p, CASE db.stamp >= Current -> "witness"
                     [] db.stamp = 0        -> "baseline"
                     [] OTHER               -> "begin")
        /\ UNCHANGED <<tx, fence>>
  /\ UNCHANGED <<db, hint, faults>>

\* One CREATE IF NOT EXISTS after the other, each its own commit.
ApplyBaseline(p) ==
  /\ pc[p] = "baseline"
  /\ \/ /\ BaselineParts \subseteq Seen(p).shape
        /\ Goto(p, "stampbase")
        /\ UNCHANGED <<db, tx>>
     \/ \E e \in BaselineParts \ Seen(p).shape :
          /\ Before(e) \subseteq Seen(p).shape
          /\ Put(p, [Seen(p) EXCEPT !.shape = @ \cup {e}])
          /\ UNCHANGED pc
  /\ UNCHANGED <<fence, found, at, hint, faults>>

StampBaseline(p) ==
  /\ pc[p] = "stampbase"
  /\ Put(p, [Seen(p) EXCEPT !.stamp = BaselineVersion])
  /\ at' = [at EXCEPT ![p] = BaselineVersion]
  /\ Goto(p, "begin")
  /\ UNCHANGED <<fence, found, hint, faults>>

\* Faulty: every statement of a step commits by itself.
OpenTxNone(p) == tx.owner = NoProc /\ UNCHANGED tx

\* BEGIN IMMEDIATE: the step's statements and its stamp commit together.
OpenTx(p) == tx.owner = NoProc /\ tx' = [owner |-> p, db |-> db]

BeginStep(p) ==
  /\ pc[p] = "begin"
  /\ OpenTx(p)
  /\ Goto(p, "ddl")
  /\ UNCHANGED <<db, fence, found, at, hint, faults>>

\* The columns step 2 adds: only those the table does not have.
ToAdd(shape) == CommentsParts \ shape

\* ALTER TABLE fails on a column that is there and on a table that is not.
CanAdd(column, shape) == column \notin shape /\ "comments" \in shape

\* Step 2, one ALTER at a time.
Reconcile(p) ==
  /\ pc[p] = "ddl" /\ at[p] + 1 = CommentsStep
  /\ LET seen == Seen(p)
     IN  \/ /\ ToAdd(seen.shape) = {}
            /\ Goto(p, "stamp")
            /\ UNCHANGED <<db, tx, fence>>
         \/ \E c \in ToAdd(seen.shape) :
              /\ CanAdd(c, seen.shape) /\ Before(c) \subseteq seen.shape
              /\ Put(p, [seen EXCEPT !.shape = @ \cup {c}])
              /\ UNCHANGED <<pc, fence>>
         \/ /\ \E c \in ToAdd(seen.shape) : ~CanAdd(c, seen.shape)
            /\ Leave(p, "ladder")
            /\ UNCHANGED db
  /\ UNCHANGED <<found, at, hint, faults>>

\* Step 3: IF NOT EXISTS leaves a table that is there as it is.
CreateConfig(shape) ==
  IF shape \cap ConfigColumns = {} THEN shape \cup ConfigColumns ELSE shape

CreateConfigTable(p) ==
  /\ pc[p] = "ddl" /\ at[p] + 1 = ConfigStep
  /\ Put(p, [Seen(p) EXCEPT !.shape = CreateConfig(@)])
  /\ Goto(p, "stamp")
  /\ UNCHANGED <<fence, found, at, hint, faults>>

StampStep(p) ==
  /\ pc[p] = "stamp"
  /\ Put(p, [Seen(p) EXCEPT !.stamp = at[p] + 1])
  /\ Goto(p, "commit")
  /\ UNCHANGED <<fence, found, at, hint, faults>>

CommitStep(p) ==
  /\ pc[p] = "commit"
  /\ db' = Seen(p)
  /\ tx' = IF tx.owner = p THEN NoTx ELSE tx
  /\ at' = [at EXCEPT ![p] = @ + 1]
  /\ Goto(p, IF at[p] + 1 = Current THEN "reread" ELSE "begin")
  /\ UNCHANGED <<fence, found, hint, faults>>

\* A ladder that ends with another stamp than its own is an error.
Reread(p) ==
  /\ pc[p] = "reread"
  /\ \/ /\ db.stamp = Current
        /\ Goto(p, "witness")
        /\ UNCHANGED <<tx, fence>>
     \/ /\ db.stamp # Current
        /\ Leave(p, "ladder")
  /\ UNCHANGED <<db, found, at, hint, faults>>

\* Faulty: the table of a missing column is reported as a gap of its own.
GapsOfTables(shape) ==
  (({"comments"} \cup CommentsParts) \ shape)
    \cup (IF shape \cap ConfigColumns = {} THEN {"config"}
                                           ELSE ConfigColumns \ shape)

\* What the newest steps should have left and did not.
GapsOf(shape) ==
  (CommentsParts \ shape)
    \cup (IF shape \cap ConfigColumns = {} THEN {"config"}
                                           ELSE ConfigColumns \ shape)

\* The sentinel, on every path, the one with nothing to do included.
Witness(p) ==
  /\ pc[p] = "witness"
  /\ LET gaps == GapsOf(db.shape)
     IN  \/ gaps = {} /\ Leave(p, "open") /\ UNCHANGED hint
         \/ gaps # {} /\ Leave(p, "gaps") /\ hint' = gaps
  /\ UNCHANGED <<db, found, at, faults>>

\* The process dies, or a statement fails and the run returns the error: the
\* transaction is rolled back and the system lets go of the lock file.
Die(p) ==
  /\ pc[p] \in Working
  /\ faults < MaxFaults
  /\ faults' = faults + 1
  /\ Leave(p, "closed")
  /\ UNCHANGED <<db, found, at, hint>>

-----------------------------------------------------------------------------
(* The recovery the report spells out, one write at a time, by hand and with *)
(* no run going on.                                                          *)

ResetStamp(gap) == IF gap \in CommentsParts THEN BaselineVersion ELSE CommentsStep

\* Faulty: a config table that lacks a column is left where it is.
DropsConfigNever(gaps) == FALSE

DropsConfig(gaps) == gaps \cap ConfigColumns # {}

DropConfig ==
  /\ fence = NoProc /\ tx.owner = NoProc
  /\ hint # {} /\ DropsConfig(hint)
  /\ db' = [db EXCEPT !.shape = @ \ ConfigColumns]
  /\ hint' = (hint \ ConfigColumns) \cup {"config"}
  /\ UNCHANGED <<tx, fence, pc, found, at, faults>>

ResetTheStamp ==
  /\ fence = NoProc /\ tx.owner = NoProc
  /\ hint # {} /\ ~DropsConfig(hint)
  /\ \E gap \in hint :
       /\ \A g \in hint : ResetStamp(gap) <= ResetStamp(g)
       /\ db' = [db EXCEPT !.stamp = ResetStamp(gap)]
  /\ hint' = {}
  /\ UNCHANGED <<tx, fence, pc, found, at, faults>>

-----------------------------------------------------------------------------
Run(p) ==
  \/ TakeFence(p) \/ FenceBusy(p) \/ ReadStamp(p)
  \/ ApplyBaseline(p) \/ StampBaseline(p)
  \/ BeginStep(p) \/ Reconcile(p) \/ CreateConfigTable(p)
  \/ StampStep(p) \/ CommitStep(p)
  \/ Reread(p) \/ Witness(p)

Operator == DropConfig \/ ResetTheStamp

Next == (\E p \in Procs : Run(p) \/ Die(p)) \/ Operator

Spec == Init /\ [][Next]_vars

\* A run that has begun goes on, the workspace is opened again, and the
\* operator sooner or later finds the moment between two runs at which to
\* carry out the recovery that keeps being reported.
FairSpec ==
  Spec /\ (\A p \in Procs : WF_vars(Run(p))) /\ SF_vars(Operator)

-----------------------------------------------------------------------------
(* Properties.                                                               *)

\* The shapes a stamp may stand for: before the baseline is stamped, any part
\* of it in statement order; at the baseline two shapes, since comments once
\* had its later columns in the baseline; one shape each from then on.
ShapesOf(stamp) ==
  CASE stamp = 0 ->
         {{}, {"issues"}, {"issues", "comments"}, BaselineParts,
          {"issues", "comments"} \cup CommentsParts,
          BaselineParts \cup CommentsParts}
    [] stamp = 1 -> {BaselineParts, BaselineParts \cup CommentsParts}
    [] stamp = 2 -> {BaselineParts \cup CommentsParts}
    [] stamp = 3 -> {AllParts}
    [] OTHER     -> SUBSET AllParts

Honest == db.shape \in ShapesOf(db.stamp)

\* Whoever dies where, and whoever opens at the same time: a file whose stamp
\* tells its shape never becomes one whose stamp does not.  No third shape is
\* ever manufactured between two steps (migrations.rs, apply_step).
StaysHonest == [][Honest => Honest']_vars

\* How a run ends is the truth about the file: an open means the current stamp
\* and every element the steps were to leave, "newer" a newer build's file, and
\* the ladder itself fails on nothing but a stamped file without its comments
\* table (migrations.rs, run_migrations).
EndsTruthfully ==
  \A p \in Procs :
    /\ pc[p] = "open"   => /\ db.stamp = Current
                           /\ CommentsParts \cup ConfigColumns \subseteq db.shape
    /\ pc[p] = "newer"  => db.stamp = Newer
    /\ pc[p] = "ladder" => "comments" \notin db.shape

\* The files the ladder and the reported recovery are meant for.
Repairable ==
  db.stamp <= Current /\ (db.stamp > 0 => BaselineParts \subseteq db.shape)

\* Every file this build may open gets there: an interrupted ladder is finished
\* by a later open, and the reported recovery of a lying stamp ends.
Repaired == Repairable ~> (db = CurrentDb)
=============================================================================
