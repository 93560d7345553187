-------------------------- MODULE MigrationsProof --------------------------
(***************************************************************************)
(* Theorems about Migrations, for any processes that open the workspace and *)
(* any number of faults.  A run that has the fence is alone with the file   *)
(* (Fenced), so what a run relies on at each of its statements (Stage) is   *)
(* not taken from it; a report of a lying stamp stays true until the        *)
(* operator has acted on it (Hinted).  What each step makes of the file     *)
(* (FileEffect) shows that runs only add to it and leave a newer one alone, *)
(* and that one recovery is enough (Sound).                                 *)
(***************************************************************************)
EXTENDS Migrations, TLAPS

InTx == {"ddl", "stamp", "commit"}
Later == CommentsParts \cup ConfigColumns

\* What a step makes of a shape.
After(v, shape) == IF v = 1 THEN shape \cup CommentsParts ELSE CreateConfig(shape)

\* What a run at l, with its ladder at v, relies on: d is the file and t the
\* file as the run's transaction sees it.
Stage(l, v, d, t) ==
  /\ l \in {"baseline", "stampbase"} => d.stamp = 0
  /\ l = "stampbase" => BaselineParts \subseteq d.shape
  /\ l \in {"begin"} \cup InTx => v \in {1, 2} /\ d.stamp = v
  /\ l = "ddl" => /\ d.shape \subseteq t.shape
                  /\ t.shape \subseteq IF v = 1 THEN d.shape \cup CommentsParts
                                                ELSE d.shape
  /\ l \in {"stamp", "commit"} => t.shape = After(v, d.shape)
  /\ l = "commit" => t.stamp = v + 1
  /\ l \in {"reread", "witness"} => d.stamp = Current

\* How a run that ended at l found the file d, and the file still is.
End(l, d) ==
  /\ l = "open" => d.stamp = Current /\ Later \subseteq d.shape
  /\ l = "newer" => d.stamp = Newer
  /\ l = "ladder" => "comments" \notin d.shape /\ d.stamp > 0

Fenced ==
  \A p \in Procs : /\ pc[p] \in Working <=> fence = p
                   /\ pc[p] \in InTx <=> tx.owner = p

Staged == \A p \in Procs : Stage(pc[p], at[p], db, tx.db)
Hinted == hint # {} => db.stamp = Current /\ ~(Later \subseteq db.shape)
Ends == \A p \in Procs : End(pc[p], db)

IInv == TypeOK /\ Fenced /\ Staged /\ Hinted /\ Ends

-----------------------------------------------------------------------------
(* Labels, files, and a run that has the fence.                            *)

LEMMA Labels ==
  /\ InTx \subseteq Working /\ \A l \in Ended : l \notin Working
  /\ {"read", "baseline", "stampbase", "begin", "reread", "witness"}
       \subseteq Working \ InTx
  BY DEF InTx, Working, Ended

LEMMA Sole ==
  ASSUME IInv, NEW p \in Procs, pc[p] \in Working
  PROVE  /\ fence = p /\ tx.owner \in {p, NoProc}
         /\ tx.owner = p <=> pc[p] \in InTx
         /\ \A q \in Procs : q # p => pc[q] \in Ended
<1>1. fence = p /\ (tx.owner = p <=> pc[p] \in InTx)
  BY DEF IInv, Fenced
<1>2. \A q \in Procs : q # p => pc[q] \notin Working
  BY <1>1 DEF IInv, Fenced
<1>3. \A q \in Procs : q # p => pc[q] \in Ended /\ tx.owner # q
  BY <1>2, Labels DEF IInv, TypeOK, Fenced
<1>4. tx.owner \in Procs \cup {NoProc}
  BY DEF IInv, TypeOK
<1> QED BY <1>1, <1>3, <1>4

\* A run that has ended relies on nothing.
LEMMA EndedStage ==
  ASSUME NEW l \in Ended, NEW v, NEW d, NEW t
  PROVE  Stage(l, v, d, t)
  BY DEF Ended, Stage, InTx

\* What one step of a run has to show.
LEMMA OwnStep ==
  ASSUME IInv, NEW p \in Procs, pc[p] \in Working,
         NEW l \in Working \cup Ended, pc' = [pc EXCEPT ![p] = l],
         db' \in Databases, tx'.db \in Databases,
         tx' \in [owner : Procs \cup {NoProc}, db : Databases],
         tx'.owner = IF l \in InTx THEN p ELSE NoProc,
         fence' = IF l \in Working THEN p ELSE NoProc,
         found' \in [Procs -> 0 .. Newer], at' \in [Procs -> 0 .. Newer],
         hint' \in SUBSET Gaps, faults' \in 0 .. MaxFaults,
         Stage(l, at'[p], db', tx'.db), End(l, db'),
         \A k \in Ended : End(k, db) => End(k, db'),
         Hinted'
  PROVE  IInv'
<1>1. /\ \A q \in Procs : pc'[q] = IF q = p THEN l ELSE pc[q]
      /\ \A q \in Procs : q # p => pc[q] \in Ended
      /\ pc' \in [Procs -> Working \cup Ended]
  BY Sole DEF IInv, TypeOK
<1>2. TypeOK'
  BY <1>1 DEF TypeOK
<1>3. Fenced'
  BY <1>1, Labels, NoProcAssumption DEF Fenced
<1>4. Staged'
  BY <1>1, EndedStage DEF Staged
<1>5. Ends'
  <2>1. \A q \in Procs : End(pc[q], db)
    BY DEF IInv, Ends
  <2> QED BY <1>1, <2>1 DEF Ends
<1> QED BY <1>2, <1>3, <1>4, <1>5 DEF IInv

\* The same for a step that leaves file and report alone.
LEMMA QuietStep ==
  ASSUME IInv, NEW p \in Procs, pc[p] \in Working,
         NEW l \in Working \cup Ended, pc' = [pc EXCEPT ![p] = l],
         db' = db, hint' = hint,
         tx' \in [owner : Procs \cup {NoProc}, db : Databases],
         tx'.owner = IF l \in InTx THEN p ELSE NoProc,
         fence' = IF l \in Working THEN p ELSE NoProc,
         found' \in [Procs -> 0 .. Newer], at' \in [Procs -> 0 .. Newer],
         faults' \in 0 .. MaxFaults,
         Stage(l, at'[p], db, tx'.db), End(l, db)
  PROVE  IInv'
<1>1. db' \in Databases /\ hint' \in SUBSET Gaps /\ tx'.db \in Databases
  BY DEF IInv, TypeOK
<1>2. Hinted'
  BY DEF IInv, Hinted
<1> QED BY <1>1, <1>2, OwnStep

\* Leaving lets go of fence and transaction.
LEMMA LeaveEffect ==
  ASSUME IInv, NEW p \in Procs, pc[p] \in Working, NEW l \in Ended, Leave(p, l)
  PROVE  /\ pc' = [pc EXCEPT ![p] = l] /\ fence' = NoProc
         /\ tx' \in [owner : Procs \cup {NoProc}, db : Databases]
         /\ tx'.owner = NoProc /\ l \notin InTx /\ l \notin Working
<1>1. NoTx \in [owner : Procs \cup {NoProc}, db : Databases] /\ NoTx.owner = NoProc
  BY DEF NoTx, Databases, Newer
<1>2. tx.owner \in {p, NoProc} /\ fence = p
  BY Sole
<1> QED BY <1>1, <1>2, Labels DEF Leave, Goto, IInv, TypeOK

\* What a run sees and writes.
LEMMA PutEffect ==
  ASSUME IInv, NEW p \in Procs, pc[p] \in Working, NEW d \in Databases, Put(p, d)
  PROVE  /\ pc[p] \in InTx => /\ db' = db /\ tx'.owner = p /\ tx'.db = d
                              /\ tx' \in [owner : Procs \cup {NoProc}, db : Databases]
         /\ pc[p] \notin InTx => db' = d /\ tx' = tx /\ tx.owner = NoProc
<1>1. tx \in [owner : Procs \cup {NoProc}, db : Databases]
  BY DEF IInv, TypeOK
<1> QED BY <1>1, Sole DEF Put

LEMMA SeenIs ==
  ASSUME IInv, NEW p \in Procs, pc[p] \in Working
  PROVE  /\ Seen(p) \in Databases
         /\ pc[p] \in InTx => Seen(p) = tx.db
         /\ pc[p] \notin InTx => Seen(p) = db
  BY Sole DEF Seen, IInv, TypeOK

-----------------------------------------------------------------------------
(* One action at a time.                                                   *)

LEMMA TakeFenceStep ==
  ASSUME IInv, NEW p \in Procs, TakeFence(p)
  PROVE  IInv'
<1>1. /\ pc' = [pc EXCEPT ![p] = "read"] /\ fence = NoProc /\ fence' = p
      /\ UNCHANGED <<db, tx, found, at, hint, faults>>
  BY DEF TakeFence, FenceFree, Goto
<1>2. \A q \in Procs : pc[q] \notin Working
  BY <1>1, NoProcAssumption DEF IInv, Fenced
<1>3. \A q \in Procs : pc[q] \in Ended /\ tx.owner # q
  BY <1>2, Labels DEF IInv, TypeOK, Fenced
<1>4. \A q \in Procs : pc'[q] = IF q = p THEN "read" ELSE pc[q]
  BY <1>1 DEF IInv, TypeOK
<1>5. TypeOK'
  BY <1>1 DEF IInv, TypeOK, Working
<1>6. Fenced'
  BY <1>1, <1>2, <1>3, <1>4, Labels DEF Fenced
<1>7. Staged'
  <2>1. \A v, d, t : Stage("read", v, d, t)
    BY DEF Stage, InTx
  <2> QED BY <1>1, <1>3, <1>4, <2>1, EndedStage DEF Staged
<1>8. Hinted' /\ Ends'
  BY <1>1, <1>4 DEF IInv, Hinted, Ends, End
<1> QED BY <1>5, <1>6, <1>7, <1>8 DEF IInv

LEMMA FenceBusyStep ==
  ASSUME IInv, NEW p \in Procs, FenceBusy(p)
  PROVE  IInv'
<1>1. /\ pc' = [pc EXCEPT ![p] = "busy"] /\ pc[p] \in Ended
      /\ UNCHANGED <<db, tx, fence, found, at, hint, faults>>
  BY DEF FenceBusy, Goto
<1>2. \A q \in Procs : pc'[q] = IF q = p THEN "busy" ELSE pc[q]
  BY <1>1 DEF IInv, TypeOK
<1>3. TypeOK'
  BY <1>1 DEF IInv, TypeOK, Ended
<1>4. Fenced'
  BY <1>1, <1>2, Labels DEF IInv, Fenced, Ended
<1>5. Staged'
  BY <1>1, <1>2, EndedStage DEF IInv, Staged, Ended
<1>6. Hinted' /\ Ends'
  BY <1>1, <1>2 DEF IInv, Hinted, Ends, End
<1> QED BY <1>3, <1>4, <1>5, <1>6 DEF IInv

LEMMA ReadStampStep ==
  ASSUME IInv, NEW p \in Procs, ReadStamp(p)
  PROVE  IInv'
<1>1. /\ pc[p] = "read" /\ pc[p] \in Working
      /\ db.stamp \in 0 .. Newer /\ UNCHANGED <<db, hint, faults>>
      /\ faults' \in 0 .. MaxFaults
  BY DEF ReadStamp, Working, IInv, TypeOK, Databases
<1>2. found' \in [Procs -> 0 .. Newer]
  BY <1>1 DEF ReadStamp, IInv, TypeOK
<1>3. fence = p /\ tx.owner = NoProc
  BY <1>1, Sole DEF InTx
<1>4. CASE TooNew(db.stamp)
  <2>1. Leave(p, "newer") /\ at' = at
    BY <1>4 DEF ReadStamp
  <2>2. Stage("newer", at'[p], db, tx'.db) /\ End("newer", db) /\ "newer" \in Ended
    BY <1>1, <1>4, EndedStage DEF Ended, End, TooNew, Current, Newer
  <2>3. at' \in [Procs -> 0 .. Newer]
    BY <2>1 DEF IInv, TypeOK
  <2>4. /\ pc' = [pc EXCEPT ![p] = "newer"] /\ fence' = NoProc
        /\ tx' \in [owner : Procs \cup {NoProc}, db : Databases]
        /\ tx'.owner = NoProc /\ "newer" \notin InTx /\ "newer" \notin Working
    BY <1>1, <2>1, <2>2, LeaveEffect
  <2> QED BY <1>1, <1>2, <2>2, <2>3, <2>4, QuietStep
<1>5. CASE ~TooNew(db.stamp)
  <2> DEFINE l == CASE db.stamp >= Current -> "witness"
                    [] db.stamp = 0        -> "baseline"
                    [] OTHER               -> "begin"
  <2>1. /\ at' = [at EXCEPT ![p] = db.stamp] /\ pc' = [pc EXCEPT ![p] = l]
        /\ UNCHANGED <<tx, fence>>
    BY <1>5 DEF ReadStamp, Goto
  <2>2. at' \in [Procs -> 0 .. Newer] /\ at'[p] = db.stamp
    BY <1>1, <2>1 DEF IInv, TypeOK
  <2>3. /\ l \in {"witness", "baseline", "begin"}
        /\ l = "witness" => db.stamp = Current
        /\ l = "baseline" => db.stamp = 0
        /\ l = "begin" => db.stamp \in {1, 2}
    BY <1>1, <1>5 DEF TooNew, Current, Newer
  <2> HIDE DEF l
  <2>4. Stage(l, at'[p], db, tx'.db) /\ End(l, db)
    BY <2>2, <2>3 DEF Stage, End, InTx
  <2>5. l \in Working /\ l \notin InTx
    BY <2>3, Labels
  <2>6. tx' \in [owner : Procs \cup {NoProc}, db : Databases]
    BY <2>1 DEF IInv, TypeOK
  <2> QED BY <1>1, <1>2, <1>3, <2>1, <2>2, <2>4, <2>5, <2>6, QuietStep
<1> QED BY <1>4, <1>5

\* A file that is not stamped has no run that ended with it and no report.
LEMMA Unstamped ==
  ASSUME IInv, db.stamp = 0, NEW d \in Databases, NEW k, End(k, db)
  PROVE  End(k, d) /\ hint = {}
  BY DEF IInv, Hinted, End, Current, Newer

LEMMA ApplyBaselineStep ==
  ASSUME IInv, NEW p \in Procs, ApplyBaseline(p)
  PROVE  IInv'
<1>1. /\ pc[p] = "baseline" /\ pc[p] \in Working /\ pc[p] \notin InTx
      /\ UNCHANGED <<fence, found, at, hint, faults>>
  BY DEF ApplyBaseline, Working, InTx
<1>2. fence = p /\ tx.owner = NoProc /\ db.stamp = 0 /\ Seen(p) = db
  BY <1>1, Sole, SeenIs DEF IInv, Staged, Stage
<1>3. /\ found' \in [Procs -> 0 .. Newer] /\ at' \in [Procs -> 0 .. Newer]
      /\ faults' \in 0 .. MaxFaults /\ hint' \in SUBSET Gaps
      /\ tx \in [owner : Procs \cup {NoProc}, db : Databases] /\ db \in Databases
  BY <1>1 DEF IInv, TypeOK
<1>4. CASE BaselineParts \subseteq db.shape /\ Goto(p, "stampbase") /\ UNCHANGED <<db, tx>>
  <2>1. Stage("stampbase", at'[p], db, tx'.db) /\ End("stampbase", db)
    BY <1>2, <1>4 DEF Stage, End, InTx
  <2>2. pc' = [pc EXCEPT ![p] = "stampbase"]
    BY <1>4 DEF Goto
  <2>3. "stampbase" \in Working /\ "stampbase" \notin InTx
    BY Labels
  <2> QED BY <1>1, <1>2, <1>3, <1>4, <2>1, <2>2, <2>3, QuietStep
<1>5. ASSUME NEW e \in BaselineParts, Put(p, [db EXCEPT !.shape = @ \cup {e}]),
             pc' = pc
      PROVE  IInv'
  <2> DEFINE d == [db EXCEPT !.shape = @ \cup {e}]
  <2>1. d \in Databases /\ d.stamp = 0
    BY <1>2, <1>3 DEF Databases, AllParts
  <2>2. db' = d /\ tx' = tx
    BY <1>1, <1>5, <2>1, PutEffect
  <2>3. Stage("baseline", at'[p], db', tx'.db) /\ End("baseline", db')
    BY <2>1, <2>2 DEF Stage, End, InTx
  <2>4. \A k \in Ended : End(k, db) => End(k, db')
    BY <1>2, <2>1, <2>2, Unstamped
  <2>5. hint' = {}
    BY <1>1, <1>2 DEF IInv, Hinted, Current
  <2>6. pc' = [pc EXCEPT ![p] = "baseline"]
    BY <1>1, <1>5 DEF IInv, TypeOK
  <2>7. Hinted' /\ tx'.db \in Databases
    BY <1>3, <2>2, <2>5 DEF Hinted
  <2> HIDE DEF d
  <2> QED BY <1>1, <1>2, <1>3, <2>1, <2>2, <2>3, <2>4, <2>6, <2>7, OwnStep
<1> QED BY <1>2, <1>4, <1>5 DEF ApplyBaseline

LEMMA StampBaselineStep ==
  ASSUME IInv, NEW p \in Procs, StampBaseline(p)
  PROVE  IInv'
<1>1. /\ pc[p] = "stampbase" /\ pc[p] \in Working /\ pc[p] \notin InTx
      /\ UNCHANGED <<fence, found, hint, faults>>
  BY DEF StampBaseline, Working, InTx
<1>2. fence = p /\ tx.owner = NoProc /\ db.stamp = 0 /\ Seen(p) = db
  BY <1>1, Sole, SeenIs DEF IInv, Staged, Stage
<1>3. /\ found' \in [Procs -> 0 .. Newer] /\ faults' \in 0 .. MaxFaults
      /\ hint' \in SUBSET Gaps /\ hint' = {}
      /\ tx \in [owner : Procs \cup {NoProc}, db : Databases] /\ db \in Databases
  BY <1>1, <1>2 DEF IInv, TypeOK, Hinted, Current
<1> DEFINE d == [db EXCEPT !.stamp = BaselineVersion]
<1>4. d \in Databases /\ d.stamp = 1
  BY <1>3 DEF Databases, BaselineVersion, Newer
<1>5. db' = d /\ tx' = tx /\ pc' = [pc EXCEPT ![p] = "begin"]
  BY <1>1, <1>2, <1>4, PutEffect DEF StampBaseline, Goto
<1>6. at' \in [Procs -> 0 .. Newer] /\ at'[p] = 1
  BY DEF StampBaseline, IInv, TypeOK, BaselineVersion, Newer
<1>7. Stage("begin", at'[p], db', tx'.db) /\ End("begin", db')
  BY <1>4, <1>5, <1>6 DEF Stage, End, InTx
<1>8. \A k \in Ended : End(k, db) => End(k, db')
  BY <1>2, <1>4, <1>5, Unstamped
<1>9. Hinted' /\ tx'.db \in Databases /\ "begin" \in Working /\ "begin" \notin InTx
  BY <1>3, <1>5, Labels DEF Hinted
<1> HIDE DEF d
<1> QED BY <1>1, <1>2, <1>3, <1>4, <1>5, <1>6, <1>7, <1>8, <1>9, OwnStep

\* A run in a step of the ladder: its fence, its transaction, its version.
InStepFacts(p) ==
  /\ pc[p] \in Working /\ fence = p /\ at[p] \in {1, 2} /\ db.stamp = at[p]
  /\ tx.owner = IF pc[p] \in InTx THEN p ELSE NoProc
  /\ hint = {} /\ db \in Databases /\ tx.db \in Databases
  /\ tx \in [owner : Procs \cup {NoProc}, db : Databases]
  /\ found \in [Procs -> 0 .. Newer] /\ at \in [Procs -> 0 .. Newer]
  /\ faults \in 0 .. MaxFaults

LEMMA InStep ==
  ASSUME IInv, NEW p \in Procs, pc[p] \in {"begin"} \cup InTx
  PROVE  InStepFacts(p)
<1>1. pc[p] \in Working
  BY Labels
<1>2. at[p] \in {1, 2} /\ db.stamp = at[p]
  BY DEF IInv, Staged, Stage
<1>3. hint = {}
  BY <1>2 DEF IInv, Hinted, Current
<1>4. fence = p /\ tx.owner = IF pc[p] \in InTx THEN p ELSE NoProc
  BY <1>1, Sole
<1> QED BY <1>1, <1>2, <1>3, <1>4 DEF IInv, TypeOK, InStepFacts

LEMMA BeginStepStep ==
  ASSUME IInv, NEW p \in Procs, BeginStep(p)
  PROVE  IInv'
<1>1. /\ pc[p] = "begin" /\ tx' = [owner |-> p, db |-> db]
      /\ pc' = [pc EXCEPT ![p] = "ddl"]
      /\ UNCHANGED <<db, fence, found, at, hint, faults>>
  BY DEF BeginStep, OpenTx, Goto
<1>2. InStepFacts(p)
  BY <1>1, InStep
<1>3. Stage("ddl", at'[p], db, tx'.db) /\ End("ddl", db)
  BY <1>1, <1>2 DEF Stage, End, InTx, InStepFacts
<1>4. "ddl" \in Working /\ "ddl" \in InTx
  BY DEF Working, InTx
<1> QED BY <1>1, <1>2, <1>3, <1>4, QuietStep DEF InStepFacts

LEMMA ReconcileStep ==
  ASSUME IInv, NEW p \in Procs, Reconcile(p)
  PROVE  IInv'
<1>1. /\ pc[p] = "ddl" /\ pc[p] \in InTx /\ at[p] = 1
      /\ UNCHANGED <<found, at, hint, faults>>
  <2>1. pc[p] = "ddl" /\ at[p] + 1 = 2
    BY DEF Reconcile, CommentsStep
  <2>2. pc[p] \in InTx
    BY <2>1 DEF InTx
  <2>3. at[p] \in {1, 2}
    BY <2>2, InStep DEF InStepFacts
  <2> QED BY <2>1, <2>2, <2>3 DEF Reconcile
<1>2. InStepFacts(p) /\ Seen(p) = tx.db
  BY <1>1, InStep, SeenIs DEF InStepFacts
<1>3. /\ db.shape \subseteq tx.db.shape
      /\ tx.db.shape \subseteq db.shape \cup CommentsParts
  BY <1>1 DEF IInv, Staged, Stage
<1>4. CASE ToAdd(tx.db.shape) = {} /\ Goto(p, "stamp") /\ UNCHANGED <<db, tx, fence>>
  <2>1. tx.db.shape = After(1, db.shape)
    BY <1>3, <1>4 DEF ToAdd, After
  <2>2. Stage("stamp", at'[p], db, tx'.db) /\ End("stamp", db)
    BY <1>1, <1>2, <1>4, <2>1 DEF Stage, End, InTx, InStepFacts
  <2>3. "stamp" \in Working /\ "stamp" \in InTx
    BY DEF Working, InTx
  <2>4. pc' = [pc EXCEPT ![p] = "stamp"]
    BY <1>4 DEF Goto
  <2> QED BY <1>1, <1>2, <1>4, <2>2, <2>3, <2>4, QuietStep DEF InStepFacts
<1>5. ASSUME NEW c \in ToAdd(tx.db.shape),
             Put(p, [tx.db EXCEPT !.shape = @ \cup {c}]), UNCHANGED <<pc, fence>>
      PROVE  IInv'
  <2> DEFINE d == [tx.db EXCEPT !.shape = @ \cup {c}]
  <2>1. c \in CommentsParts
    BY DEF ToAdd
  <2>2. d \in Databases /\ d.shape = tx.db.shape \cup {c}
    BY <1>2, <2>1 DEF Databases, AllParts, InStepFacts
  <2>3. /\ db' = db /\ tx'.owner = p /\ tx'.db = d
        /\ tx' \in [owner : Procs \cup {NoProc}, db : Databases]
    BY <1>1, <1>2, <1>5, <2>2, PutEffect DEF InStepFacts
  <2>4. Stage("ddl", at'[p], db, tx'.db) /\ End("ddl", db)
    BY <1>1, <1>2, <1>3, <2>1, <2>2, <2>3 DEF Stage, End, InTx, InStepFacts
  <2>5. pc' = [pc EXCEPT ![p] = "ddl"]
    BY <1>1, <1>5 DEF IInv, TypeOK
  <2>6. "ddl" \in Working /\ "ddl" \in InTx
    BY DEF Working, InTx
  <2> HIDE DEF d
  <2> QED BY <1>1, <1>2, <1>5, <2>3, <2>4, <2>5, <2>6, QuietStep DEF InStepFacts
<1>6. CASE /\ \E c \in ToAdd(tx.db.shape) : ~CanAdd(c, tx.db.shape)
           /\ Leave(p, "ladder") /\ UNCHANGED db
  <2>1. "comments" \notin tx.db.shape
    BY <1>6 DEF ToAdd, CanAdd
  <2>2. End("ladder", db) /\ "ladder" \in Ended
    BY <1>1, <1>2, <1>3, <2>1 DEF End, Ended, InStepFacts
  <2>3. Stage("ladder", at'[p], db, tx'.db)
    BY <2>2, EndedStage
  <2>4. /\ pc' = [pc EXCEPT ![p] = "ladder"] /\ fence' = NoProc
        /\ tx' \in [owner : Procs \cup {NoProc}, db : Databases]
        /\ tx'.owner = NoProc /\ "ladder" \notin InTx /\ "ladder" \notin Working
    BY <1>2, <1>6, <2>2, LeaveEffect DEF InStepFacts
  <2> QED BY <1>1, <1>2, <1>6, <2>2, <2>3, <2>4, QuietStep DEF InStepFacts
<1> QED BY <1>2, <1>4, <1>5, <1>6 DEF Reconcile, InStepFacts

LEMMA CreateConfigTableStep ==
  ASSUME IInv, NEW p \in Procs, CreateConfigTable(p)
  PROVE  IInv'
<1>1. /\ pc[p] = "ddl" /\ pc[p] \in InTx /\ at[p] = 2
      /\ UNCHANGED <<fence, found, at, hint, faults>>
      /\ pc' = [pc EXCEPT ![p] = "stamp"]
  <2>1. pc[p] = "ddl" /\ at[p] + 1 = 3
    BY DEF CreateConfigTable, ConfigStep
  <2>2. pc[p] \in InTx
    BY <2>1 DEF InTx
  <2>3. at[p] \in {1, 2}
    BY <2>2, InStep DEF InStepFacts
  <2> QED BY <2>1, <2>2, <2>3 DEF CreateConfigTable, Goto
<1>2. InStepFacts(p) /\ Seen(p) = tx.db
  BY <1>1, InStep, SeenIs DEF InStepFacts
<1>3. tx.db.shape = db.shape
  <2>1. db.shape \subseteq tx.db.shape /\ tx.db.shape \subseteq db.shape
    BY <1>1 DEF IInv, Staged, Stage
  <2> QED BY <2>1
<1> DEFINE d == [tx.db EXCEPT !.shape = CreateConfig(@)]
<1>4. d \in Databases /\ d.shape = CreateConfig(db.shape)
  BY <1>2, <1>3 DEF Databases, AllParts, CreateConfig, InStepFacts
<1>5. /\ db' = db /\ tx'.owner = p /\ tx'.db = d
      /\ tx' \in [owner : Procs \cup {NoProc}, db : Databases]
  BY <1>1, <1>2, <1>4, PutEffect DEF CreateConfigTable, InStepFacts
<1>6. Stage("stamp", at'[p], db, tx'.db) /\ End("stamp", db)
  BY <1>1, <1>2, <1>4, <1>5 DEF Stage, End, InTx, After, InStepFacts
<1>7. "stamp" \in Working /\ "stamp" \in InTx
  BY DEF Working, InTx
<1> HIDE DEF d
<1> QED BY <1>1, <1>2, <1>5, <1>6, <1>7, QuietStep DEF InStepFacts

LEMMA StampStepStep ==
  ASSUME IInv, NEW p \in Procs, StampStep(p)
  PROVE  IInv'
<1>1. /\ pc[p] = "stamp" /\ pc[p] \in InTx
      /\ UNCHANGED <<fence, found, at, hint, faults>>
      /\ pc' = [pc EXCEPT ![p] = "commit"]
  BY DEF StampStep, Goto, InTx
<1>2. InStepFacts(p) /\ Seen(p) = tx.db
  BY <1>1, InStep, SeenIs DEF InStepFacts
<1>3. tx.db.shape = After(at[p], db.shape)
  BY <1>1 DEF IInv, Staged, Stage
<1> DEFINE d == [tx.db EXCEPT !.stamp = at[p] + 1]
<1>4. d \in Databases /\ d.shape = tx.db.shape /\ d.stamp = at[p] + 1
  BY <1>2 DEF Databases, Newer, InStepFacts
<1>5. /\ db' = db /\ tx'.owner = p /\ tx'.db = d
      /\ tx' \in [owner : Procs \cup {NoProc}, db : Databases]
  BY <1>1, <1>2, <1>4, PutEffect DEF StampStep, InStepFacts
<1>6. Stage("commit", at'[p], db, tx'.db) /\ End("commit", db)
  BY <1>1, <1>2, <1>3, <1>4, <1>5 DEF Stage, End, InTx, InStepFacts
<1>7. "commit" \in Working /\ "commit" \in InTx
  BY DEF Working, InTx
<1> HIDE DEF d
<1> QED BY <1>1, <1>2, <1>5, <1>6, <1>7, QuietStep DEF InStepFacts

\* What a commit writes, which StaysHonest asks about as well.
CommitFacts(p) ==
  /\ at[p] \in {1, 2} /\ db.stamp = at[p] /\ db'.stamp = at[p] + 1
  /\ db'.shape = After(at[p], db.shape) /\ db' \in Databases

LEMMA CommitEffect ==
  ASSUME IInv, NEW p \in Procs, CommitStep(p)
  PROVE  CommitFacts(p)
<1>1. pc[p] = "commit" /\ pc[p] \in InTx /\ db' = Seen(p)
  BY DEF CommitStep, InTx
<1>2. InStepFacts(p) /\ Seen(p) = tx.db
  BY <1>1, InStep, SeenIs DEF InStepFacts
<1>3. tx.db.shape = After(at[p], db.shape) /\ tx.db.stamp = at[p] + 1
  BY <1>1 DEF IInv, Staged, Stage
<1> QED BY <1>1, <1>2, <1>3 DEF InStepFacts, CommitFacts

LEMMA CommitStepStep ==
  ASSUME IInv, NEW p \in Procs, CommitStep(p)
  PROVE  IInv'
<1>1. /\ pc[p] = "commit" /\ pc[p] \in InTx /\ UNCHANGED <<fence, found, hint, faults>>
      /\ tx' = IF tx.owner = p THEN NoTx ELSE tx
      /\ at' = [at EXCEPT ![p] = @ + 1]
      /\ pc' = [pc EXCEPT ![p] = IF at[p] + 1 = Current THEN "reread" ELSE "begin"]
  BY DEF CommitStep, Goto, InTx
<1>2. InStepFacts(p) /\ CommitFacts(p)
  BY <1>1, InStep, CommitEffect
<1> DEFINE l == IF at[p] + 1 = Current THEN "reread" ELSE "begin"
<1>3. tx' \in [owner : Procs \cup {NoProc}, db : Databases] /\ tx'.owner = NoProc
  BY <1>1, <1>2 DEF NoTx, Databases, Newer, InStepFacts, CommitFacts
<1>4. at' \in [Procs -> 0 .. Newer] /\ at'[p] = at[p] + 1
  BY <1>1, <1>2 DEF Newer, InStepFacts, CommitFacts
<1>5. Stage(l, at'[p], db', tx'.db) /\ End(l, db')
  BY <1>2, <1>4 DEF Stage, End, InTx, Current, InStepFacts, CommitFacts
<1>6. ASSUME NEW k \in Ended, End(k, db) PROVE End(k, db')
  <2>1. "comments" \notin db.shape => "comments" \notin db'.shape
    BY <1>2 DEF After, CommentsParts, CreateConfig, ConfigColumns, InStepFacts, CommitFacts
  <2> QED BY <1>2, <1>6, <2>1 DEF End, Current, Newer, InStepFacts, CommitFacts
<1>7. l \in Working /\ l \notin InTx /\ Hinted' /\ tx'.db \in Databases
  BY <1>1, <1>2, <1>3, Labels DEF Hinted, InStepFacts, CommitFacts
<1>8. hint' \in SUBSET Gaps
  BY <1>1, <1>2 DEF InStepFacts, CommitFacts
<1> HIDE DEF l
<1>9. pc' = [pc EXCEPT ![p] = l]
  BY <1>1 DEF l
<1> QED BY <1>1, <1>2, <1>3, <1>4, <1>5, <1>6, <1>7, <1>8, <1>9, OwnStep DEF InStepFacts, CommitFacts

LEMMA RereadStep ==
  ASSUME IInv, NEW p \in Procs, Reread(p)
  PROVE  IInv'
<1>1. /\ pc[p] = "reread" /\ pc[p] \in Working /\ pc[p] \notin InTx
      /\ UNCHANGED <<db, found, at, hint, faults>>
  BY DEF Reread, Working, InTx
<1>2. /\ fence = p /\ tx.owner = NoProc /\ db.stamp = Current
      /\ tx \in [owner : Procs \cup {NoProc}, db : Databases]
      /\ found' \in [Procs -> 0 .. Newer] /\ at' \in [Procs -> 0 .. Newer]
      /\ faults' \in 0 .. MaxFaults
  BY <1>1, Sole DEF IInv, TypeOK, Staged, Stage
<1>3. pc' = [pc EXCEPT ![p] = "witness"] /\ UNCHANGED <<tx, fence>>
  BY <1>2 DEF Reread, Goto
<1>4. Stage("witness", at'[p], db, tx'.db) /\ End("witness", db)
  BY <1>2 DEF Stage, End, InTx
<1>5. "witness" \in Working /\ "witness" \notin InTx
  BY Labels
<1> QED BY <1>1, <1>2, <1>3, <1>4, <1>5, QuietStep

\* The sentinel names a gap exactly when something of the later steps lacks.
LEMMA SentinelSees ==
  ASSUME NEW shape
  PROVE  GapsOf(shape) = {} <=> Later \subseteq shape
<1>1. CASE shape \cap ConfigColumns = {}
  <2>1. "config" \in GapsOf(shape)
    BY <1>1 DEF GapsOf
  <2>2. "key" \in Later /\ "key" \notin shape
    BY <1>1 DEF Later, ConfigColumns
  <2> QED BY <2>1, <2>2
<1>2. CASE shape \cap ConfigColumns # {}
  <2>1. GapsOf(shape) = (CommentsParts \ shape) \cup (ConfigColumns \ shape)
    BY <1>2 DEF GapsOf
  <2> QED BY <2>1 DEF Later
<1> QED BY <1>1, <1>2

LEMMA WitnessStep ==
  ASSUME IInv, NEW p \in Procs, Witness(p)
  PROVE  IInv'
<1>1. /\ pc[p] = "witness" /\ pc[p] \in Working /\ pc[p] \notin InTx
      /\ UNCHANGED <<db, found, at, faults>>
  BY DEF Witness, Working, InTx
<1>2. /\ db.stamp = Current /\ db \in Databases
      /\ found' \in [Procs -> 0 .. Newer] /\ at' \in [Procs -> 0 .. Newer]
      /\ faults' \in 0 .. MaxFaults
  BY <1>1 DEF IInv, TypeOK, Staged, Stage
<1>3. CASE GapsOf(db.shape) = {} /\ Leave(p, "open") /\ UNCHANGED hint
  <2>1. Later \subseteq db.shape
    BY <1>3, SentinelSees
  <2>2. End("open", db) /\ "open" \in Ended /\ Stage("open", at'[p], db, tx'.db)
    BY <1>2, <2>1, EndedStage DEF End, Ended
  <2>3. /\ pc' = [pc EXCEPT ![p] = "open"] /\ fence' = NoProc
        /\ tx' \in [owner : Procs \cup {NoProc}, db : Databases]
        /\ tx'.owner = NoProc /\ "open" \notin InTx /\ "open" \notin Working
    BY <1>1, <1>3, <2>2, LeaveEffect
  <2> QED BY <1>1, <1>2, <1>3, <2>2, <2>3, QuietStep
<1>4. CASE GapsOf(db.shape) # {} /\ Leave(p, "gaps") /\ hint' = GapsOf(db.shape)
  <2>1. ~(Later \subseteq db.shape)
    BY <1>4, SentinelSees
  <2>2. hint' \in SUBSET Gaps /\ Hinted'
    BY <1>1, <1>2, <1>4, <2>1 DEF GapsOf, Gaps, Hinted
  <2>3. End("gaps", db') /\ "gaps" \in Ended /\ Stage("gaps", at'[p], db', tx'.db)
    BY EndedStage DEF End, Ended
  <2>4. /\ pc' = [pc EXCEPT ![p] = "gaps"] /\ fence' = NoProc
        /\ tx' \in [owner : Procs \cup {NoProc}, db : Databases]
        /\ tx'.owner = NoProc /\ "gaps" \notin InTx /\ "gaps" \notin Working
    BY <1>1, <1>4, <2>3, LeaveEffect
  <2>5. tx'.db \in Databases /\ db' \in Databases /\ \A k \in Ended : End(k, db) => End(k, db')
    BY <1>1, <1>2, <2>4
  <2> QED BY <1>1, <1>2, <2>2, <2>3, <2>4, <2>5, OwnStep
<1> QED BY <1>3, <1>4 DEF Witness

LEMMA DieStep ==
  ASSUME IInv, NEW p \in Procs, Die(p)
  PROVE  IInv'
<1>1. /\ pc[p] \in Working /\ Leave(p, "closed")
      /\ UNCHANGED <<db, found, at, hint>>
  BY DEF Die
<1>2. /\ found' \in [Procs -> 0 .. Newer] /\ at' \in [Procs -> 0 .. Newer]
      /\ faults' \in 0 .. MaxFaults
  BY FaultsAssumption DEF Die, IInv, TypeOK
<1>3. End("closed", db) /\ "closed" \in Ended /\ Stage("closed", at'[p], db, tx'.db)
  BY EndedStage DEF End, Ended
<1>4. /\ pc' = [pc EXCEPT ![p] = "closed"] /\ fence' = NoProc
      /\ tx' \in [owner : Procs \cup {NoProc}, db : Databases]
      /\ tx'.owner = NoProc /\ "closed" \notin InTx /\ "closed" \notin Working
  BY <1>1, <1>3, LeaveEffect
<1> QED BY <1>1, <1>2, <1>3, <1>4, QuietStep

-----------------------------------------------------------------------------
(* The operator, with no run going on: every process has ended, none of them *)
(* with an open or a newer file, since the report still stands.              *)

OperatorFacts ==
  /\ db \in Databases /\ db.stamp = Current /\ ~(Later \subseteq db.shape)
  /\ \A p \in Procs : pc[p] \in Ended

LEMMA OperatorMoment ==
  ASSUME IInv, fence = NoProc, hint # {}
  PROVE  OperatorFacts
<1>1. \A p \in Procs : pc[p] \in Ended
  BY NoProcAssumption DEF IInv, TypeOK, Fenced
<1> QED BY <1>1 DEF OperatorFacts, IInv, TypeOK, Hinted

LEMMA DropConfigStep ==
  ASSUME IInv, DropConfig
  PROVE  IInv'
<1>1. /\ db' = [db EXCEPT !.shape = @ \ ConfigColumns]
      /\ hint' = (hint \ ConfigColumns) \cup {"config"}
      /\ UNCHANGED <<tx, fence, pc, found, at, faults>>
      /\ fence = NoProc /\ hint # {}
  BY DEF DropConfig
<1>2. OperatorFacts
  BY <1>1, OperatorMoment
<1>3. /\ db' \in Databases /\ db'.stamp = Current
      /\ db'.shape = db.shape \ ConfigColumns
  BY <1>1, <1>2 DEF OperatorFacts, Databases
<1>4. TypeOK'
  BY <1>1, <1>3 DEF IInv, TypeOK, Gaps
<1>5. Fenced'
  BY <1>1 DEF IInv, Fenced
<1>6. Staged'
  BY <1>1, <1>2, EndedStage DEF OperatorFacts, Staged
<1>7. Hinted'
  <2>1. "key" \in Later /\ "key" \notin db'.shape
    BY <1>3 DEF Later, ConfigColumns
  <2> QED BY <1>3, <2>1 DEF Hinted
<1>8. Ends'
  BY <1>1, <1>2, <1>3 DEF IInv, Ends, End, OperatorFacts, Current, Newer
<1> QED BY <1>4, <1>5, <1>6, <1>7, <1>8 DEF IInv

LEMMA ResetTheStampStep ==
  ASSUME IInv, ResetTheStamp
  PROVE  IInv'
<1>1. /\ hint' = {} /\ UNCHANGED <<tx, fence, pc, found, at, faults>>
      /\ fence = NoProc /\ hint # {}
  BY DEF ResetTheStamp
<1>2. OperatorFacts
  BY <1>1, OperatorMoment
<1>3. PICK gap \in hint : db' = [db EXCEPT !.stamp = ResetStamp(gap)]
  BY DEF ResetTheStamp
<1>4. /\ db' \in Databases /\ db'.stamp \in {1, 2} /\ db'.shape = db.shape
  BY <1>2, <1>3 DEF OperatorFacts, Databases, ResetStamp, BaselineVersion, CommentsStep, Newer
<1>5. TypeOK'
  BY <1>1, <1>4 DEF IInv, TypeOK
<1>6. Fenced'
  BY <1>1 DEF IInv, Fenced
<1>7. Staged'
  BY <1>1, <1>2, EndedStage DEF OperatorFacts, Staged
<1>8. Hinted'
  BY <1>1 DEF Hinted
<1>9. Ends'
  BY <1>1, <1>2, <1>4 DEF IInv, Ends, End, OperatorFacts, Current, Newer
<1> QED BY <1>5, <1>6, <1>7, <1>8, <1>9 DEF IInv

-----------------------------------------------------------------------------
(* The invariant.                                                            *)

LEMMA InitInv == Init => IInv
<1> SUFFICES ASSUME Init PROVE IInv
  OBVIOUS
<1>1. TypeOK
  BY FaultsAssumption DEF Init, TypeOK, OnDisk, NoTx, Databases, Ended, Newer
<1>2. Fenced
  BY NoProcAssumption DEF Init, Fenced, NoTx, Working, InTx
<1>3. Staged
  <2>1. "closed" \in Ended
    BY DEF Ended
  <2> QED BY <2>1, EndedStage DEF Init, Staged
<1>4. Hinted /\ Ends
  BY DEF Init, Hinted, Ends, End
<1> QED BY <1>1, <1>2, <1>3, <1>4 DEF IInv

LEMMA InvStep == IInv /\ [Next]_vars => IInv'
<1> SUFFICES ASSUME IInv, [Next]_vars PROVE IInv'
  OBVIOUS
<1>1. ASSUME NEW p \in Procs, Run(p) PROVE IInv'
  BY <1>1, TakeFenceStep, FenceBusyStep, ReadStampStep, ApplyBaselineStep,
     StampBaselineStep, BeginStepStep, ReconcileStep, CreateConfigTableStep,
     StampStepStep, CommitStepStep, RereadStep, WitnessStep DEF Run
<1>2. ASSUME NEW p \in Procs, Die(p) PROVE IInv'
  BY <1>2, DieStep
<1>3. CASE Operator
  BY <1>3, DropConfigStep, ResetTheStampStep DEF Operator
<1>4. CASE UNCHANGED vars
  BY <1>4 DEF vars, IInv, TypeOK, Fenced, Staged, Hinted, Ends
<1> QED BY <1>1, <1>2, <1>3, <1>4 DEF Next

LEMMA Invariant == Spec => []IInv
  BY InitInv, InvStep, PTL DEF Spec

\* Every variable stays of its type, for any processes and any number of faults.
THEOREM TypeCorrect == Spec => []TypeOK
<1>1. IInv => TypeOK
  BY DEF IInv
<1> QED BY <1>1, Invariant, PTL

\* The result a run returned is the truth about the file it left, and stays so
\* whatever other runs and the operator do (migrations.rs, run_migrations).
THEOREM EndsTrue == Spec => []EndsTruthfully
<1>1. IInv => EndsTruthfully
  BY DEF IInv, Ends, End, EndsTruthfully, Later
<1> QED BY <1>1, Invariant, PTL

-----------------------------------------------------------------------------
(* No step makes a stamp lie.                                               *)

LEMMA BaselineHonest ==
  ASSUME IInv, Honest, NEW p \in Procs, ApplyBaseline(p)
  PROVE  Honest'
<1>1. /\ pc[p] = "baseline" /\ pc[p] \in Working /\ pc[p] \notin InTx
  BY DEF ApplyBaseline, Working, InTx
<1>2. db.stamp = 0 /\ Seen(p) = db /\ db \in Databases
  BY <1>1, SeenIs DEF IInv, TypeOK, Staged, Stage
<1>3. CASE UNCHANGED db
  BY <1>3 DEF Honest
<1>4. ASSUME NEW e \in BaselineParts \ db.shape, Before(e) \subseteq db.shape,
             Put(p, [db EXCEPT !.shape = @ \cup {e}])
      PROVE  Honest'
  <2> DEFINE d == [db EXCEPT !.shape = @ \cup {e}]
  <2>1. d \in Databases /\ d.stamp = 0 /\ d.shape = db.shape \cup {e}
    BY <1>2 DEF Databases, AllParts
  <2>2. db' = d
    BY <1>1, <1>4, <2>1, PutEffect
  <2> HIDE DEF d
  <2>3. db.shape \in ShapesOf(0)
    BY <1>2 DEF Honest
  <2>4. e \in {"issues", "comments", "indexes"} /\ e \notin db.shape
    BY DEF BaselineParts
  <2>5. CASE e = "issues"
    <3>1. db.shape = {}
      BY <2>3, <2>4, <2>5 DEF ShapesOf, BaselineParts
    <3> QED BY <2>1, <2>2, <2>5, <3>1 DEF Honest, ShapesOf
  <2>6. CASE e = "comments"
    <3>1. db.shape = {"issues"}
      BY <1>4, <2>3, <2>4, <2>6 DEF ShapesOf, BaselineParts, Before
    <3>2. db.shape \cup {e} = {"issues", "comments"}
      BY <2>6, <3>1
    <3>3. {"issues", "comments"} \in ShapesOf(0)
      BY DEF ShapesOf
    <3>4. db'.shape = {"issues", "comments"} /\ db'.stamp = 0
      BY <2>1, <2>2, <3>2
    <3> QED BY <3>3, <3>4 DEF Honest
  <2>7. CASE e = "indexes"
    <3>1. db.shape \in {{"issues", "comments"}, {"issues", "comments"} \cup CommentsParts}
      BY <1>4, <2>3, <2>4, <2>7 DEF ShapesOf, BaselineParts, Before
    <3>2. db.shape \cup {e} \in {BaselineParts, BaselineParts \cup CommentsParts}
      BY <2>7, <3>1 DEF BaselineParts
    <3>3. {BaselineParts, BaselineParts \cup CommentsParts} \subseteq ShapesOf(0)
      BY DEF ShapesOf
    <3>4. db'.shape = db.shape \cup {e} /\ db'.stamp = 0
      BY <2>1, <2>2
    <3>5. db'.shape \in ShapesOf(db'.stamp)
      BY <3>2, <3>3, <3>4
    <3> QED BY <3>5 DEF Honest
  <2> QED BY <2>4, <2>5, <2>6, <2>7
<1> QED BY <1>2, <1>3, <1>4 DEF ApplyBaseline

LEMMA StampHonest ==
  ASSUME IInv, Honest, NEW p \in Procs, StampBaseline(p)
  PROVE  Honest'
<1>1. pc[p] = "stampbase" /\ pc[p] \in Working /\ pc[p] \notin InTx
  BY DEF StampBaseline, Working, InTx
<1>2. /\ db.stamp = 0 /\ Seen(p) = db /\ db \in Databases
      /\ BaselineParts \subseteq db.shape
  BY <1>1, SeenIs DEF IInv, TypeOK, Staged, Stage
<1> DEFINE d == [db EXCEPT !.stamp = BaselineVersion]
<1>3. d \in Databases /\ d.stamp = 1 /\ d.shape = db.shape
  BY <1>2 DEF Databases, BaselineVersion, Newer
<1>4. db' = d
  BY <1>1, <1>2, <1>3, PutEffect DEF StampBaseline
<1> HIDE DEF d
<1>5. db.shape \in ShapesOf(0)
  BY <1>2 DEF Honest
<1>6. db.shape \in {BaselineParts, BaselineParts \cup CommentsParts}
  BY <1>2, <1>5 DEF ShapesOf, BaselineParts, CommentsParts
<1> QED BY <1>3, <1>4, <1>6 DEF Honest, ShapesOf

LEMMA CommitHonest ==
  ASSUME IInv, Honest, NEW p \in Procs, CommitStep(p)
  PROVE  Honest'
<1>1. CommitFacts(p) /\ db.shape \in ShapesOf(at[p])
  BY CommitEffect DEF CommitFacts, Honest
<1>2. CASE at[p] = 1
  <2>1. db.shape \in {BaselineParts, BaselineParts \cup CommentsParts}
    BY <1>1, <1>2 DEF ShapesOf
  <2>2. db'.shape = BaselineParts \cup CommentsParts /\ db'.stamp = 2
    BY <1>1, <1>2, <2>1 DEF CommitFacts, After
  <2> QED BY <2>2 DEF Honest, ShapesOf
<1>3. CASE at[p] = 2
  <2>1. db.shape = BaselineParts \cup CommentsParts
    BY <1>1, <1>3 DEF ShapesOf
  <2>2. db.shape \cap ConfigColumns = {}
    BY <2>1 DEF BaselineParts, CommentsParts, ConfigColumns
  <2>3. db'.shape = db.shape \cup ConfigColumns /\ db'.stamp = 3
    BY <1>1, <1>3, <2>2 DEF CommitFacts, After, CreateConfig
  <2>4. db'.shape = AllParts
    BY <2>1, <2>3 DEF AllParts
  <2> QED BY <2>3, <2>4 DEF Honest, ShapesOf
<1> QED BY <1>1, <1>2, <1>3 DEF CommitFacts

\* The operator has nothing to do on a file whose stamp tells its shape.
LEMMA OperatorDishonest ==
  ASSUME IInv, Operator
  PROVE  ~Honest
<1>1. fence = NoProc /\ hint # {}
  BY DEF Operator, DropConfig, ResetTheStamp
<1>2. db.stamp = 3 /\ ~(Later \subseteq db.shape)
  BY <1>1, OperatorMoment DEF OperatorFacts, Current
<1>3. Later \subseteq AllParts
  BY DEF Later, AllParts
<1> QED BY <1>2, <1>3 DEF Honest, ShapesOf

\* The statements of a step only reach the file when the step commits.
LEMMA StatementsWait ==
  ASSUME IInv, NEW p \in Procs,
         Reconcile(p) \/ CreateConfigTable(p) \/ StampStep(p)
  PROVE  db' = db
<1>1. pc[p] \in InTx /\ pc[p] \in Working
  BY Labels DEF Reconcile, CreateConfigTable, StampStep, InTx
<1>2. tx.owner = p
  BY <1>1, Sole
<1> QED BY <1>2 DEF Reconcile, CreateConfigTable, StampStep, Put

\* Whatever run dies or fails where, and whichever runs open the file at the
\* same time, a file whose stamp tells its shape keeps one that does
\* (migrations.rs, apply_step: the statements and the stamp commit together).
THEOREM HonestStays == Spec => StaysHonest
<1>1. IInv /\ [Next]_vars => [Honest => Honest']_vars
  <2> SUFFICES ASSUME IInv, [Next]_vars, Honest PROVE Honest'
    OBVIOUS
  <2>1. ASSUME NEW p \in Procs, Run(p) PROVE Honest'
    <3>1. CASE ApplyBaseline(p) \/ StampBaseline(p) \/ CommitStep(p)
      BY <3>1, BaselineHonest, StampHonest, CommitHonest
    <3>2. CASE Reconcile(p) \/ CreateConfigTable(p) \/ StampStep(p)
      BY <3>2, StatementsWait DEF Honest
    <3>3. CASE TakeFence(p) \/ FenceBusy(p) \/ ReadStamp(p) \/ BeginStep(p)
                 \/ Reread(p) \/ Witness(p)
      BY <3>3 DEF Honest, TakeFence, FenceBusy, ReadStamp, BeginStep, Reread, Witness
    <3> QED BY <2>1, <3>1, <3>2, <3>3 DEF Run
  <2>2. ASSUME NEW p \in Procs, Die(p) PROVE Honest'
    BY <2>2 DEF Die, Honest
  <2>3. CASE Operator
    BY <2>3, OperatorDishonest
  <2>4. CASE UNCHANGED vars
    BY <2>4 DEF vars, Honest
  <2> QED BY <2>1, <2>2, <2>3, <2>4 DEF Next
<1> QED BY <1>1, Invariant, PTL DEF Spec, StaysHonest

-----------------------------------------------------------------------------
(* What a run may make of the file, all its statements taken together.      *)

Grows(d, e) ==
  /\ d.stamp = 0 /\ e.stamp = 0
  /\ \E part \in BaselineParts : e.shape = d.shape \cup {part}

Stamps(d, e) ==
  /\ d.stamp = 0 /\ e.stamp = 1
  /\ BaselineParts \subseteq d.shape /\ e.shape = d.shape

Climbs(d, e) ==
  /\ d.stamp \in {1, 2} /\ e.stamp = d.stamp + 1
  /\ e.shape = After(d.stamp, d.shape)

LEMMA GrowsEffect ==
  ASSUME IInv, NEW p \in Procs, ApplyBaseline(p)
  PROVE  db' = db \/ Grows(db, db')
<1>1. /\ pc[p] = "baseline" /\ pc[p] \in Working /\ pc[p] \notin InTx
  BY DEF ApplyBaseline, Working, InTx
<1>2. db.stamp = 0 /\ Seen(p) = db /\ db \in Databases
  BY <1>1, SeenIs DEF IInv, TypeOK, Staged, Stage
<1>3. ASSUME NEW e \in BaselineParts, Put(p, [db EXCEPT !.shape = @ \cup {e}])
      PROVE  Grows(db, db')
  <2> DEFINE d == [db EXCEPT !.shape = @ \cup {e}]
  <2>1. d \in Databases /\ d.stamp = 0 /\ d.shape = db.shape \cup {e}
    BY <1>2 DEF Databases, AllParts
  <2>2. db' = d
    BY <1>1, <1>3, <2>1, PutEffect
  <2> HIDE DEF d
  <2> QED BY <1>2, <2>1, <2>2 DEF Grows
<1> QED BY <1>2, <1>3 DEF ApplyBaseline

LEMMA StampsEffect ==
  ASSUME IInv, NEW p \in Procs, StampBaseline(p)
  PROVE  Stamps(db, db')
<1>1. pc[p] = "stampbase" /\ pc[p] \in Working /\ pc[p] \notin InTx
  BY DEF StampBaseline, Working, InTx
<1>2. /\ db.stamp = 0 /\ Seen(p) = db /\ db \in Databases
      /\ BaselineParts \subseteq db.shape
  BY <1>1, SeenIs DEF IInv, TypeOK, Staged, Stage
<1> DEFINE d == [db EXCEPT !.stamp = BaselineVersion]
<1>3. d \in Databases /\ d.stamp = 1 /\ d.shape = db.shape
  BY <1>2 DEF Databases, BaselineVersion, Newer
<1>4. db' = d
  BY <1>1, <1>2, <1>3, PutEffect DEF StampBaseline
<1> HIDE DEF d
<1> QED BY <1>2, <1>3, <1>4 DEF Stamps

\* The only other step that reaches the file is the commit of a ladder step.
LEMMA FileEffect ==
  ASSUME IInv, NEW p \in Procs, Run(p) \/ Die(p)
  PROVE  db' = db \/ Grows(db, db') \/ Stamps(db, db') \/ Climbs(db, db')
<1>1. CASE ApplyBaseline(p) \/ StampBaseline(p)
  BY <1>1, GrowsEffect, StampsEffect
<1>2. CASE Reconcile(p) \/ CreateConfigTable(p) \/ StampStep(p)
  BY <1>2, StatementsWait
<1>3. CASE CommitStep(p)
  BY <1>3, CommitEffect DEF CommitFacts, Climbs
<1>4. CASE Die(p) \/ TakeFence(p) \/ FenceBusy(p) \/ ReadStamp(p) \/ BeginStep(p)
             \/ Reread(p) \/ Witness(p)
  BY <1>4 DEF Die, TakeFence, FenceBusy, ReadStamp, BeginStep, Reread, Witness
<1> QED BY <1>1, <1>2, <1>3, <1>4 DEF Run

\* A step of the ladder takes nothing away.
LEMMA AfterAdds ==
  ASSUME NEW v \in {1, 2}, NEW shape
  PROVE  shape \subseteq After(v, shape)
  BY DEF After, CreateConfig

\* A file of a newer build is never written, by any run or any recovery: only
\* its stamp is read (migrations.rs, run_migrations).
NewerUntouched == [][TooNew(db.stamp) => db' = db]_vars

THEOREM NewerLeftAlone == Spec => NewerUntouched
<1>1. ASSUME IInv, Next, TooNew(db.stamp) PROVE db' = db
  <2>1. db.stamp \notin {0, 1, 2, 3}
    BY <1>1 DEF TooNew, Current
  <2>2. ASSUME NEW p \in Procs, Run(p) \/ Die(p) PROVE db' = db
    BY <1>1, <2>1, <2>2, FileEffect DEF Grows, Stamps, Climbs
  <2>3. ~Operator
    BY <1>1, <2>1, OperatorMoment
       DEF Operator, DropConfig, ResetTheStamp, OperatorFacts, Current
  <2> QED BY <1>1, <2>2, <2>3 DEF Next
<1>2. IInv /\ [Next]_vars => [TooNew(db.stamp) => db' = db]_vars
  BY <1>1
<1> QED BY <1>2, Invariant, PTL DEF Spec, NewerUntouched

\* Whatever the runs do and wherever they die, they take nothing away from the
\* file and never lower its stamp; only the operator does.
RunsOnlyAdd ==
  [][~Operator => db.shape \subseteq db'.shape /\ db.stamp <= db'.stamp]_vars

THEOREM NothingLost == Spec => RunsOnlyAdd
<1>1. ASSUME IInv, Next, ~Operator
      PROVE  db.shape \subseteq db'.shape /\ db.stamp <= db'.stamp
  <2>1. PICK p \in Procs : Run(p) \/ Die(p)
    BY <1>1 DEF Next
  <2>2. db.stamp \in 0 .. 4
    BY <1>1 DEF IInv, TypeOK, Databases, Newer
  <2>3. CASE db' = db
    BY <2>2, <2>3
  <2>4. CASE Grows(db, db') \/ Stamps(db, db')
    BY <2>4 DEF Grows, Stamps
  <2>5. CASE Climbs(db, db')
    BY <2>5, AfterAdds DEF Climbs
  <2> QED BY <1>1, <2>1, <2>3, <2>4, <2>5, FileEffect
<1>2. IInv /\ [Next]_vars => [~Operator => /\ db.shape \subseteq db'.shape
                                          /\ db.stamp <= db'.stamp]_vars
  BY <1>1
<1> QED BY <1>2, Invariant, PTL DEF Spec, RunsOnlyAdd

\* On a file the ladder is meant for no run ends for a reason an operator could
\* not mend: not with the error of the ladder, not with that of a newer build.
RepairableOpens ==
  Repairable => \A p \in Procs : pc[p] \notin {"ladder", "newer"}

THEOREM RepairableEnds == Spec => []RepairableOpens
<1>1. IInv => RepairableOpens
  BY DEF IInv, Ends, End, RepairableOpens, Repairable, BaselineParts, Current, Newer
<1> QED BY <1>1, Invariant, PTL

-----------------------------------------------------------------------------
(* The recovery of a lying stamp is needed once.                            *)

\* The ladder ends on such a file without a gap: what it will not touch again is
\* there, and the config table is whole or does not exist.
Sound ==
  LET columns == db.shape \cap ConfigColumns IN
  /\ Repairable
  /\ columns \in {{}, ConfigColumns}
  /\ db.stamp > 1 => CommentsParts \subseteq db.shape
  /\ db.stamp = Current => columns = ConfigColumns

\* A report names the gaps the file has now.
Reported == hint # {} => hint = GapsOf(db.shape)

LEMMA ReportedStep == IInv /\ Reported /\ [Next]_vars => Reported'
<1> SUFFICES ASSUME IInv, Reported, [Next]_vars PROVE Reported'
  OBVIOUS
<1>1. ASSUME NEW p \in Procs, Run(p) \/ Die(p), hint' = hint PROVE Reported'
  <2>1. CASE hint = {}
    BY <1>1, <2>1 DEF Reported
  <2>2. CASE hint # {}
    <3>1. db.stamp = 3
      BY <2>2 DEF IInv, Hinted, Current
    <3>2. db' = db
      BY <1>1, <3>1, FileEffect DEF Grows, Stamps, Climbs
    <3> QED BY <1>1, <3>2 DEF Reported
  <2> QED BY <2>1, <2>2
<1>2. ASSUME NEW p \in Procs, Run(p) \/ Die(p) PROVE Reported'
  <2>1. CASE Witness(p)
    BY <2>1 DEF Witness, Reported
  <2>2. CASE ~Witness(p)
    <3>1. hint' = hint
      BY <1>2, <2>2
         DEF Run, Die, TakeFence, FenceBusy, ReadStamp, ApplyBaseline, StampBaseline,
             BeginStep, Reconcile, CreateConfigTable, StampStep, CommitStep, Reread
    <3> QED BY <1>1, <1>2, <3>1
  <2> QED BY <2>1, <2>2
<1>3. CASE DropConfig
  <2>1. fence = NoProc /\ hint # {}
    BY <1>3 DEF DropConfig
  <2>2. hint = GapsOf(db.shape) /\ db \in Databases
    BY <2>1, OperatorMoment DEF Reported, OperatorFacts
  <2>3. hint' = (hint \ ConfigColumns) \cup {"config"}
        /\ db'.shape = db.shape \ ConfigColumns
    BY <1>3, <2>2 DEF DropConfig, Databases
  <2>4. GapsOf(db'.shape) = (CommentsParts \ db.shape) \cup {"config"}
    BY <2>3 DEF GapsOf, CommentsParts, ConfigColumns
  <2>5. hint \ ConfigColumns \subseteq (CommentsParts \ db.shape) \cup {"config"}
        /\ CommentsParts \ db.shape \subseteq hint \ ConfigColumns
    BY <2>2 DEF GapsOf, CommentsParts, ConfigColumns
  <2> QED BY <2>3, <2>4, <2>5 DEF Reported
<1>4. CASE ResetTheStamp
  BY <1>4 DEF ResetTheStamp, Reported
<1>5. CASE UNCHANGED vars
  BY <1>5 DEF vars, Reported
<1> QED BY <1>2, <1>3, <1>4, <1>5 DEF Next, Operator

LEMMA ReportsTrue == Spec => []Reported
<1>1. Init => Reported
  BY DEF Init, Reported
<1> QED BY <1>1, ReportedStep, Invariant, PTL DEF Spec

LEMMA SoundQuiet == ASSUME IInv, Sound PROVE hint = {}
  BY DEF IInv, Hinted, Sound, Repairable, Later, Current

\* A run keeps a file repairable, and sound.
LEMMA SoundRuns ==
  ASSUME IInv, NEW p \in Procs, Run(p) \/ Die(p)
  PROVE  (Repairable => Repairable') /\ (Sound => Sound')
<1>1. CASE db' = db
  BY <1>1 DEF Repairable, Sound
<1>2. CASE Grows(db, db')
  <2>1. db'.shape \cap ConfigColumns = db.shape \cap ConfigColumns
    BY <1>2 DEF Grows, BaselineParts, ConfigColumns
  <2> QED BY <1>2, <2>1 DEF Grows, Repairable, Sound, Current
<1>3. CASE Stamps(db, db')
  BY <1>3 DEF Stamps, Repairable, Sound, Current
<1>4. CASE Climbs(db, db')
  <2>1. db.shape \subseteq db'.shape /\ db.stamp \in {1, 2} /\ db'.stamp = db.stamp + 1
    BY <1>4, AfterAdds DEF Climbs
  <2>2. Repairable => Repairable'
    BY <2>1 DEF Repairable, Current
  <2>3. CASE db.stamp = 1
    <3>1. db'.shape = db.shape \cup CommentsParts
      BY <1>4, <2>3 DEF Climbs, After
    <3>2. db'.shape \cap ConfigColumns = db.shape \cap ConfigColumns
      BY <3>1 DEF CommentsParts, ConfigColumns
    <3> QED BY <2>1, <2>2, <2>3, <3>1, <3>2 DEF Sound, Current
  <2>4. CASE db.stamp = 2
    <3>1. db'.shape = CreateConfig(db.shape)
      BY <1>4, <2>4 DEF Climbs, After
    <3>2. Sound => db'.shape \cap ConfigColumns = ConfigColumns
      BY <3>1 DEF Sound, CreateConfig
    <3> QED BY <2>1, <2>2, <2>4, <3>2 DEF Sound
  <2> QED BY <2>1, <2>3, <2>4
<1> QED BY <1>1, <1>2, <1>3, <1>4, FileEffect

\* The stamp an operator writes is the one from which the ladder fills every gap.
LEMMA ResetSound ==
  ASSUME IInv, Reported, Repairable, ResetTheStamp
  PROVE  Sound'
<1>1. fence = NoProc /\ hint # {} /\ ~DropsConfig(hint)
  BY DEF ResetTheStamp
<1>2. hint = GapsOf(db.shape) /\ db \in Databases /\ db.stamp = 3
  BY <1>1, OperatorMoment DEF Reported, OperatorFacts, Current
<1>3. PICK gap \in hint : /\ \A g \in hint : ResetStamp(gap) <= ResetStamp(g)
                         /\ db' = [db EXCEPT !.stamp = ResetStamp(gap)]
  BY DEF ResetTheStamp
<1>4. db'.shape = db.shape /\ db'.stamp = ResetStamp(gap)
  BY <1>2, <1>3 DEF Databases
<1>5. db.shape \cap ConfigColumns \in {{}, ConfigColumns}
  BY <1>1, <1>2 DEF DropsConfig, GapsOf
<1>6. ResetStamp(gap) \in {1, 2}
  BY DEF ResetStamp, BaselineVersion, CommentsStep
<1>7. ResetStamp(gap) = 2 => CommentsParts \subseteq db.shape
  <2>1. SUFFICES ASSUME NEW g \in CommentsParts, g \notin db.shape PROVE ResetStamp(gap) <= 1
    BY <1>6
  <2>2. g \in hint
    BY <1>2, <2>1 DEF GapsOf
  <2>3. ResetStamp(g) = 1
    BY DEF ResetStamp, BaselineVersion
  <2> QED BY <1>3, <2>2, <2>3
<1> QED BY <1>2, <1>4, <1>5, <1>6, <1>7 DEF Sound, Repairable, Current

\* One recovery is enough.  Once the operator has carried out what a report of a
\* lying stamp asks for, and whatever dies from then on, the file stays one on
\* which no run finds a gap again (migrations.rs, the recovery of the sentinel's
\* error); and a file that can be repaired stays one.
RecoveryOnce ==
  [][Repairable => Repairable' /\ (Sound \/ ResetTheStamp => Sound')]_vars

THEOREM RecoveryLasts == Spec => RecoveryOnce /\ [](Sound => hint = {})
<1>1. ASSUME IInv, Reported, Next, Repairable
      PROVE  Repairable' /\ (Sound \/ ResetTheStamp => Sound')
  <2>1. ASSUME NEW p \in Procs, Run(p) \/ Die(p)
        PROVE  Repairable' /\ (Sound \/ ResetTheStamp => Sound')
    <3>1. ~ResetTheStamp \/ Sound'
      BY <1>1, ResetSound
    <3> QED BY <1>1, <2>1, <3>1, SoundRuns
  <2>2. CASE DropConfig
    <3>1. fence = NoProc /\ hint # {} /\ ~ResetTheStamp
      BY <2>2 DEF DropConfig, ResetTheStamp
    <3>2. ~Sound /\ db \in Databases
      BY <1>1, <3>1, SoundQuiet, OperatorMoment DEF OperatorFacts
    <3>3. db'.stamp = db.stamp /\ db'.shape = db.shape \ ConfigColumns
      BY <2>2, <3>2 DEF DropConfig, Databases
    <3>4. Repairable'
      BY <1>1, <3>3 DEF Repairable, BaselineParts, ConfigColumns
    <3> QED BY <3>1, <3>2, <3>4
  <2>3. CASE ResetTheStamp
    BY <1>1, <2>3, ResetSound DEF Sound
  <2> QED BY <1>1, <2>1, <2>2, <2>3 DEF Next, Operator
<1>2. IInv /\ Reported /\ [Next]_vars =>
        [Repairable => Repairable' /\ (Sound \/ ResetTheStamp => Sound')]_vars
  BY <1>1
<1>3. IInv => (Sound => hint = {})
  BY SoundQuiet
<1> QED BY <1>2, <1>3, Invariant, ReportsTrue, PTL DEF Spec, RecoveryOnce
=============================================================================
