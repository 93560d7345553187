--------------------------- MODULE IssueLifecycle ---------------------------
(***************************************************************************)
(* The life of an issue's row: status, closed_at and assignee, the table's  *)
(* CHECK on them, and what the audit events written beside each change say. *)
(* Every action is one transaction under the write lock (WriteLock.tla).    *)
(* A refused call changes nothing and is not an action.                     *)
(***************************************************************************)
EXTENDS Naturals

CONSTANTS
  Issue,   \* issue ids
  Actor,   \* names a caller may claim or assign under
  Nobody,  \* assignee NULL (or '', which is loaded as NULL)
  Blank,   \* an assignee of white space only, which TRIM makes ''
  Keep,    \* a patch field that is not given
  NoRow    \* no row has the id

Holder == Actor \cup {Nobody, Blank}

\* "open" stands for every status that is neither in_progress nor terminal.
Status == {"open", "in_progress", "closed", "tombstone"}
Terminal == {"closed", "tombstone"}

Row == [status : Status, closedAt : BOOLEAN, assignee : Holder]

\* What a reader of the events knows: the last lifecycle event, the status it
\* leaves the issue in, the one before a deletion, and the assignee.
Trail == [event : {"created", "changed", "restored"},
          now : Status, prev : Status, holder : Holder]

ASSUME LifecycleAssumption ==
  /\ Nobody \notin Actor /\ Blank \notin Actor /\ Nobody # Blank
  /\ Keep \notin Status \cup Holder
  /\ NoRow \notin Row \cup Trail

VARIABLES
  row,      \* the issues table
  trail,    \* the events table, as a reader replays it
  before,   \* history: status when the row last became a tombstone
  winners   \* history: who was told Ok by claim since the row was inserted or
            \* last given an assignee by an update

vars == <<row, trail, before, winners>>

TypeOK ==
  /\ row \in [Issue -> Row \cup {NoRow}]
  /\ trail \in [Issue -> Trail \cup {NoRow}]
  /\ \A i \in Issue : row[i] = NoRow <=> trail[i] = NoRow
  /\ before \in [Issue -> Status]
  /\ winners \in [Issue -> SUBSET (Actor \cup {Blank})]

Init ==
  /\ row = [i \in Issue |-> NoRow]
  /\ trail = [i \in Issue |-> NoRow]
  /\ before = [i \in Issue |-> "open"]
  /\ winners = [i \in Issue |-> {}]

Present == {i \in Issue : row[i] # NoRow}

\* The CHECK of the issues table, and the validator's closed-state rule.
CheckOK(s, closedAt) ==
  \/ s = "closed" /\ closedAt
  \/ s = "tombstone"
  \/ s \notin Terminal /\ ~closedAt

Record == {r \in Row : CheckOK(r.status, r.closedAt)}

-----------------------------------------------------------------------------
(* Events.                                                                 *)

\* created: the events of a row begin with the record it was inserted from.
Opening(r) == [event |-> "created", now |-> r.status, holder |-> r.assignee,
               prev |-> IF r.closedAt THEN "closed" ELSE "open"]

\* status_changed, closed, reopened, deleted.
Tell(t, s) ==
  [t EXCEPT !.event = "changed", !.now = s,
            !.prev = IF s = "tombstone" THEN t.now ELSE s]

\* restored: back to closed if that is what the events last said, else open.
TellRestored(t) ==
  LET last == IF t.now = "tombstone" THEN t.prev ELSE t.now
      s == IF last = "closed" THEN "closed" ELSE "open"
  IN [t EXCEPT !.event = "restored", !.now = s, !.prev = s]

-----------------------------------------------------------------------------
(* Inserting.                                                              *)

\* The records of new ids are inserted, an id that has a row is left alone.
Insert(recs) ==
  LET new == {i \in DOMAIN recs : row[i] = NoRow} IN
  /\ row' = [i \in Issue |-> IF i \in new THEN recs[i] ELSE row[i]]
  /\ trail' = [i \in Issue |-> IF i \in new THEN Opening(recs[i]) ELSE trail[i]]
  /\ before' = [i \in Issue |-> IF i \in new THEN Opening(recs[i]).prev
                                             ELSE before[i]]
  /\ winners' = [i \in Issue |-> IF i \in new THEN {} ELSE winners[i]]

\* create_issue: a new issue is open.
Create(i, h) ==
  /\ row[i] = NoRow
  /\ Insert([j \in {i} |-> [status |-> "open", closedAt |-> FALSE,
                            assignee |-> h]])

\* import_jsonl and import_bd under the only policy the Session uses, Skip.
Import(recs) == Insert(recs)

-----------------------------------------------------------------------------
(* Updating and closing.                                                   *)

\* Faulty: deleting by a patch forgets that the issue was closed.
PatchedForgetting(r, s) ==
  IF s \in {Keep, r.status} THEN r
  ELSE [r EXCEPT !.status = s, !.closedAt = s = "closed"]

\* Faulty: a status that is not terminal does not clear closed_at.
PatchedUncleared(r, s) ==
  IF s \in {Keep, r.status} THEN r
  ELSE [r EXCEPT !.status = s, !.closedAt = @ \/ s = "closed"]

\* The status part of apply_patch: closed_at follows the status, except that a
\* tombstone keeps what it had.
Patched(r, s) ==
  IF s \in {Keep, r.status} THEN r
  ELSE [r EXCEPT !.status = s,
                 !.closedAt = s = "closed" \/ (s = "tombstone" /\ @)]

\* Faulty: a patch without an assignee assigns the marker.
AssignedLiteral(r, h) == [r EXCEPT !.assignee = h]

Assigned(r, h) == IF h = Keep THEN r ELSE [r EXCEPT !.assignee = h]

\* update_issue; close and reopen are updates to closed and to open.
Update(i, s, h) ==
  LET r == row[i]
      told == IF s \in {Keep, r.status} THEN trail[i] ELSE Tell(trail[i], s)
  IN /\ i \in Present /\ r.status # "tombstone"
     /\ row' = [row EXCEPT ![i] = Assigned(Patched(r, s), h)]
     /\ trail' = [trail EXCEPT ![i] =
                    IF h = Keep THEN told ELSE [told EXCEPT !.holder = h]]
     /\ before' = IF s = "tombstone" THEN [before EXCEPT ![i] = r.status]
                                     ELSE before
     /\ winners' = IF h \in {Keep, r.assignee} THEN winners
                                               ELSE [winners EXCEPT ![i] = {}]

\* close_issues (close_eligible): all or none; terminal rows are skipped.
CloseAll(T) ==
  LET open == {i \in T : row[i].status \notin Terminal} IN
  /\ row' = [i \in Issue |-> IF i \in open THEN Patched(row[i], "closed")
                                           ELSE row[i]]
  /\ trail' = [i \in Issue |-> IF i \in open THEN Tell(trail[i], "closed")
                                             ELSE trail[i]]
  /\ UNCHANGED <<before, winners>>

-----------------------------------------------------------------------------
(* Claiming.                                                               *)

\* Faulty: an issue that nobody is working on may be claimed.
VacantByStatus(r) == r.status # "in_progress"

Vacant(r) == r.assignee \in {Nobody, Blank}

\* claim_issue: the present holder is told Ok and nothing is written; the
\* update is guarded by the assignee alone, so a deleted issue may be claimed,
\* and one that has closed_at is refused by the CHECK.
Claim(i, a) ==
  LET r == row[i] IN
  /\ i \in Present
  /\ winners' = [winners EXCEPT ![i] = @ \cup {a}]
  /\ UNCHANGED before
  /\ \/ r.assignee = a /\ UNCHANGED <<row, trail>>
     \/ /\ r.assignee # a
        /\ Vacant(r)
        /\ CheckOK("in_progress", r.closedAt)
        /\ row' = [row EXCEPT ![i].status = "in_progress", ![i].assignee = a]
        /\ trail' = [trail EXCEPT ![i] =
                       [Tell(@, "in_progress") EXCEPT !.holder = a]]

-----------------------------------------------------------------------------
(* Deleting and restoring.                                                 *)

\* A deleted event is written only for a row that was not terminal.
TellDeleted(r, t) == IF r.status \in Terminal THEN t ELSE Tell(t, "tombstone")

\* delete_issue, modes tombstone and cascade: all or none; a tombstone is left.
Delete(T) ==
  LET live == {i \in T : row[i].status # "tombstone"} IN
  /\ row' = [i \in Issue |-> IF i \in live
                               THEN [row[i] EXCEPT !.status = "tombstone"]
                               ELSE row[i]]
  /\ trail' = [i \in Issue |-> IF i \in live THEN TellDeleted(row[i], trail[i])
                                             ELSE trail[i]]
  /\ before' = [i \in Issue |-> IF i \in live THEN row[i].status
                                              ELSE before[i]]
  /\ UNCHANGED winners

\* delete_issue, mode hard: the events go with the row.
HardDelete(T) ==
  /\ row' = [i \in Issue |-> IF i \in T THEN NoRow ELSE row[i]]
  /\ trail' = [i \in Issue |-> IF i \in T THEN NoRow ELSE trail[i]]
  /\ before' = [i \in Issue |-> IF i \in T THEN "open" ELSE before[i]]
  /\ winners' = [i \in Issue |-> IF i \in T THEN {} ELSE winners[i]]

\* restore_issue: closed_at is all that is left of the status.
Restore(i) ==
  /\ i \in Present /\ row[i].status = "tombstone"
  /\ row' = [row EXCEPT ![i].status = IF row[i].closedAt THEN "closed" ELSE "open"]
  /\ trail' = [trail EXCEPT ![i] = TellRestored(@)]
  /\ UNCHANGED <<before, winners>>

-----------------------------------------------------------------------------
Next ==
  \/ \E i \in Issue, h \in Holder : Create(i, h)
  \/ \E R \in SUBSET Issue : \E recs \in [R -> Record] : Import(recs)
  \/ \E i \in Issue, s \in Status \cup {Keep}, h \in Holder \cup {Keep} :
       Update(i, s, h)
  \/ \E T \in SUBSET Present : CloseAll(T) \/ Delete(T) \/ HardDelete(T)
  \/ \E i \in Issue, a \in Actor \cup {Blank} : Claim(i, a)
  \/ \E i \in Issue : Restore(i)

Spec == Init /\ [][Next]_vars

-----------------------------------------------------------------------------
(* Properties.                                                             *)

\* Every row satisfies the CHECK of the table although only claim relies on
\* being refused by it: updates, deletions, restores and imports keep closed_at
\* and status in step by themselves, whatever their order.
Coherent ==
  \A i \in Present : CheckOK(row[i].status, row[i].closedAt)

\* Replaying the events of an issue gives its status and its assignee; the one
\* exception is a closed issue that was deleted, which leaves no event (and the
\* replay is right again after it is restored).
AuditTruthful ==
  \A i \in Present :
    /\ trail[i].holder = row[i].assignee
    /\ \/ trail[i].now = row[i].status
       \/ trail[i].now = "closed" /\ row[i].status = "tombstone"

\* Of the actors who claim an issue under a name, at most one has been told it
\* won since the issue was last handed out, and it is the one the row names,
\* whatever closings, deletions and restores came between.
OneHolder ==
  \A i \in Present : winners[i] \ {Blank} \subseteq {row[i].assignee}

\* restore brings a deleted issue back to closed if it was closed when it was
\* deleted, by whichever of the three ways, and to open otherwise (D20).
RestoreReturns ==
  [][\A i \in Issue : Restore(i) =>
       row'[i].status = IF before[i] = "closed" THEN "closed" ELSE "open"]_vars

\* The documentation's claim that restore is the dedicated way from tombstone
\* back to an active status.
LeavesByRestore ==
  [][\A i \in Issue :
       /\ row[i] # NoRow /\ row'[i] # NoRow
       /\ row[i].status = "tombstone" /\ row'[i].status # "tombstone"
       => trail'[i].event = "restored"]_vars
=============================================================================
