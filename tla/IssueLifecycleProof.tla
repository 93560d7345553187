------------------------ MODULE IssueLifecycleProof ------------------------
(***************************************************************************)
(* Theorems about IssueLifecycle, for any issues and actors.  Issues do    *)
(* not interact, so the invariant speaks of one issue: its row, its        *)
(* replayed events and its histories.  RowInv adds to the properties what  *)
(* makes them inductive: a deleted row has closed_at exactly if it was      *)
(* closed, and its events tell the same.                                   *)
(***************************************************************************)
EXTENDS IssueLifecycle, TLAPS

Names == Actor \cup {Blank}

RowInv(r, t, b, w) ==
  /\ CheckOK(r.status, r.closedAt)
  /\ t.holder = r.assignee
  /\ w \ {Blank} \subseteq {r.assignee}
  /\ t.now = r.status \/ (t.now = "closed" /\ r.status = "tombstone")
  /\ r.status = "tombstone" =>
       /\ r.closedAt <=> b = "closed"
       /\ t.now = "closed" => r.closedAt
       /\ t.now = "tombstone" => (t.prev = "closed" <=> r.closedAt)

\* No row, or a row that is right.
IssueInv(r, t, b, w) ==
  /\ \/ r = NoRow /\ t = NoRow
     \/ r \in Row /\ t \in Trail /\ RowInv(r, t, b, w)
  /\ b \in Status /\ w \in SUBSET Names

Table(R, T, B, W) ==
  /\ R \in [Issue -> Row \cup {NoRow}] /\ T \in [Issue -> Trail \cup {NoRow}]
  /\ B \in [Issue -> Status] /\ W \in [Issue -> SUBSET Names]
  /\ \A i \in Issue : IssueInv(R[i], T[i], B[i], W[i])

IInv == Table(row, trail, before, winners)

-----------------------------------------------------------------------------
(* One issue.                                                              *)

\* A patch turns a row into a row, and its events into events.
LEMMA PatchedType ==
  ASSUME NEW r \in Row, NEW s \in Status \cup {Keep},
         NEW h \in Holder \cup {Keep}
  PROVE  Assigned(Patched(r, s), h) \in Row
<1>1. ASSUME NEW p \in Row PROVE Assigned(p, h) \in Row
  BY DEF Assigned, Row
<1>2. CASE s \in {Keep, r.status}
  BY <1>1, <1>2 DEF Patched
<1>3. CASE s \notin {Keep, r.status}
  <2> DEFINE p == [r EXCEPT !.status = s,
                            !.closedAt = s = "closed" \/ (s = "tombstone" /\ @)]
  <2>1. p \in Row
    BY <1>3 DEF Row
  <2>2. Patched(r, s) = p
    BY <1>3 DEF Patched
  <2> QED BY <1>1, <2>1, <2>2
<1> QED BY <1>2, <1>3

LEMMA TellType ==
  ASSUME NEW t \in Trail, NEW s \in Status
  PROVE  /\ Tell(t, s) \in Trail /\ Tell(t, s).now = s
         /\ Tell(t, s).holder = t.holder
         /\ Tell(t, s).prev = IF s = "tombstone" THEN t.now ELSE s
  BY DEF Tell, Trail

LEMMA RestoredType ==
  ASSUME NEW t \in Trail
  PROVE  /\ TellRestored(t) \in Trail
         /\ TellRestored(t).holder = t.holder
         /\ TellRestored(t).now =
              IF (IF t.now = "tombstone" THEN t.prev ELSE t.now) = "closed"
                THEN "closed" ELSE "open"
  BY DEF TellRestored, Trail, Status

\* The fields of a patched row.
LEMMA PatchedFields ==
  ASSUME NEW r \in Row, NEW s \in Status \cup {Keep}
  PROVE  /\ Patched(r, s).assignee = r.assignee
         /\ s \in {Keep, r.status} => Patched(r, s) = r
         /\ s \notin {Keep, r.status} =>
              /\ Patched(r, s).status = s
              /\ Patched(r, s).closedAt =
                   (s = "closed" \/ (s = "tombstone" /\ r.closedAt))
  BY DEF Patched, Row

LEMMA AssignedFields ==
  ASSUME NEW r \in Row, NEW h \in Holder \cup {Keep}
  PROVE  /\ Assigned(r, h).status = r.status
         /\ Assigned(r, h).closedAt = r.closedAt
         /\ Assigned(r, h).assignee = IF h = Keep THEN r.assignee ELSE h
  BY DEF Assigned, Row

\* An update keeps the invariant of its issue.
LEMMA UpdateInv ==
  ASSUME NEW r \in Row, NEW t \in Trail, NEW b \in Status, NEW w \in SUBSET Names,
         NEW s \in Status \cup {Keep}, NEW h \in Holder \cup {Keep},
         RowInv(r, t, b, w), r.status # "tombstone"
  PROVE  LET told == IF s \in {Keep, r.status} THEN t ELSE Tell(t, s)
         IN  RowInv(Assigned(Patched(r, s), h),
                    IF h = Keep THEN told ELSE [told EXCEPT !.holder = h],
                    IF s = "tombstone" THEN r.status ELSE b,
                    IF h \in {Keep, r.assignee} THEN w ELSE {})
<1> DEFINE told == IF s \in {Keep, r.status} THEN t ELSE Tell(t, s)
           p == Patched(r, s)
           q == Assigned(p, h)
           u == IF h = Keep THEN told ELSE [told EXCEPT !.holder = h]
           c == IF s = "tombstone" THEN r.status ELSE b
           v == IF h \in {Keep, r.assignee} THEN w ELSE {}
<1>1. p \in Row /\ p.assignee = r.assignee
  <2>1. Assigned(p, Keep) = p
    BY DEF Assigned
  <2> QED BY PatchedType, PatchedFields, <2>1
<1>2. told \in Trail /\ told.holder = t.holder
  BY TellType
<1>3. /\ q.status = p.status /\ q.closedAt = p.closedAt
      /\ q.assignee = IF h = Keep THEN r.assignee ELSE h
  <2> HIDE DEF p
  <2> QED BY <1>1, AssignedFields
<1>4. /\ u.now = told.now /\ u.prev = told.prev
      /\ u.holder = IF h = Keep THEN t.holder ELSE h
  <2> HIDE DEF told
  <2> QED BY <1>2 DEF Trail
<1>5. Keep \notin Status /\ r.status \in Status /\ r.closedAt \in BOOLEAN
  BY LifecycleAssumption DEF Row
<1>6. /\ CheckOK(p.status, p.closedAt)
      /\ told.now = p.status \/ (told.now = "closed" /\ p.status = "tombstone")
      /\ p.status = "tombstone" =>
           /\ p.closedAt <=> c = "closed"
           /\ told.now = "closed" => p.closedAt
           /\ told.now = "tombstone" => (told.prev = "closed" <=> p.closedAt)
  <2>1. CASE s \in {Keep, r.status}
    BY <2>1, <1>5, PatchedFields DEF RowInv
  <2>2. CASE s \notin {Keep, r.status}
    <3>1. /\ p.status = s
          /\ p.closedAt = (s = "closed" \/ (s = "tombstone" /\ r.closedAt))
      BY <2>2, PatchedFields
    <3>2. s \in Status
      BY <2>2
    <3>3. /\ told.now = s
          /\ told.prev = IF s = "tombstone" THEN t.now ELSE s
      BY <2>2, <3>2, TellType
    <3>4. r.closedAt <=> r.status = "closed"
      BY <1>5 DEF RowInv, CheckOK, Terminal, Status
    <3>5. t.now = r.status
      BY DEF RowInv
    <3> HIDE DEF p, told
    <3> QED BY <3>1, <3>2, <3>3, <3>4, <3>5 DEF CheckOK, Terminal, Status
  <2> QED BY <2>1, <2>2
<1>7. v \ {Blank} \subseteq {q.assignee}
  BY <1>3 DEF RowInv
<1>8. u.holder = q.assignee
  BY <1>3, <1>4 DEF RowInv
<1> HIDE DEF p, q, u, c, v, told
<1>9. RowInv(q, u, c, v)
  BY <1>3, <1>4, <1>6, <1>7, <1>8 DEF RowInv
<1> QED BY <1>9 DEF p, q, u, c, v, told

\* A freshly inserted record satisfies it.
LEMMA OpeningInv ==
  ASSUME NEW r \in Record
  PROVE  /\ r \in Row /\ Opening(r) \in Trail /\ Opening(r).prev \in Status
         /\ RowInv(r, Opening(r), Opening(r).prev, {})
<1>1. r \in Row /\ CheckOK(r.status, r.closedAt) /\ r.closedAt \in BOOLEAN
  BY DEF Record, Row
<1>2. Opening(r) \in Trail
  BY <1>1 DEF Opening, Trail, Row, Status
<1>3. /\ Opening(r).now = r.status /\ Opening(r).holder = r.assignee
      /\ Opening(r).prev = IF r.closedAt THEN "closed" ELSE "open"
  BY DEF Opening
<1> QED BY <1>1, <1>2, <1>3 DEF RowInv, CheckOK, Terminal, Status

\* A deletion of a row that is not deleted keeps it.
LEMMA DeleteInv ==
  ASSUME NEW r \in Row, NEW t \in Trail, NEW b \in Status, NEW w \in SUBSET Names,
         RowInv(r, t, b, w), r.status # "tombstone"
  PROVE  LET d == [r EXCEPT !.status = "tombstone"]
         IN  /\ d \in Row /\ TellDeleted(r, t) \in Trail
             /\ RowInv(d, TellDeleted(r, t), r.status, w)
<1> DEFINE d == [r EXCEPT !.status = "tombstone"]
           u == TellDeleted(r, t)
<1>1. /\ d \in Row /\ d.status = "tombstone"
      /\ d.closedAt = r.closedAt /\ d.assignee = r.assignee
  BY DEF Row, Status
<1>2. "tombstone" \in Status
  BY DEF Status
<1>3. /\ u \in Trail /\ u.holder = t.holder
      /\ u.now = IF r.status \in Terminal THEN t.now ELSE "tombstone"
      /\ r.status \notin Terminal => u.prev = t.now
  BY <1>2, TellType DEF TellDeleted
<1>4. r.closedAt \in BOOLEAN /\ (r.closedAt <=> r.status = "closed")
  BY DEF RowInv, CheckOK, Terminal, Row, Status
<1>5. t.now = r.status /\ t.holder = r.assignee /\ w \ {Blank} \subseteq {r.assignee}
  BY DEF RowInv
<1> HIDE DEF d, u
<1>6. RowInv(d, u, r.status, w)
  BY <1>1, <1>3, <1>4, <1>5 DEF RowInv, CheckOK, Terminal
<1> QED BY <1>1, <1>3, <1>6 DEF d, u

\* A restoration keeps it.
LEMMA RestoreInv ==
  ASSUME NEW r \in Row, NEW t \in Trail, NEW b \in Status, NEW w \in SUBSET Names,
         RowInv(r, t, b, w), r.status = "tombstone"
  PROVE  LET d == [r EXCEPT !.status = IF r.closedAt THEN "closed" ELSE "open"]
         IN  d \in Row /\ RowInv(d, TellRestored(t), b, w)
<1> DEFINE d == [r EXCEPT !.status = IF r.closedAt THEN "closed" ELSE "open"]
           u == TellRestored(t)
<1>1. /\ d \in Row /\ d.status = IF r.closedAt THEN "closed" ELSE "open"
      /\ d.closedAt = r.closedAt /\ d.assignee = r.assignee
      /\ r.closedAt \in BOOLEAN
  BY DEF Row, Status
<1>2. /\ u.holder = t.holder
      /\ u.now = IF (IF t.now = "tombstone" THEN t.prev ELSE t.now) = "closed"
                   THEN "closed" ELSE "open"
  BY RestoredType
<1> HIDE DEF d, u
<1>3. RowInv(d, u, b, w)
  BY <1>1, <1>2 DEF RowInv, CheckOK, Terminal
<1> QED BY <1>1, <1>3 DEF d, u

\* A claim that writes keeps it.
LEMMA ClaimInv ==
  ASSUME NEW r \in Row, NEW t \in Trail, NEW b \in Status, NEW w \in SUBSET Names,
         NEW a \in Names, RowInv(r, t, b, w),
         Vacant(r), CheckOK("in_progress", r.closedAt)
  PROVE  LET d == [r EXCEPT !.status = "in_progress", !.assignee = a]
             u == [Tell(t, "in_progress") EXCEPT !.holder = a]
         IN  d \in Row /\ u \in Trail /\ RowInv(d, u, b, w \cup {a})
<1> DEFINE d == [r EXCEPT !.status = "in_progress", !.assignee = a]
           k == Tell(t, "in_progress")
           u == [k EXCEPT !.holder = a]
<1>1. /\ d \in Row /\ d.status = "in_progress"
      /\ d.closedAt = r.closedAt /\ d.assignee = a
  BY DEF Row, Status, Holder, Names
<1>2. k \in Trail /\ k.now = "in_progress"
  BY TellType DEF Status
<1>3. u \in Trail /\ u.now = "in_progress" /\ u.holder = a
  <2> HIDE DEF k
  <2> QED BY <1>2 DEF Trail, Holder, Names
<1>4. w \ {Blank} = {}
  BY LifecycleAssumption DEF RowInv, Vacant, Names
<1> HIDE DEF d, u
<1>5. RowInv(d, u, b, w \cup {a})
  BY <1>1, <1>3, <1>4 DEF RowInv, CheckOK
<1> QED BY <1>1, <1>3, <1>5 DEF d, u

-----------------------------------------------------------------------------
(* The whole table.                                                        *)

\* Functions over Issue that are right for every issue make a table.
LEMMA Assemble ==
  ASSUME NEW R, NEW T, NEW B, NEW W,
         R = [i \in Issue |-> R[i]], T = [i \in Issue |-> T[i]],
         B = [i \in Issue |-> B[i]], W = [i \in Issue |-> W[i]],
         \A i \in Issue : IssueInv(R[i], T[i], B[i], W[i])
  PROVE  Table(R, T, B, W)
<1>1. \A i \in Issue : /\ R[i] \in Row \cup {NoRow} /\ T[i] \in Trail \cup {NoRow}
                       /\ B[i] \in Status /\ W[i] \in SUBSET Names
  BY DEF IssueInv
<1>2. R \in [Issue -> Row \cup {NoRow}] /\ T \in [Issue -> Trail \cup {NoRow}]
  BY <1>1
<1>3. B \in [Issue -> Status] /\ W \in [Issue -> SUBSET Names]
  BY <1>1
<1> QED BY <1>2, <1>3 DEF Table

\* What the invariant says of an issue that has a row.
LEMMA OfPresent ==
  ASSUME IInv, NEW i \in Issue
  PROVE  /\ IssueInv(row[i], trail[i], before[i], winners[i])
         /\ i \in Present => /\ row[i] \in Row /\ trail[i] \in Trail
                             /\ before[i] \in Status
                             /\ winners[i] \in SUBSET Names
                             /\ RowInv(row[i], trail[i], before[i], winners[i])
  BY DEF IInv, Table, IssueInv, Present

LEMMA InsertStep ==
  ASSUME IInv, NEW R \in SUBSET Issue, NEW recs \in [R -> Record], Insert(recs)
  PROVE  IInv'
<1> DEFINE new == {i \in DOMAIN recs : row[i] = NoRow}
<1>1. ASSUME NEW i \in Issue
      PROVE  IssueInv(row'[i], trail'[i], before'[i], winners'[i])
  <2>1. CASE i \in new
    <3>1. recs[i] \in Record
      BY <2>1
    <3>2. /\ row'[i] = recs[i] /\ trail'[i] = Opening(recs[i])
          /\ before'[i] = Opening(recs[i]).prev /\ winners'[i] = {}
      BY <2>1 DEF Insert
    <3> QED BY <3>1, <3>2, OpeningInv DEF IssueInv
  <2>2. CASE i \notin new
    <3>1. /\ row'[i] = row[i] /\ trail'[i] = trail[i]
          /\ before'[i] = before[i] /\ winners'[i] = winners[i]
      BY <2>2 DEF Insert
    <3> QED BY <3>1, OfPresent
  <2> QED BY <2>1, <2>2
<1>2. /\ row' = [i \in Issue |-> row'[i]] /\ trail' = [i \in Issue |-> trail'[i]]
      /\ before' = [i \in Issue |-> before'[i]]
      /\ winners' = [i \in Issue |-> winners'[i]]
  BY DEF Insert
<1> QED BY <1>1, <1>2, Assemble DEF IInv

\* A step that touches one issue keeps the rest of the table.
LEMMA OneIssue ==
  ASSUME IInv, NEW i \in Issue, NEW r, NEW t, NEW b, NEW w,
         row' = [row EXCEPT ![i] = r], trail' = [trail EXCEPT ![i] = t],
         before' = [before EXCEPT ![i] = b], winners' = [winners EXCEPT ![i] = w],
         IssueInv(r, t, b, w)
  PROVE  IInv'
<1>1. ASSUME NEW j \in Issue
      PROVE  IssueInv(row'[j], trail'[j], before'[j], winners'[j])
  BY OfPresent DEF IInv, Table
<1>2. /\ row' = [j \in Issue |-> row'[j]] /\ trail' = [j \in Issue |-> trail'[j]]
      /\ before' = [j \in Issue |-> before'[j]]
      /\ winners' = [j \in Issue |-> winners'[j]]
  BY DEF IInv, Table
<1> QED BY <1>1, <1>2, Assemble DEF IInv

LEMMA UpdateStep ==
  ASSUME IInv, NEW i \in Issue, NEW s \in Status \cup {Keep},
         NEW h \in Holder \cup {Keep}, Update(i, s, h)
  PROVE  IInv'
<1> DEFINE r == row[i]
           told == IF s \in {Keep, r.status} THEN trail[i] ELSE Tell(trail[i], s)
           q == Assigned(Patched(r, s), h)
           u == IF h = Keep THEN told ELSE [told EXCEPT !.holder = h]
           c == IF s = "tombstone" THEN r.status ELSE before[i]
           v == IF h \in {Keep, r.assignee} THEN winners[i] ELSE {}
<1>1. /\ r \in Row /\ trail[i] \in Trail /\ before[i] \in Status
      /\ winners[i] \in SUBSET Names /\ r.status # "tombstone"
      /\ RowInv(r, trail[i], before[i], winners[i])
  BY OfPresent DEF Update
<1>2. RowInv(q, u, c, v)
  BY <1>1, UpdateInv
<1>3. q \in Row
  BY <1>1, PatchedType
<1>4. told \in Trail
  BY <1>1, TellType
<1>5. u \in Trail
  <2> HIDE DEF told
  <2> QED BY <1>4 DEF Trail
<1>6. c \in Status /\ v \in SUBSET Names
  BY <1>1 DEF Row
<1>7. IssueInv(q, u, c, v)
  BY <1>2, <1>3, <1>5, <1>6 DEF IssueInv
<1>8. /\ row' = [row EXCEPT ![i] = q] /\ trail' = [trail EXCEPT ![i] = u]
  BY DEF Update
<1>9. /\ before' = [before EXCEPT ![i] = c] /\ winners' = [winners EXCEPT ![i] = v]
  BY DEF Update, IInv, Table
<1> HIDE DEF q, u, c, v
<1> QED BY <1>7, <1>8, <1>9, OneIssue

\* Closing is an update with nothing else in the patch.
LEMMA CloseInv ==
  ASSUME NEW r \in Row, NEW t \in Trail, NEW b \in Status, NEW w \in SUBSET Names,
         RowInv(r, t, b, w), r.status \notin Terminal
  PROVE  RowInv(Patched(r, "closed"), Tell(t, "closed"), b, w)
<1> DEFINE s == "closed"
           h == Keep
           told == IF s \in {Keep, r.status} THEN t ELSE Tell(t, s)
<1>1. s \in Status /\ h \in Holder \cup {Keep} /\ r.status # "tombstone"
  BY DEF Status, Terminal
<1>2. RowInv(Assigned(Patched(r, s), h),
             IF h = Keep THEN told ELSE [told EXCEPT !.holder = h],
             IF s = "tombstone" THEN r.status ELSE b,
             IF h \in {Keep, r.assignee} THEN w ELSE {})
  <2> HIDE DEF s, h
  <2> QED BY <1>1, UpdateInv DEF told
<1>3. Assigned(Patched(r, s), h) = Patched(r, s)
  BY DEF Assigned
<1>4. told = Tell(t, s)
  BY LifecycleAssumption DEF Terminal, Status
<1> QED BY <1>2, <1>3, <1>4

LEMMA CloseAllStep ==
  ASSUME IInv, NEW T \in SUBSET Present, CloseAll(T)
  PROVE  IInv'
<1> DEFINE open == {i \in T : row[i].status \notin Terminal}
<1>1. ASSUME NEW i \in Issue
      PROVE  IssueInv(row'[i], trail'[i], before'[i], winners'[i])
  <2>1. CASE i \in open
    <3>1. /\ row'[i] = Patched(row[i], "closed")
          /\ trail'[i] = Tell(trail[i], "closed")
          /\ before'[i] = before[i] /\ winners'[i] = winners[i]
      BY <2>1 DEF CloseAll
    <3>2. /\ row[i] \in Row /\ trail[i] \in Trail /\ before[i] \in Status
          /\ winners[i] \in SUBSET Names
          /\ RowInv(row[i], trail[i], before[i], winners[i])
      BY <2>1, OfPresent
    <3>3. row[i].status \notin Terminal
      BY <2>1
    <3>4. "closed" \in Status /\ "closed" \notin {Keep, row[i].status}
      BY <3>3, LifecycleAssumption DEF Status, Terminal
    <3>5. /\ Assigned(Patched(row[i], "closed"), Keep) = Patched(row[i], "closed")
      BY DEF Assigned
    <3>6. RowInv(Patched(row[i], "closed"), Tell(trail[i], "closed"),
                 before[i], winners[i])
      BY <3>2, <3>3, CloseInv
    <3>7. Patched(row[i], "closed") \in Row /\ Tell(trail[i], "closed") \in Trail
      BY <3>2, <3>4, <3>5, PatchedType, TellType
    <3> QED BY <3>1, <3>2, <3>6, <3>7 DEF IssueInv
  <2>2. CASE i \notin open
    <3>1. /\ row'[i] = row[i] /\ trail'[i] = trail[i]
          /\ before'[i] = before[i] /\ winners'[i] = winners[i]
      BY <2>2 DEF CloseAll
    <3> QED BY <3>1, OfPresent
  <2> QED BY <2>1, <2>2
<1>2. /\ row' = [i \in Issue |-> row'[i]] /\ trail' = [i \in Issue |-> trail'[i]]
      /\ before' = [i \in Issue |-> before'[i]]
      /\ winners' = [i \in Issue |-> winners'[i]]
  BY DEF CloseAll, IInv, Table
<1> QED BY <1>1, <1>2, Assemble DEF IInv

LEMMA ClaimStep ==
  ASSUME IInv, NEW i \in Issue, NEW a \in Actor \cup {Blank}, Claim(i, a)
  PROVE  IInv'
<1> DEFINE r == row[i]
           w == winners[i] \cup {a}
<1>1. /\ r \in Row /\ trail[i] \in Trail /\ before[i] \in Status
      /\ winners[i] \in SUBSET Names
      /\ RowInv(r, trail[i], before[i], winners[i])
  BY OfPresent DEF Claim
<1>2. before' = [before EXCEPT ![i] = before[i]] /\ winners' = [winners EXCEPT ![i] = w]
  BY DEF Claim, IInv, Table
<1>3. CASE r.assignee = a /\ UNCHANGED <<row, trail>>
  <2>1. row' = [row EXCEPT ![i] = r] /\ trail' = [trail EXCEPT ![i] = trail[i]]
    BY <1>3 DEF IInv, Table
  <2>2. RowInv(r, trail[i], before[i], w)
    BY <1>1, <1>3 DEF RowInv
  <2>3. IssueInv(r, trail[i], before[i], w)
    BY <1>1, <2>2 DEF IssueInv, Names
  <2> HIDE DEF w
  <2> QED BY <1>2, <2>1, <2>3, OneIssue
<1>4. CASE r.assignee # a
  <2> DEFINE d == [r EXCEPT !.status = "in_progress", !.assignee = a]
             u == [Tell(trail[i], "in_progress") EXCEPT !.holder = a]
  <2>1. /\ Vacant(r) /\ CheckOK("in_progress", r.closedAt)
        /\ row' = [row EXCEPT ![i].status = "in_progress", ![i].assignee = a]
        /\ trail' = [trail EXCEPT ![i] = u]
    BY <1>4 DEF Claim
  <2>2. row' = [row EXCEPT ![i] = d]
    BY <2>1 DEF IInv, Table
  <2>3. d \in Row /\ u \in Trail /\ RowInv(d, u, before[i], w)
    BY <1>1, <2>1, ClaimInv DEF Names
  <2>4. IssueInv(d, u, before[i], w)
    BY <1>1, <2>3 DEF IssueInv, Names
  <2> HIDE DEF d, u, w
  <2> QED BY <1>2, <2>1, <2>2, <2>4, OneIssue
<1> QED BY <1>3, <1>4 DEF Claim

LEMMA DeleteStep ==
  ASSUME IInv, NEW T \in SUBSET Present, Delete(T)
  PROVE  IInv'
<1> DEFINE live == {i \in T : row[i].status # "tombstone"}
<1>1. ASSUME NEW i \in Issue
      PROVE  IssueInv(row'[i], trail'[i], before'[i], winners'[i])
  <2>1. CASE i \in live
    <3> DEFINE d == [row[i] EXCEPT !.status = "tombstone"]
               u == TellDeleted(row[i], trail[i])
    <3>1. /\ row'[i] = d /\ trail'[i] = u
          /\ before'[i] = row[i].status /\ winners'[i] = winners[i]
      BY <2>1 DEF Delete
    <3>2. /\ row[i] \in Row /\ trail[i] \in Trail /\ before[i] \in Status
          /\ winners[i] \in SUBSET Names /\ row[i].status # "tombstone"
          /\ RowInv(row[i], trail[i], before[i], winners[i])
      BY <2>1, OfPresent
    <3>3. d \in Row /\ u \in Trail /\ RowInv(d, u, row[i].status, winners[i])
      BY <3>2, DeleteInv
    <3>4. row[i].status \in Status
      BY <3>2 DEF Row
    <3> HIDE DEF d, u
    <3> QED BY <3>1, <3>2, <3>3, <3>4 DEF IssueInv
  <2>2. CASE i \notin live
    <3>1. /\ row'[i] = row[i] /\ trail'[i] = trail[i]
          /\ before'[i] = before[i] /\ winners'[i] = winners[i]
      BY <2>2 DEF Delete
    <3> QED BY <3>1, OfPresent
  <2> QED BY <2>1, <2>2
<1>2. /\ row' = [i \in Issue |-> row'[i]] /\ trail' = [i \in Issue |-> trail'[i]]
      /\ before' = [i \in Issue |-> before'[i]]
      /\ winners' = [i \in Issue |-> winners'[i]]
  BY DEF Delete, IInv, Table
<1> QED BY <1>1, <1>2, Assemble DEF IInv

LEMMA HardDeleteStep ==
  ASSUME IInv, NEW T \in SUBSET Present, HardDelete(T)
  PROVE  IInv'
<1>1. ASSUME NEW i \in Issue
      PROVE  IssueInv(row'[i], trail'[i], before'[i], winners'[i])
  <2>1. CASE i \in T
    BY <2>1 DEF HardDelete, IssueInv, Status
  <2>2. CASE i \notin T
    <3>1. /\ row'[i] = row[i] /\ trail'[i] = trail[i]
          /\ before'[i] = before[i] /\ winners'[i] = winners[i]
      BY <2>2 DEF HardDelete
    <3> QED BY <3>1, OfPresent
  <2> QED BY <2>1, <2>2
<1>2. /\ row' = [i \in Issue |-> row'[i]] /\ trail' = [i \in Issue |-> trail'[i]]
      /\ before' = [i \in Issue |-> before'[i]]
      /\ winners' = [i \in Issue |-> winners'[i]]
  BY DEF HardDelete
<1> QED BY <1>1, <1>2, Assemble DEF IInv

LEMMA RestoreStep ==
  ASSUME IInv, NEW i \in Issue, Restore(i)
  PROVE  IInv'
<1> DEFINE d == [row[i] EXCEPT !.status =
                   IF row[i].closedAt THEN "closed" ELSE "open"]
           u == TellRestored(trail[i])
<1>1. /\ row[i] \in Row /\ trail[i] \in Trail /\ before[i] \in Status
      /\ winners[i] \in SUBSET Names /\ row[i].status = "tombstone"
      /\ RowInv(row[i], trail[i], before[i], winners[i])
  BY OfPresent DEF Restore
<1>2. row' = [row EXCEPT ![i] = d] /\ trail' = [trail EXCEPT ![i] = u]
  BY DEF Restore, IInv, Table
<1>3. /\ before' = [before EXCEPT ![i] = before[i]]
      /\ winners' = [winners EXCEPT ![i] = winners[i]]
  BY DEF Restore, IInv, Table
<1>4. d \in Row /\ u \in Trail /\ RowInv(d, u, before[i], winners[i])
  BY <1>1, RestoreInv, RestoredType
<1> HIDE DEF d, u
<1>5. IssueInv(d, u, before[i], winners[i])
  BY <1>1, <1>4 DEF IssueInv
<1> QED BY <1>2, <1>3, <1>5, OneIssue

LEMMA InitInv == Init => IInv
<1> SUFFICES ASSUME Init PROVE IInv
  OBVIOUS
<1>1. \A i \in Issue : IssueInv(row[i], trail[i], before[i], winners[i])
  BY DEF Init, IssueInv, Status
<1> QED BY <1>1, Assemble DEF Init, IInv

LEMMA InvStep == IInv /\ [Next]_vars => IInv'
<1> SUFFICES ASSUME IInv, [Next]_vars PROVE IInv'
  OBVIOUS
<1>1. ASSUME NEW i \in Issue, NEW h \in Holder, Create(i, h) PROVE IInv'
  <2> DEFINE open == [status |-> "open", closedAt |-> FALSE, assignee |-> h]
             recs == [j \in {i} |-> open]
  <2>1. open \in Record
    BY DEF Record, Row, Status, CheckOK, Terminal
  <2>2. recs \in [{i} -> Record] /\ {i} \in SUBSET Issue
    BY <2>1
  <2>3. Insert(recs)
    BY <1>1 DEF Create
  <2> HIDE DEF recs
  <2> QED BY <2>2, <2>3, InsertStep
<1>2. ASSUME NEW R \in SUBSET Issue, NEW recs \in [R -> Record], Import(recs)
      PROVE  IInv'
  BY <1>2, InsertStep DEF Import
<1>3. ASSUME NEW i \in Issue, NEW s \in Status \cup {Keep},
             NEW h \in Holder \cup {Keep}, Update(i, s, h)
      PROVE  IInv'
  BY <1>3, UpdateStep
<1>4. ASSUME NEW T \in SUBSET Present, CloseAll(T) \/ Delete(T) \/ HardDelete(T)
      PROVE  IInv'
  BY <1>4, CloseAllStep, DeleteStep, HardDeleteStep
<1>5. ASSUME NEW i \in Issue, NEW a \in Actor \cup {Blank}, Claim(i, a) PROVE IInv'
  BY <1>5, ClaimStep
<1>6. ASSUME NEW i \in Issue, Restore(i) PROVE IInv'
  BY <1>6, RestoreStep
<1>7. CASE UNCHANGED vars
  BY <1>7 DEF vars, IInv, Table
<1> QED BY <1>1, <1>2, <1>3, <1>4, <1>5, <1>6, <1>7 DEF Next

LEMMA Invariant == Spec => []IInv
  BY InitInv, InvStep, PTL DEF Spec

-----------------------------------------------------------------------------
(* The theorems.                                                           *)

\* Every reachable state is well typed.
THEOREM TypeCorrect == Spec => []TypeOK
<1>1. IInv => TypeOK
  <2> SUFFICES ASSUME IInv PROVE TypeOK
    OBVIOUS
  <2>1. ASSUME NEW i \in Issue PROVE row[i] = NoRow <=> trail[i] = NoRow
    BY OfPresent, LifecycleAssumption DEF IssueInv
  <2> QED BY <2>1 DEF IInv, Table, TypeOK, Names
<1> QED BY <1>1, Invariant, PTL

\* No sequence of operations on any issues trips the CHECK, claim excepted.
THEOREM RowsCoherent == Spec => []Coherent
<1>1. IInv => Coherent
  BY OfPresent DEF Coherent, RowInv, Present
<1> QED BY <1>1, Invariant, PTL

\* The events always replay to the row, but for the silent deletion.
THEOREM EventsReplay == Spec => []AuditTruthful
<1>1. IInv => AuditTruthful
  BY OfPresent DEF AuditTruthful, RowInv, Present
<1> QED BY <1>1, Invariant, PTL

\* Claims exclude each other, for any number of actors.
THEOREM ClaimsExclude == Spec => []OneHolder
<1>1. IInv => OneHolder
  BY OfPresent DEF OneHolder, RowInv, Present
<1> QED BY <1>1, Invariant, PTL

\* Restoring gives back closed or open as it was at the deletion.
THEOREM RestoreFaithful == Spec => RestoreReturns
<1>1. ASSUME IInv, NEW i \in Issue, Restore(i)
      PROVE  row'[i].status = IF before[i] = "closed" THEN "closed" ELSE "open"
  <2>1. /\ row[i] \in Row /\ row[i].status = "tombstone"
        /\ row[i].closedAt <=> before[i] = "closed"
    BY <1>1, OfPresent DEF Restore, RowInv
  <2>2. row' = [row EXCEPT ![i].status = IF row[i].closedAt THEN "closed" ELSE "open"]
    BY <1>1 DEF Restore
  <2>3. row'[i].status = IF row[i].closedAt THEN "closed" ELSE "open"
    BY <1>1, <2>1, <2>2 DEF IInv, Table, Row
  <2> QED BY <2>1, <2>3 DEF Row
<1>2. IInv /\ [Next]_vars =>
        [\A i \in Issue : Restore(i) =>
           row'[i].status = IF before[i] = "closed" THEN "closed" ELSE "open"]_vars
  BY <1>1
<1> QED BY <1>2, Invariant, PTL DEF Spec, RestoreReturns
=============================================================================
