------------------------ MODULE IssueRelationsProof ------------------------
(***************************************************************************)
(* Theorems about IssueRelations, for any issues, labels, comments, texts   *)
(* and sizes of an import.  The rows behave as in IssueLifecycle whatever   *)
(* hangs on them (RowsAlone), so its invariant is taken over; Hangs says    *)
(* that labels and comments, and what their events tell, go with it.        *)
(***************************************************************************)
EXTENDS IssueRelations, IssueLifecycleProof

\* The tables of labels and of comments, and what a reader makes of their
\* events.
RelationsOK ==
  /\ labels \in [Issue -> SUBSET Label] /\ heard \in [Issue -> SUBSET Label]
  /\ comment \in [Comment -> CommentRow \cup {NoRow}]
  /\ told \in [Comment -> Text \cup {NoRow}]

LabelsTold ==
  \A i \in Issue : heard[i] = labels[i] /\ (labels[i] # {} => row[i] # NoRow)

CommentsTold ==
  \A c \in Comment : comment[c] # NoRow =>
    told[c] = comment[c].text /\ row[comment[c].issue] # NoRow

Hangs == RelationsOK /\ LabelsTold /\ CommentsTold

-----------------------------------------------------------------------------
(* The rows.                                                               *)

\* Every step is a step of the row's life or leaves the rows alone.
LEMMA RowsStep == [RNext]_rvars => [Next]_vars
<1> SUFFICES ASSUME [RNext]_rvars PROVE [Next]_vars
  OBVIOUS
<1> USE DEF Next
<1>1. ASSUME NEW i \in Issue, NEW h \in Holder, NEW ls \in SUBSET Label,
             CreateLabelled(i, h, ls)
      PROVE  Next
  BY <1>1 DEF CreateLabelled
<1>2. ASSUME NEW R \in SUBSET Issue,
             NEW recs \in [R -> {r \in Record : r.assignee \in Holder}],
             NEW ls, NEW cs, ImportWhole(recs, ls, cs)
      PROVE  Next
  <2>1. recs \in [R -> Record]
    OBVIOUS
  <2> QED BY <1>2, <2>1 DEF ImportWhole
<1>3. ASSUME NEW i \in Issue, NEW s \in Status \cup {Keep},
             NEW h \in Holder \cup {Keep}, NEW wanted \in SUBSET Label,
             UpdateLabels(i, s, h, wanted)
      PROVE  Next
  BY <1>3 DEF UpdateLabels
<1>4. ASSUME NEW T \in SUBSET Present, HardDeleteWhole(T) PROVE Next
  BY <1>4 DEF HardDeleteWhole
<1>5. ASSUME NEW old \in Label, NEW new \in Label, RenameLabel(old, new)
      PROVE  UNCHANGED vars
  BY <1>5 DEF RenameLabel
<1>6. ASSUME NEW c \in Comment, NEW i \in Issue, NEW text \in Body,
             AddComment(c, i, text) \/ UpdateComment(c, text) \/ RedactComment(c)
      PROVE  UNCHANGED vars
  BY <1>6 DEF AddComment, UpdateComment, RedactComment
<1>7. CASE Relate(Holder)
  BY <1>1, <1>2, <1>3, <1>4, <1>5, <1>7
     DEF Relate, AddComment, UpdateComment, RedactComment
<1>8. CASE Bystand
  BY <1>8 DEF Bystand, Alone
<1>9. CASE Win
  BY <1>9 DEF Win
<1>10. CASE UNCHANGED rvars
  BY <1>10 DEF rvars
<1> QED BY <1>7, <1>8, <1>9, <1>10 DEF RNext

\* The rows behave as IssueLifecycle says.
THEOREM RowsAlone == RSpec => Spec
<1>1. RInit => Init
  BY DEF RInit
<1> QED BY <1>1, RowsStep, PTL DEF RSpec, Spec

-----------------------------------------------------------------------------
(* Which rows are there after a step: only a hard delete takes one away.   *)

LEMMA RowOf ==
  ASSUME IInv, NEW i \in Issue, row[i] # NoRow
  PROVE  row[i] \in Row
  BY DEF IInv, Table

LEMMA RowIsThere == \A r \in Row : r # NoRow
  BY LifecycleAssumption

\* What an insert does to the rows.
LEMMA InsertRows ==
  ASSUME NEW recs, DOMAIN recs \subseteq Issue,
         \A i \in DOMAIN recs : recs[i] \in Row, Insert(recs)
  PROVE  /\ \A i \in Issue : row[i] # NoRow => row'[i] = row[i]
         /\ \A i \in DOMAIN recs : row'[i] # NoRow
<1>1. \A i \in Issue : row'[i] = IF i \in DOMAIN recs /\ row[i] = NoRow
                                   THEN recs[i] ELSE row[i]
  BY DEF Insert
<1>2. \A i \in DOMAIN recs : recs[i] # NoRow
  BY RowIsThere
<1> QED BY <1>1, <1>2

LEMMA UpdateRows ==
  ASSUME IInv, NEW i \in Issue, NEW s \in Status \cup {Keep},
         NEW h \in Holder \cup {Keep}, Update(i, s, h)
  PROVE  row[i] # NoRow /\ \A j \in Issue : row[j] # NoRow => row'[j] # NoRow
<1>1. row[i] # NoRow /\ row[i] \in Row
  BY RowOf DEF Update, Present
<1>2. row' = [row EXCEPT ![i] = Assigned(Patched(row[i], s), h)]
  BY DEF Update
<1>3. Assigned(Patched(row[i], s), h) # NoRow
  BY <1>1, PatchedType, RowIsThere
<1>4. \A j \in Issue : row'[j] = IF j = i THEN Assigned(Patched(row[i], s), h)
                                          ELSE row[j]
  BY <1>2 DEF IInv, Table
<1> QED BY <1>1, <1>3, <1>4

LEMMA CloseAllRows ==
  ASSUME IInv, NEW T \in SUBSET Present, CloseAll(T), NEW j \in Issue, row[j] # NoRow
  PROVE  row'[j] # NoRow
<1>1. row'[j] = row[j] \/ row'[j] = Patched(row[j], "closed")
  BY DEF CloseAll
<1>2. Assigned(Patched(row[j], "closed"), Keep) = Patched(row[j], "closed")
  BY DEF Assigned
<1>3. Patched(row[j], "closed") \in Row
  BY <1>2, RowOf, PatchedType DEF Status
<1> QED BY <1>1, <1>3, RowIsThere

\* A row whose status or assignee is set is still a row.
LEMMA StillRow ==
  ASSUME NEW r \in Row, NEW s \in Status, NEW h \in Holder
  PROVE  /\ [r EXCEPT !.status = s] # NoRow
         /\ [r EXCEPT !.status = s, !.assignee = h] # NoRow
  BY LifecycleAssumption DEF Row

LEMMA DeleteRows ==
  ASSUME IInv, NEW T \in SUBSET Present, Delete(T), NEW j \in Issue, row[j] # NoRow
  PROVE  row'[j] # NoRow
<1>1. row'[j] = row[j] \/ row'[j] = [row[j] EXCEPT !.status = "tombstone"]
  BY DEF Delete
<1> QED BY <1>1, RowOf, StillRow DEF Status, Holder

LEMMA RestoreRows ==
  ASSUME IInv, NEW i \in Issue, Restore(i), NEW j \in Issue, row[j] # NoRow
  PROVE  row'[j] # NoRow
<1> DEFINE s == IF row[i].closedAt THEN "closed" ELSE "open"
<1>1. row' = [row EXCEPT ![i].status = s] /\ row[i] # NoRow
  BY DEF Restore, Present
<1>2. row'[j] = IF j = i THEN [row[i] EXCEPT !.status = s] ELSE row[j]
  BY <1>1 DEF IInv, Table
<1>3. s \in Status
  BY DEF Status
<1> QED BY <1>1, <1>2, <1>3, RowOf, StillRow DEF Holder

LEMMA ClaimRows ==
  ASSUME IInv, NEW i \in Issue, NEW a \in Actor \cup {Blank}, Claim(i, a),
         NEW j \in Issue, row[j] # NoRow
  PROVE  row'[j] # NoRow
<1>1. CASE row' = row
  BY <1>1
<1>2. CASE row' = [row EXCEPT ![i].status = "in_progress", ![i].assignee = a]
  <2>1. row'[j] = IF j = i THEN [row[i] EXCEPT !.status = "in_progress", !.assignee = a]
                           ELSE row[j]
    BY <1>2 DEF IInv, Table
  <2> QED BY <2>1, RowOf, StillRow DEF Status, Holder
<1> QED BY <1>1, <1>2 DEF Claim

-----------------------------------------------------------------------------
(* What hangs on the rows, one action at a time.                           *)

\* New rows come with what hangs on them.
LEMMA AttachStep ==
  ASSUME Hangs, NEW new \in SUBSET Issue,
         NEW ls, \A i \in new : ls[i] \in SUBSET Label,
         NEW cs, \A c \in DOMAIN cs : cs[c] \in CommentRow,
         Attach(new, ls, cs),
         \A i \in Issue : row[i] # NoRow => row'[i] # NoRow,
         \A i \in new : row'[i] # NoRow
  PROVE  Hangs'
<1> DEFINE added == {c \in DOMAIN cs : cs[c].issue \in new}
<1>1. \A c \in added : /\ cs[c] \in CommentRow /\ cs[c] # NoRow
                       /\ cs[c].text \in Text /\ cs[c].issue \in new
  BY NoCommentAssumption DEF CommentRow
<1>2. RelationsOK'
  BY <1>1 DEF Hangs, RelationsOK, Attach
<1>3. LabelsTold'
  BY DEF Hangs, LabelsTold, RelationsOK, Attach
<1>4. CommentsTold'
  <2> SUFFICES ASSUME NEW c \in Comment, comment'[c] # NoRow
               PROVE  told'[c] = comment'[c].text /\ row'[comment'[c].issue] # NoRow
    BY DEF CommentsTold
  <2>1. /\ comment'[c] = IF c \in added THEN cs[c] ELSE comment[c]
        /\ told'[c] = IF c \in added THEN cs[c].text ELSE told[c]
    BY DEF Attach
  <2>2. CASE c \in added
    BY <1>1, <2>1, <2>2
  <2>3. CASE c \notin added
    <3>1. comment[c] \in CommentRow /\ comment[c].issue \in Issue
      BY <2>1, <2>3 DEF Hangs, RelationsOK, CommentRow
    <3> QED BY <2>1, <2>3, <3>1 DEF Hangs, CommentsTold
  <2> QED BY <2>2, <2>3
<1> QED BY <1>2, <1>3, <1>4 DEF Hangs

\* If nothing that hangs on rows changes and no row goes, all is as it was.
LEMMA StayStep ==
  ASSUME Hangs, UNCHANGED relations,
         \A i \in Issue : row[i] # NoRow => row'[i] # NoRow
  PROVE  Hangs'
<1>1. RelationsOK' /\ LabelsTold'
  BY DEF Hangs, RelationsOK, LabelsTold, relations
<1>2. CommentsTold'
  <2>1. \A c \in Comment : comment[c] # NoRow => comment[c].issue \in Issue
    BY DEF Hangs, RelationsOK, CommentRow
  <2> QED BY <2>1 DEF Hangs, CommentsTold, relations
<1> QED BY <1>1, <1>2 DEF Hangs

LEMMA HardDeleteWholeStep ==
  ASSUME Hangs, NEW T \in SUBSET Present, HardDeleteWhole(T)
  PROVE  Hangs'
<1>1. \A i \in Issue : row'[i] = IF i \in T THEN NoRow ELSE row[i]
  BY DEF HardDeleteWhole, HardDelete
<1>2. RelationsOK'
  BY DEF Hangs, RelationsOK, HardDeleteWhole
<1>3. LabelsTold'
  BY <1>1 DEF Hangs, LabelsTold, HardDeleteWhole
<1>4. CommentsTold'
  <2> SUFFICES ASSUME NEW c \in Comment, comment'[c] # NoRow
               PROVE  told'[c] = comment'[c].text /\ row'[comment'[c].issue] # NoRow
    BY DEF CommentsTold
  <2>1. /\ comment'[c] = comment[c] /\ told'[c] = told[c]
        /\ comment[c].issue \notin T
    BY DEF HardDeleteWhole, Free
  <2>2. comment[c].issue \in Issue
    BY <2>1 DEF Hangs, RelationsOK, CommentRow
  <2> QED BY <1>1, <2>1, <2>2 DEF Hangs, CommentsTold
<1> QED BY <1>2, <1>3, <1>4 DEF Hangs

LEMMA UpdateLabelsStep ==
  ASSUME IInv, Hangs, NEW i \in Issue, NEW s \in Status \cup {Keep},
         NEW h \in Holder \cup {Keep}, NEW wanted \in SUBSET Label,
         UpdateLabels(i, s, h, wanted)
  PROVE  Hangs'
<1>1. row[i] # NoRow /\ \A j \in Issue : row[j] # NoRow => row'[j] # NoRow
  BY UpdateRows DEF UpdateLabels
<1>2. /\ \A j \in Issue : labels'[j] = IF j = i THEN wanted ELSE labels[j]
      /\ \A j \in Issue : heard'[j] = IF j = i THEN wanted ELSE heard[j]
  BY DEF UpdateLabels, Hangs, RelationsOK, LabelsTold
<1>3. RelationsOK'
  BY DEF Hangs, RelationsOK, UpdateLabels
<1>4. LabelsTold'
  BY <1>1, <1>2 DEF Hangs, LabelsTold
<1>5. CommentsTold'
  <2>1. \A c \in Comment : comment[c] # NoRow => comment[c].issue \in Issue
    BY DEF Hangs, RelationsOK, CommentRow
  <2> QED BY <1>1, <2>1 DEF Hangs, CommentsTold, UpdateLabels
<1> QED BY <1>3, <1>4, <1>5 DEF Hangs

\* The two statements of a rename and its events come to the same.
LEMMA RenameLabelStep ==
  ASSUME Hangs, NEW old \in Label, NEW new \in Label, RenameLabel(old, new)
  PROVE  Hangs'
<1>1. row' = row /\ comment' = comment /\ told' = told
  BY DEF RenameLabel, vars
<1>2. ASSUME NEW i \in Issue
      PROVE  labels'[i] = IF i \in Affected(old)
                            THEN (labels[i] \ {old}) \cup {new} ELSE labels[i]
  <2> DEFINE merged == MergeDelete(labels, old, new)
  <2>1. merged[i] = IF i \in Live /\ {old, new} \subseteq labels[i]
                      THEN labels[i] \ {old} ELSE labels[i]
    BY DEF MergeDelete
  <2>2. labels'[i] = IF i \in Live /\ old \in merged[i]
                       THEN (merged[i] \ {old}) \cup {new} ELSE merged[i]
    BY DEF RenameLabel, RenameUpdate
  <2> HIDE DEF merged
  <2>3. i \in Affected(old) <=> i \in Live /\ old \in labels[i]
    BY DEF Affected, Live, Present
  <2>4. old # new
    BY DEF RenameLabel
  <2>5. CASE {old, new} \subseteq labels[i]
    BY <2>1, <2>2, <2>3, <2>4, <2>5
  <2>6. CASE ~({old, new} \subseteq labels[i])
    BY <2>1, <2>2, <2>3, <2>6
  <2> QED BY <2>5, <2>6
<1>3. ASSUME NEW i \in Issue
      PROVE  heard'[i] = IF i \in Affected(old)
                           THEN (labels[i] \ {old}) \cup {new} ELSE labels[i]
  <2>1. heard[i] = labels[i] /\ old # new
    BY DEF Hangs, LabelsTold, RenameLabel
  <2>2. i \in Merged(old, new) <=> i \in Affected(old) /\ new \in labels[i]
    BY DEF Merged
  <2>3. heard'[i] = IF i \notin Affected(old) THEN heard[i]
                    ELSE (heard[i] \ {old})
                           \cup (IF i \in Merged(old, new) THEN {} ELSE {new})
    BY DEF RenameLabel
  <2> QED BY <2>1, <2>2, <2>3
<1>4. \A i \in Affected(old) : i \in Issue /\ row[i] # NoRow
  BY DEF Affected, Live, Present
<1>5. /\ labels' = [i \in Issue |-> labels'[i]]
      /\ heard' = [i \in Issue |-> heard'[i]]
  BY DEF RenameLabel, RenameUpdate
<1>6. RelationsOK'
  <2>1. \A i \in Issue : labels'[i] \in SUBSET Label /\ heard'[i] \in SUBSET Label
    BY <1>2, <1>3 DEF Hangs, RelationsOK
  <2> QED BY <1>1, <1>5, <2>1 DEF Hangs, RelationsOK
<1>7. LabelsTold'
  BY <1>1, <1>2, <1>3, <1>4 DEF Hangs, LabelsTold
<1>8. CommentsTold'
  BY <1>1 DEF Hangs, CommentsTold
<1> QED BY <1>6, <1>7, <1>8 DEF Hangs

\* A row of comments that is written together with what a reader is told.
LEMMA WriteComment ==
  ASSUME Hangs, row' = row, labels' = labels, heard' = heard,
         NEW c \in Comment, NEW k \in CommentRow, row[k.issue] # NoRow,
         comment' = [comment EXCEPT ![c] = k],
         told' = [told EXCEPT ![c] = k.text]
  PROVE  Hangs'
<1>1. k.text \in Text
  BY DEF CommentRow
<1>2. RelationsOK' /\ LabelsTold'
  BY <1>1 DEF Hangs, RelationsOK, LabelsTold
<1>3. \A d \in Comment : /\ comment'[d] = IF d = c THEN k ELSE comment[d]
                         /\ told'[d] = IF d = c THEN k.text ELSE told[d]
  BY DEF Hangs, RelationsOK
<1>4. CommentsTold'
  BY <1>3 DEF Hangs, CommentsTold
<1> QED BY <1>2, <1>4 DEF Hangs

LEMMA AddCommentStep ==
  ASSUME Hangs, NEW c \in Comment, NEW i \in Issue, NEW text \in Body,
         AddComment(c, i, text)
  PROVE  Hangs'
<1> DEFINE k == [issue |-> i, text |-> text, redacted |-> FALSE]
<1>1. k \in CommentRow /\ k.text = text /\ k.issue = i
  BY DEF CommentRow, Text
<1>2. row[i] # NoRow
  BY DEF AddComment, Live, Present
<1>3. /\ row' = row /\ labels' = labels /\ heard' = heard
      /\ comment' = [comment EXCEPT ![c] = k] /\ told' = [told EXCEPT ![c] = k.text]
  BY <1>1 DEF AddComment, vars
<1> HIDE DEF k
<1> QED BY <1>1, <1>2, <1>3, WriteComment

\* An event that carries the old text is understood.
LEMMA RewriteStep ==
  ASSUME Hangs, NEW c \in Comment, c \notin Free, row' = row, labels' = labels,
         heard' = heard, NEW k \in CommentRow, k.issue = comment[c].issue,
         comment' = [comment EXCEPT ![c] = k],
         told' = [told EXCEPT ![c] = Hear(@, comment[c].text, k.text)]
  PROVE  Hangs'
<1>1. comment[c] # NoRow /\ told[c] = comment[c].text /\ row[k.issue] # NoRow
  BY DEF Hangs, CommentsTold, Free
<1>2. told' = [told EXCEPT ![c] = k.text]
  BY <1>1 DEF Hear, Hangs, RelationsOK
<1> QED BY <1>1, <1>2, WriteComment

LEMMA UpdateCommentStep ==
  ASSUME Hangs, NEW c \in Comment, NEW text \in Body, UpdateComment(c, text)
  PROVE  Hangs'
<1> DEFINE k == [comment[c] EXCEPT !.text = text]
<1>1. c \notin Free /\ comment[c] \in CommentRow
  BY DEF UpdateComment, Free, Hangs, RelationsOK
<1>2. k \in CommentRow /\ k.text = text /\ k.issue = comment[c].issue
  BY <1>1 DEF CommentRow, Text
<1>3. /\ row' = row /\ labels' = labels /\ heard' = heard
      /\ comment' = [comment EXCEPT ![c] = k]
      /\ told' = [told EXCEPT ![c] = Hear(@, comment[c].text, k.text)]
  BY <1>2 DEF UpdateComment, vars, Hangs, RelationsOK
<1> HIDE DEF k
<1> QED BY <1>1, <1>2, <1>3, RewriteStep

LEMMA RedactCommentStep ==
  ASSUME Hangs, NEW c \in Comment, RedactComment(c)
  PROVE  Hangs'
<1> DEFINE k == [comment[c] EXCEPT !.text = Masked, !.redacted = TRUE]
<1>1. c \notin Free /\ comment[c] \in CommentRow
  BY DEF RedactComment, Free, Hangs, RelationsOK
<1>2. k \in CommentRow /\ k.text = Masked /\ k.issue = comment[c].issue
  BY <1>1 DEF CommentRow, Text
<1>3. /\ row' = row /\ labels' = labels /\ heard' = heard
      /\ comment' = [comment EXCEPT ![c] = k]
      /\ told' = [told EXCEPT ![c] = Hear(@, comment[c].text, k.text)]
  BY <1>2 DEF RedactComment, vars, Hangs, RelationsOK
<1> HIDE DEF k
<1> QED BY <1>1, <1>2, <1>3, RewriteStep

-----------------------------------------------------------------------------
(* The theorems.                                                           *)

LEMMA HangsInit == RInit => Hangs
  BY DEF RInit, Init, Hangs, RelationsOK, LabelsTold, CommentsTold

\* One step, by what writes labels or comments and by what does not.
LEMMA RelateStep ==
  ASSUME IInv, Hangs, Relate(Holder)
  PROVE  Hangs'
<1>1. ASSUME NEW i \in Issue, NEW h \in Holder, NEW ls \in SUBSET Label,
             CreateLabelled(i, h, ls)
      PROVE  Hangs'
  <2> DEFINE recs == [j \in {i} |-> [status |-> "open", closedAt |-> FALSE,
                                     assignee |-> h]]
             lss == [j \in {i} |-> ls]
             css == [c \in {} |-> NoRow]
  <2>1. Insert(recs) /\ Attach({i}, lss, css)
    BY <1>1 DEF CreateLabelled, Create
  <2>2. \A j \in DOMAIN recs : recs[j] \in Row
    BY DEF Row, Status
  <2>3. DOMAIN recs = {i} /\ DOMAIN css = {} /\ lss[i] = ls
    OBVIOUS
  <2> HIDE DEF recs, lss, css
  <2>4. /\ \A j \in Issue : row[j] # NoRow => row'[j] # NoRow
        /\ row'[i] # NoRow
    BY <2>1, <2>2, <2>3, InsertRows
  <2> QED BY <2>1, <2>3, <2>4, AttachStep
<1>2. ASSUME NEW R \in SUBSET Issue,
             NEW recs \in [R -> {r \in Record : r.assignee \in Holder}],
             NEW ls \in [R -> SUBSET Label], NEW F \in SUBSET Free,
             NEW cs \in [F -> {k \in CommentRow : k.issue \in R}],
             ImportWhole(recs, ls, cs)
      PROVE  Hangs'
  <2> DEFINE new == {i \in DOMAIN recs : row[i] = NoRow}
  <2>1. Insert(recs) /\ Attach(new, ls, cs)
    BY <1>2 DEF ImportWhole, Import
  <2>2. /\ DOMAIN recs \subseteq Issue /\ \A i \in DOMAIN recs : recs[i] \in Row
        /\ new \in SUBSET Issue /\ \A i \in new : ls[i] \in SUBSET Label
        /\ \A c \in DOMAIN cs : cs[c] \in CommentRow
    BY DEF Record
  <2>3. /\ \A i \in Issue : row[i] # NoRow => row'[i] # NoRow
        /\ \A i \in new : row'[i] # NoRow
    BY <2>1, <2>2, InsertRows
  <2> HIDE DEF new
  <2> QED BY <2>1, <2>2, <2>3, AttachStep
<1>3. ASSUME NEW i \in Issue, NEW s \in Status \cup {Keep},
             NEW h \in Holder \cup {Keep}, NEW wanted \in SUBSET Label,
             UpdateLabels(i, s, h, wanted)
      PROVE  Hangs'
  BY <1>3, UpdateLabelsStep
<1>4. ASSUME NEW T \in SUBSET Present, HardDeleteWhole(T) PROVE Hangs'
  BY <1>4, HardDeleteWholeStep
<1>5. ASSUME NEW old \in Label, NEW new \in Label, RenameLabel(old, new)
      PROVE  Hangs'
  BY <1>5, RenameLabelStep
<1>6. ASSUME NEW c \in Comment, NEW i \in Issue, NEW text \in Body,
             AddComment(c, i, text)
      PROVE  Hangs'
  BY <1>6, AddCommentStep
<1>7. ASSUME NEW c \in Comment, NEW text \in Body, UpdateComment(c, text)
      PROVE  Hangs'
  BY <1>7, UpdateCommentStep
<1>8. ASSUME NEW c \in Comment, RedactComment(c) PROVE Hangs'
  BY <1>8, RedactCommentStep
<1> QED BY <1>1, <1>2, <1>3, <1>4, <1>5, <1>6, <1>7, <1>8 DEF Relate

LEMMA AloneStep ==
  ASSUME IInv, Hangs, Bystand \/ Win
  PROVE  Hangs'
<1> SUFFICES ASSUME NEW j \in Issue, row[j] # NoRow PROVE row'[j] # NoRow
  BY StayStep DEF Bystand, Win
<1>1. ASSUME NEW T \in SUBSET Present, CloseAll(T) \/ Delete(T)
      PROVE  row'[j] # NoRow
  BY <1>1, CloseAllRows, DeleteRows
<1>2. ASSUME NEW i \in Issue, Restore(i) PROVE row'[j] # NoRow
  BY <1>2, RestoreRows
<1>3. ASSUME NEW i \in Issue, NEW a \in Actor \cup {Blank}, Claim(i, a)
      PROVE  row'[j] # NoRow
  BY <1>3, ClaimRows
<1> QED BY <1>1, <1>2, <1>3 DEF Bystand, Alone, Win

LEMMA HangsStep == IInv /\ Hangs /\ [RNext]_rvars => Hangs'
<1>1. ASSUME Hangs, UNCHANGED rvars PROVE Hangs'
  BY <1>1, StayStep DEF rvars, vars
<1> QED BY <1>1, RelateStep, AloneStep DEF RNext

LEMMA RelationsInvariant == RSpec => [](IInv /\ Hangs)
<1>1. RInit => IInv /\ Hangs
  BY HangsInit, InitInv DEF RInit
<1>2. IInv /\ Hangs /\ [RNext]_rvars => (IInv /\ Hangs)'
  BY HangsStep, RowsStep, InvStep
<1> QED BY <1>1, <1>2, PTL DEF RSpec

\* The relations are well typed, whatever is imported, renamed and redacted.
THEOREM RelationsTyped == RSpec => []RelationsOK
<1>1. Hangs => RelationsOK
  BY DEF Hangs
<1> QED BY <1>1, RelationsInvariant, PTL

\* The events of every issue tell the whole of it: its status and assignee, its
\* labels and the texts of its comments.
THEOREM EventsComplete == RSpec => []AuditComplete
<1>1. IInv => AuditTruthful
  BY OfPresent DEF AuditTruthful, RowInv, Present
<1>2. Hangs => \A i \in Issue : heard[i] = labels[i] /\ (labels[i] # {} => i \in Present)
  BY DEF Hangs, LabelsTold, Present
<1>3. Hangs => \A c \in Comment \ Free :
                 told[c] = comment[c].text /\ comment[c].issue \in Present
  BY DEF Hangs, CommentsTold, Free, Present, RelationsOK, CommentRow
<1>4. IInv /\ Hangs => AuditComplete
  BY <1>1, <1>2, <1>3 DEF AuditComplete
<1> QED BY <1>4, RelationsInvariant, PTL

\* Claims still exclude each other, and a restore still gives back what was
\* deleted, when labels and comments come and go between the steps of a row.
THEOREM RelatedRows == RSpec => []Coherent /\ []OneHolder /\ RestoreReturns
  BY RowsAlone, RowsCoherent, ClaimsExclude, RestoreFaithful
=============================================================================
