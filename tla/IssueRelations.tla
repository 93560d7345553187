--------------------------- MODULE IssueRelations ---------------------------
(***************************************************************************)
(* What hangs on an issue's row: its labels and its comments, and the audit *)
(* events written beside each change of them.  The life of the row itself   *)
(* is IssueLifecycle.tla; an operation on a row that inserts, patches or    *)
(* removes what hangs on it does both in its one transaction.               *)
(***************************************************************************)
EXTENDS IssueLifecycle, FiniteSets

CONSTANTS
  Label,    \* label names
  Comment,  \* comment ids
  Body,     \* texts a caller may write
  Masked,   \* the empty text of a redacted comment
  MaxBatch  \* bound on the records of one import

ASSUME MaskedAssumption == Masked \notin Body
ASSUME BatchAssumption == MaxBatch \in Nat
ASSUME NoRowAssumption == NoRow \notin Body \cup {Masked}

Text == Body \cup {Masked}
CommentRow == [issue : Issue, text : Text, redacted : BOOLEAN]

ASSUME NoCommentAssumption == NoRow \notin CommentRow

VARIABLES
  labels,   \* the labels table
  heard,    \* the label events, as a reader replays them
  comment,  \* the comments table
  told      \* the comment events, as a reader replays them

relations == <<labels, heard, comment, told>>
rvars == <<vars, relations>>

RInit ==
  /\ Init
  /\ labels = [i \in Issue |-> {}] /\ heard = [i \in Issue |-> {}]
  /\ comment = [c \in Comment |-> NoRow] /\ told = [c \in Comment |-> NoRow]

Free == {c \in Comment : comment[c] = NoRow}
Live == {i \in Present : row[i].status # "tombstone"}

-----------------------------------------------------------------------------
(* Inserting and removing rows with what hangs on them.                     *)

\* Each label of a new row is inserted with a label_added, each comment, as
\* the record has it, with a commented: ls is the labels of the records, cs
\* the comments.
Attach(new, ls, cs) ==
  LET added == {c \in DOMAIN cs : cs[c].issue \in new} IN
  /\ labels' = [i \in Issue |-> IF i \in new THEN ls[i] ELSE labels[i]]
  /\ heard' = [i \in Issue |-> IF i \in new THEN ls[i] ELSE heard[i]]
  /\ comment' = [c \in Comment |-> IF c \in added THEN cs[c] ELSE comment[c]]
  /\ told' = [c \in Comment |-> IF c \in added THEN cs[c].text ELSE told[c]]

CreateLabelled(i, h, ls) ==
  /\ Create(i, h)
  /\ Attach({i}, [j \in {i} |-> ls], [c \in {} |-> NoRow])

ImportWhole(recs, ls, cs) ==
  /\ Import(recs)
  /\ Attach({i \in DOMAIN recs : row[i] = NoRow}, ls, cs)

\* The foreign keys of labels, comments and events cascade.
HardDeleteWhole(T) ==
  LET gone == {c \in Comment \ Free : comment[c].issue \in T} IN
  /\ HardDelete(T)
  /\ labels' = [i \in Issue |-> IF i \in T THEN {} ELSE labels[i]]
  /\ heard' = [i \in Issue |-> IF i \in T THEN {} ELSE heard[i]]
  /\ comment' = [c \in Comment |-> IF c \in gone THEN NoRow ELSE comment[c]]
  /\ told' = [c \in Comment |-> IF c \in gone THEN NoRow ELSE told[c]]

-----------------------------------------------------------------------------
(* Labels.                                                                  *)

\* A patch: labels_set, labels_add and labels_remove together come to wanted;
\* the difference from the labels the row has is written, event by event.
UpdateLabels(i, s, h, wanted) ==
  /\ Update(i, s, h)
  /\ labels' = [labels EXCEPT ![i] = wanted]
  /\ heard' = [heard EXCEPT ![i] = (@ \ (labels[i] \ wanted))
                                     \cup (wanted \ labels[i])]
  /\ UNCHANGED <<comment, told>>

\* Faulty: the issues to write events for are read without a look at the status.
AffectedAll(old) == {i \in Present : old \in labels[i]}

\* The issues a rename writes events for, and those that had both names.
Affected(old) == {i \in Live : old \in labels[i]}
Merged(old, new) == {i \in Affected(old) : new \in labels[i]}

\* The two statements of a rename.  The delete comes first, or the update
\* would meet the primary key.
MergeDelete(ls, old, new) ==
  [i \in Issue |-> IF i \in Live /\ {old, new} \subseteq ls[i]
                     THEN ls[i] \ {old} ELSE ls[i]]

RenameUpdate(ls, old, new) ==
  [i \in Issue |-> IF i \in Live /\ old \in ls[i]
                     THEN (ls[i] \ {old}) \cup {new} ELSE ls[i]]

\* rename_label: label_removed for every affected issue, label_added for those
\* that were not merged.
RenameLabel(old, new) ==
  /\ old # new
  /\ labels' = RenameUpdate(MergeDelete(labels, old, new), old, new)
  /\ heard' = [i \in Issue |->
                 IF i \notin Affected(old) THEN heard[i]
                 ELSE (heard[i] \ {old})
                        \cup (IF i \in Merged(old, new) THEN {} ELSE {new})]
  /\ UNCHANGED <<vars, comment, told>>

-----------------------------------------------------------------------------
(* Comments.                                                                *)

AddComment(c, i, text) ==
  /\ c \in Free /\ i \in Live
  /\ comment' = [comment EXCEPT ![c] =
                   [issue |-> i, text |-> text, redacted |-> FALSE]]
  /\ told' = [told EXCEPT ![c] = text]
  /\ UNCHANGED <<vars, labels, heard>>

\* A reader of comment_edited and comment_redacted finds the comment by the old
\* text the event carries; an event with another text tells him nothing.
Hear(said, old, text) == IF said = old THEN text ELSE said

\* update_comment: of a comment of any issue, a redacted comment included.
UpdateComment(c, text) ==
  /\ c \notin Free
  /\ comment' = [comment EXCEPT ![c].text = text]
  /\ told' = [told EXCEPT ![c] = Hear(@, comment[c].text, text)]
  /\ UNCHANGED <<vars, labels, heard>>

\* delete_comment: a comment that is redacted already is left as it is.
RedactComment(c) ==
  /\ c \notin Free /\ ~comment[c].redacted
  /\ comment' = [comment EXCEPT ![c].text = Masked, ![c].redacted = TRUE]
  /\ told' = [told EXCEPT ![c] = Hear(@, comment[c].text, Masked)]
  /\ UNCHANGED <<vars, labels, heard>>

-----------------------------------------------------------------------------
\* What writes labels or comments, with or without the row.
Relate(Held) ==
  \/ \E i \in Issue, h \in Held, ls \in SUBSET Label : CreateLabelled(i, h, ls)
  \/ \E R \in {S \in SUBSET Issue : Cardinality(S) <= MaxBatch} :
     \E recs \in [R -> {r \in Record : r.assignee \in Held}] :
       \E ls \in [R -> SUBSET Label], F \in SUBSET Free :
         \E cs \in [F -> {k \in CommentRow : k.issue \in R}] :
           ImportWhole(recs, ls, cs)
  \/ \E i \in Issue, s \in Status \cup {Keep}, h \in Held \cup {Keep} :
       \E wanted \in SUBSET Label : UpdateLabels(i, s, h, wanted)
  \/ \E T \in SUBSET Present : HardDeleteWhole(T)
  \/ \E old, new \in Label : RenameLabel(old, new)
  \/ \E c \in Comment, i \in Issue, text \in Body : AddComment(c, i, text)
  \/ \E c \in Comment, text \in Body : UpdateComment(c, text)
  \/ \E c \in Comment : RedactComment(c)

\* What leaves them alone.
Alone ==
  \/ \E T \in SUBSET Present : CloseAll(T) \/ Delete(T)
  \/ \E i \in Issue : Restore(i)

Bystand == Alone /\ UNCHANGED relations
Win == (\E i \in Issue, a \in Actor \cup {Blank} : Claim(i, a)) /\ UNCHANGED relations

RNext == Relate(Holder) \/ Bystand \/ Win

RSpec == RInit /\ [][RNext]_rvars

-----------------------------------------------------------------------------
(* Properties.                                                             *)

\* The events of an issue tell the whole of it.  Replayed they give its status
\* and assignee (AuditTruthful), its labels, and the text of each comment, in
\* whatever order patches, renames across issues, deletions, restores, edits
\* and redactions come; a rename leaves a deleted issue and its events alone,
\* and what hangs on an issue goes with its row.
AuditComplete ==
  /\ AuditTruthful
  /\ \A i \in Issue : heard[i] = labels[i] /\ (labels[i] # {} => i \in Present)
  /\ \A c \in Comment \ Free :
       told[c] = comment[c].text /\ comment[c].issue \in Present
=============================================================================
