-------------------------- MODULE MCIssueRelations --------------------------
(* Two issues, two actors; two labels, a comment and two texts.           *)
EXTENDS IssueRelations, TLC

CONSTANTS i1, i2, a1, a2, l1, l2, c1, b1, b2

MCIssue == {i1, i2}
MCActor == {a1, a2}
MCLabel == {l1, l2}
MCComment == {c1}
MCBody == {b1, b2}

Symmetry ==
  Permutations(MCIssue) \cup Permutations(MCActor) \cup Permutations(MCLabel)
    \cup Permutations(MCBody)

\* Labels and comments look at the status of a row and never at its assignee,
\* so either rows have holders here or something hangs on them.
Bare == /\ \A i \in Issue : labels[i] = {}
        /\ Free = Comment
NoHolders == \A i \in Issue : /\ winners[i] = {}
                              /\ i \in Present => row[i].assignee = Nobody

MCNext ==
  \/ Bare /\ Next /\ UNCHANGED relations
  \/ NoHolders /\ (Relate({Nobody}) \/ Bystand)

MCSpec == RInit /\ [][MCNext]_rvars
=============================================================================
