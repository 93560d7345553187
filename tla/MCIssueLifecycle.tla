-------------------------- MODULE MCIssueLifecycle --------------------------
(* Two issues, two actors. *)
EXTENDS IssueLifecycle, TLC

CONSTANTS i1, i2, a1, a2

MCIssue == {i1, i2}
MCActor == {a1, a2}

\* Issues and actors are interchangeable: no definition names one.
Symmetry == Permutations(MCIssue) \cup Permutations(MCActor)
=============================================================================
