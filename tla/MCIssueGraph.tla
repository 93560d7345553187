---------------------------- MODULE MCIssueGraph ----------------------------
(* Three issues, two of them epics, one dotted below the other; one         *)
(* external id.                                                            *)
EXTENDS IssueGraph, TLC

CONSTANTS a, b, c, x

MCIssue == {a, b, c}
MCExternal == {x}
MCEpic == {a, b}
MCDotted == (a :> {b}) @@ (b :> {}) @@ (c :> {})

NoExternal == {}
NoEpic == {}
=============================================================================
