-------------------------- MODULE MCAtomicExport --------------------------
(* Three exports; the second process's pid is the first one's second try.  *)
EXTENDS AtomicExport, TLC

CONSTANTS e1, e2, e3, p1, p2, n1, n2, n3

MCExport == {e1, e2, e3}
MCProc == {p1, p2}
MCProcOf == (e1 :> p1) @@ (e2 :> p1) @@ (e3 :> p2)
MCTemp == {n1, n2, n3}
MCTries == (p1 :> <<n1, n2>>) @@ (p2 :> <<n2, n3>>)

\* The three exports in one process.
MCProcOfOne == (e1 :> p1) @@ (e2 :> p1) @@ (e3 :> p1)

Symmetry == Permutations({e1, e2})
=============================================================================
