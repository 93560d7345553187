----------------------------- MODULE MCWriteLock -----------------------------
(* Two processes; two calls in the first, one in the second.               *)
EXTENDS WriteLock, TLC

CONSTANTS p1, p2, t1, t2, t3

MCProc == {p1, p2}
MCTask == {t1, t2, t3}
MCProcOf == (t1 :> p1) @@ (t2 :> p1) @@ (t3 :> p2)

\* Liveness: the calls share one Session; the other process only opens.
MCTaskSmall == {t1, t2}
MCProcOfSmall == (t1 :> p1) @@ (t2 :> p1)
Symmetry == Permutations({t1, t2})
=============================================================================
