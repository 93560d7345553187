---------------------------- MODULE MCConfigSwap ----------------------------
(* Two processes and two calls, on the same Session or on different ones;  *)
(* a layer key and a startup key; one value.                               *)
EXTENDS ConfigSwap, TLC

CONSTANTS s1, s2, c1, c2, actor, backend, v

MCSession == {s1, s2}
MCCall == {c1, c2}
MCKey == {actor, backend}
MCClass == (actor :> "layer") @@ (backend :> "startup")
Symmetry == Permutations(MCSession) \cup Permutations(MCCall)
=============================================================================
