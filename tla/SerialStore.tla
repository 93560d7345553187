----------------------------- MODULE SerialStore -----------------------------
(***************************************************************************)
(* What the write lock promises: a store with one writer at a time, in     *)
(* which children are numbered without gaps or repetitions.                *)
(***************************************************************************)
EXTENDS Naturals

CONSTANTS Actor, Nobody
VARIABLES owner, children

Init == owner = Nobody /\ children = 0

Enter(a) == owner = Nobody /\ owner' = a /\ UNCHANGED children

Mint == owner # Nobody /\ children' = children + 1 /\ UNCHANGED owner

\* The owner leaves, or dies and the kernel frees the lock for it.
Leave == owner # Nobody /\ owner' = Nobody /\ UNCHANGED children

Next == Mint \/ Leave \/ \E a \in Actor : Enter(a)

Spec == Init /\ [][Next]_<<owner, children>>
=============================================================================
