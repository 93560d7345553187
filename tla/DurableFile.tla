---------------------------- MODULE DurableFile ----------------------------
(***************************************************************************)
(* What exporting promises of the exported file while no directory sync     *)
(* fails: it changes in one step from one call's whole output to another's, *)
(* each call changes it once at most, only a power loss takes a change      *)
(* back, to what had reached the disk, and a call is told Ok when all that  *)
(* can be seen has reached it.                                             *)
(***************************************************************************)
CONSTANTS Writer, None

VARIABLES
  now,       \* what a reader finds: None, or whose output and how much of it
  kept,      \* what a reader would find after a power loss
  replaced,  \* who has changed the file
  told       \* who has been told Ok

vars == <<now, kept, replaced, told>>

Init == now = None /\ kept = None /\ replaced = {} /\ told = {}

Replace(w) ==
  /\ w \notin replaced
  /\ now' = <<w, "whole">>
  /\ replaced' = replaced \cup {w}
  /\ UNCHANGED <<kept, told>>

\* The disk catches up by itself, sooner or later.
Persist == kept' = now /\ UNCHANGED <<now, replaced, told>>

Tell(w) ==
  /\ w \in replaced \ told
  /\ kept' = now
  /\ told' = told \cup {w}
  /\ UNCHANGED <<now, replaced>>

LosePower == now' = kept /\ UNCHANGED <<kept, replaced, told>>

Next ==
  \/ \E w \in Writer : Replace(w) \/ Tell(w)
  \/ Persist \/ LosePower

Spec == Init /\ [][Next]_vars
=============================================================================
