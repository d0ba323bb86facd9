------------------------------- MODULE Barrier -------------------------------
(***************************************************************************)
(* What every barrier of the system promises to a fixed group of harts,    *)
(* whatever it is built from: a hart that has called it is held until      *)
(* every hart of the group has called it.                                  *)
(*                                                                         *)
(* A hart is "in" while it must not return from the call and "out"         *)
(* otherwise: outside the call, or inside it and free to return at its own *)
(* pace, possibly into the next call.  Several harts may enter in one      *)
(* step: the cores of a cluster share a clock.                             *)
(***************************************************************************)

CONSTANT Harts            \* the group that synchronises

VARIABLE phase            \* phase[h]: "out" or "in"

Init == phase = [h \in Harts |-> "out"]

\* The harts of H call the barrier.
Enter(H) ==
    /\ \A h \in H : phase[h] = "out"
    /\ phase' = [h \in Harts |-> IF h \in H THEN "in" ELSE phase[h]]

\* The group is complete: everybody may return.
Release ==
    /\ \A h \in Harts : phase[h] = "in"
    /\ phase' = [h \in Harts |-> "out"]

Next ==
    \/ \E H \in SUBSET Harts : Enter(H)
    \/ Release

Spec == Init /\ [][Next]_phase
=============================================================================
