----------------------------- MODULE MCRouting -----------------------------
(* Instances of Routing for TLC. *)
EXTENDS Routing, TLC

CONSTANTS l1, l2

TwoLines == {l1, l2}
LineSymmetry == Permutations(Lines)
=============================================================================
