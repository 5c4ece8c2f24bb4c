----------------------------- MODULE MCPrompts -----------------------------
(* Instances of Prompts and Settings for TLC. *)
EXTENDS Settings, TLC

CONSTANTS e1, e2, e3, e4, alice, bob

ThreeEvents == {e1, e2, e3}
FourEvents == {e1, e2, e3, e4}
TwoNicks == {alice, bob}
TwoTriggers == {1, 2}
Symmetry == Permutations(Events) \cup Permutations(Nicks)
=============================================================================
