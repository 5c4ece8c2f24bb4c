---------------------------- MODULE MCPacedCalls ----------------------------
(* Instances of PacedCalls for TLC. *)
EXTENDS PacedCalls, TLC

CONSTANTS c1, c2, c3

TwoCallers == {c1, c2}
ThreeCallers == {c1, c2, c3}

Header(k, v) == [kind |-> k, value |-> v]

\* No delay, a long one, and a date that is soon over; the last two unusable.
SomeHeaders == {Header("absent", 0), Header("seconds", 3), Header("date", 2), Header("seconds", -1)}

UpToThree == 0 .. 3
=============================================================================
