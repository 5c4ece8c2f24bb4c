----------------------------- MODULE MCCallSink -----------------------------
(* Instances of CallSink for TLC. *)
EXTENDS CallSink

SmallAndOversized == {1, 2, 4}
=============================================================================
