---------------------------- MODULE PacedStarts ----------------------------
(***************************************************************************)
(* What the request pacer promises to the threads that share it: starts of *)
(* provider requests that are at least Interval apart, none of them before *)
(* the end of the cooldown in force.  There are no threads, no lock and no *)
(* clock here; RequestPacer is shown to implement this specification.      *)
(***************************************************************************)
EXTENDS Integers

CONSTANT Interval        \* minimum distance between two starts

VARIABLES lastStarted,   \* the latest start, or Never
          blockedUntil   \* no start before this time

vars == <<lastStarted, blockedUntil>>

Never == -1              \* Python's None for a pacer that admitted nothing

Init == /\ lastStarted = Never
        /\ blockedUntil = 0

\* A request is admitted.
Start == /\ lastStarted' \in Nat
         /\ lastStarted' >= blockedUntil
         /\ lastStarted # Never => lastStarted' >= lastStarted + Interval
         /\ UNCHANGED blockedUntil

\* A cooldown is imposed; one already in force is never shortened.
Extend == /\ blockedUntil' \in Nat
          /\ blockedUntil' >= blockedUntil
          /\ UNCHANGED lastStarted

Next == Start \/ Extend

Spec == Init /\ [][Next]_vars
=============================================================================
