---------------------------- MODULE AtomicStore ----------------------------
(***************************************************************************)
(* What Database.transaction() promises its callers: a unit of work takes  *)
(* effect once and with all of its writes, or it takes no effect at all.   *)
(***************************************************************************)
EXTENDS Integers

CONSTANTS Units, MaxWrites

VARIABLES data, \* writes that took effect
          over  \* units that took effect or raised to their callers

WritesOf(u, n) == {<<u, k>> : k \in 1..n}

Init == data = {} /\ over = {}

Commit(u) ==
    /\ u \notin over
    /\ \E n \in 0..MaxWrites : data' = data \cup WritesOf(u, n)
    /\ over' = over \cup {u}

Abort(u) ==
    /\ u \notin over
    /\ over' = over \cup {u}
    /\ UNCHANGED data

Next == \E u \in Units : Commit(u) \/ Abort(u)

Spec == Init /\ [][Next]_<<data, over>>
=============================================================================
