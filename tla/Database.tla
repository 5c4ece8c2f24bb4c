------------------------------ MODULE Database ------------------------------
(***************************************************************************)
(* Database.transaction() (database.py): one SQLite connection shared by   *)
(* all handler threads, a re-entrant lock around it, and nested "with"     *)
(* blocks that join the outermost one.  A unit is one outermost block of   *)
(* one thread.  What a block writes is any sequence of statements; its     *)
(* body may raise anywhere, and a caller in between may catch.             *)
(***************************************************************************)
EXTENDS Integers

CONSTANTS Threads, Free,
          MaxDepth, MaxWrites, MaxUnits   \* bounds of nesting, writes, units

ASSUME FreeAssumption == Free \notin Threads
ASSUME BoundAssumption == MaxDepth \in Nat \ {0} /\ MaxWrites \in Nat /\ MaxUnits \in Nat

VARIABLES
  committed,     \* writes in the database file
  working,       \* writes the connection sees
  inTransaction, \* the connection has begun a transaction
  closed, lock,
  depth, rollbackOnly,   \* thread-local state of transaction()
  raising,       \* an exception is on its way up through the thread's blocks
  unit, writes,  \* number of the thread's last unit, and of an open unit's writes
  \* history variables
  durable,       \* units committed, with their number of writes
  returned, failed,      \* units whose "with" returned, and whose "with" raised
  broken,        \* units with a nested block that raised
  abandoned,     \* failed units that ended without a rollback
  seen           \* what the thread's last fetchone or fetchall read

connection == <<committed, working, inTransaction, closed>>
locals == <<depth, rollbackOnly, raising, unit, writes>>
history == <<durable, returned, failed, broken, abandoned>>
vars == <<connection, lock, locals, history, seen>>

Unit(t) == <<t, unit[t]>>
WritesOf(u, n) == {<<u, k>> : k \in 1..n}

Init ==
    /\ committed = {} /\ working = {} /\ inTransaction = FALSE /\ closed = FALSE
    /\ lock = Free
    /\ depth = [t \in Threads |-> 0]
    /\ rollbackOnly = [t \in Threads |-> FALSE]
    /\ raising = [t \in Threads |-> FALSE]
    /\ unit = [t \in Threads |-> 0] /\ writes = [t \in Threads |-> 0]
    /\ durable = {} /\ returned = {} /\ failed = {} /\ broken = {} /\ abandoned = {}
    /\ seen = [t \in Threads |-> {}]

----------------------------------------------------------------------------
(* The outermost block *)

Starts(t) ==
    /\ depth[t] = 0 /\ lock = Free
    /\ unit[t] < MaxUnits
    /\ unit' = [unit EXCEPT ![t] = @ + 1]
    /\ UNCHANGED writes

\* BEGIN succeeds.
Begin(t) ==
    /\ Starts(t)
    /\ ~closed /\ ~inTransaction
    /\ lock' = t
    /\ inTransaction' = TRUE
    /\ rollbackOnly' = [rollbackOnly EXCEPT ![t] = FALSE]
    /\ depth' = [depth EXCEPT ![t] = 1]
    /\ UNCHANGED <<committed, working, closed, raising, history, seen>>

BeginRefusedJoins(t) ==                                    \* mutant
    /\ Starts(t)
    /\ ~closed /\ inTransaction
    /\ lock' = t
    /\ rollbackOnly' = [rollbackOnly EXCEPT ![t] = FALSE]
    /\ depth' = [depth EXCEPT ![t] = 1]
    /\ UNCHANGED <<connection, raising, history, seen>>

\* "Database is closed"; or BEGIN raises because an abandoned transaction is
\* still open, which the handler then rolls back.
BeginRefused(t) ==
    /\ Starts(t)
    /\ closed \/ inTransaction
    /\ working' = committed /\ inTransaction' = FALSE
    /\ failed' = failed \cup {<<t, unit'[t]>>}
    /\ UNCHANGED <<committed, closed, lock, depth, rollbackOnly, raising, durable, returned,
                   broken, abandoned, seen>>

\* The outermost block is left: the lock is released and rollback_only deleted.
Ends(t) ==
    /\ depth[t] = 1
    /\ depth' = [depth EXCEPT ![t] = 0]
    /\ rollbackOnly' = [rollbackOnly EXCEPT ![t] = FALSE]
    /\ raising' = [raising EXCEPT ![t] = FALSE]
    /\ writes' = [writes EXCEPT ![t] = 0]
    /\ lock' = Free
    /\ UNCHANGED <<closed, unit, broken, seen>>

\* commit(); one that raises is a body that raised after its last statement.
Commit(t) ==
    /\ depth[t] = 1 /\ inTransaction
    /\ ~raising[t] /\ ~rollbackOnly[t]
    /\ committed' = working /\ inTransaction' = FALSE
    /\ durable' = durable \cup {[unit |-> Unit(t), size |-> writes[t]]}
    /\ UNCHANGED <<working, closed, lock, locals, returned, failed, broken, abandoned, seen>>

\* The "with" statement of a committed unit returns.
Return(t) ==
    /\ ~inTransaction
    /\ Ends(t)
    /\ returned' = returned \cup {Unit(t)}
    /\ UNCHANGED <<committed, working, inTransaction, durable, failed, abandoned>>

RollBackMissing(t) ==                                      \* mutant
    /\ raising[t] \/ rollbackOnly[t]
    /\ Ends(t)
    /\ failed' = failed \cup {Unit(t)}
    /\ UNCHANGED <<committed, working, inTransaction, durable, returned, abandoned>>

RollBack(t) ==
    /\ raising[t] \/ rollbackOnly[t]
    /\ Ends(t)
    /\ working' = committed /\ inTransaction' = FALSE
    /\ failed' = failed \cup {Unit(t)}
    /\ UNCHANGED <<committed, durable, returned, abandoned>>

\* "except Exception" does not see a BaseException: only "finally" runs.
Abandon(t) ==
    /\ raising[t]
    /\ Ends(t)
    /\ failed' = failed \cup {Unit(t)}
    /\ abandoned' = abandoned \cup {Unit(t)}
    /\ UNCHANGED <<committed, working, inTransaction, durable, returned>>

----------------------------------------------------------------------------
(* Inside a block *)

Running(t) == depth[t] > 0 /\ inTransaction /\ ~raising[t]

Write(t) ==
    /\ Running(t)
    /\ writes[t] < MaxWrites
    /\ writes' = [writes EXCEPT ![t] = @ + 1]
    /\ working' = working \cup {<<Unit(t), writes[t] + 1>>}
    /\ UNCHANGED <<committed, inTransaction, closed, lock, depth, rollbackOnly, raising, unit,
                   history, seen>>

\* A statement or the Python code between statements raises, ...
Raise(t) ==
    /\ Running(t)
    /\ raising' = [raising EXCEPT ![t] = TRUE]
    /\ UNCHANGED <<connection, lock, depth, rollbackOnly, unit, writes, history, seen>>

\* ... and the code of a block the exception has reached catches it.
Catch(t) ==
    /\ depth[t] > 0 /\ raising[t]
    /\ raising' = [raising EXCEPT ![t] = FALSE]
    /\ UNCHANGED <<connection, lock, depth, rollbackOnly, unit, writes, history, seen>>

\* The lock is re-entrant: a nested block of its owner enters at once.
Nest(t) ==
    /\ Running(t) /\ depth[t] < MaxDepth
    /\ depth' = [depth EXCEPT ![t] = @ + 1]
    /\ UNCHANGED <<connection, lock, rollbackOnly, raising, unit, writes, history, seen>>

LeaveUnlocks(t) ==                                         \* mutant
    /\ Running(t) /\ depth[t] > 1
    /\ depth' = [depth EXCEPT ![t] = @ - 1]
    /\ lock' = Free
    /\ UNCHANGED <<connection, rollbackOnly, raising, unit, writes, history, seen>>

LeaveCommits(t) ==                                         \* mutant
    /\ Running(t) /\ depth[t] > 1
    /\ depth' = [depth EXCEPT ![t] = @ - 1]
    /\ committed' = working
    /\ UNCHANGED <<working, inTransaction, closed, lock, rollbackOnly, raising, unit, writes,
                   history, seen>>

Leave(t) ==
    /\ Running(t) /\ depth[t] > 1
    /\ depth' = [depth EXCEPT ![t] = @ - 1]
    /\ UNCHANGED <<connection, lock, rollbackOnly, raising, unit, writes, history, seen>>

LeaveRaisingUnmarked(t) ==                                 \* mutant
    /\ raising[t] /\ depth[t] > 1
    /\ depth' = [depth EXCEPT ![t] = @ - 1]
    /\ broken' = broken \cup {Unit(t)}
    /\ UNCHANGED <<connection, lock, rollbackOnly, raising, unit, writes, durable, returned,
                   failed, abandoned, seen>>

\* A nested block that raises dooms the unit, whoever catches the exception.
LeaveRaising(t) ==
    /\ raising[t] /\ depth[t] > 1
    /\ depth' = [depth EXCEPT ![t] = @ - 1]
    /\ rollbackOnly' = [rollbackOnly EXCEPT ![t] = TRUE]
    /\ broken' = broken \cup {Unit(t)}
    /\ UNCHANGED <<connection, lock, raising, unit, writes, durable, returned,
                   failed, abandoned, seen>>

----------------------------------------------------------------------------
\* fetchone and fetchall outside a transaction.
Read(t) ==
    /\ depth[t] = 0 /\ lock = Free /\ ~closed
    /\ seen' = [seen EXCEPT ![t] = working]
    /\ UNCHANGED <<connection, lock, locals, history>>

\* close() waits for the lock; SQLite drops a transaction still open.
Close ==
    /\ lock = Free /\ ~closed
    /\ closed' = TRUE
    /\ working' = committed /\ inTransaction' = FALSE
    /\ UNCHANGED <<committed, lock, locals, history, seen>>

\* The process dies and is started again on the same file.
Crash ==
    /\ working' = committed /\ inTransaction' = FALSE /\ closed' = FALSE
    /\ lock' = Free
    /\ depth' = [t \in Threads |-> 0]
    /\ rollbackOnly' = [t \in Threads |-> FALSE]
    /\ raising' = [t \in Threads |-> FALSE]
    /\ writes' = [t \in Threads |-> 0]
    /\ UNCHANGED <<committed, unit, history, seen>>

Next ==
    \/ Close \/ Crash
    \/ \E t \in Threads :
          \/ Begin(t) \/ BeginRefused(t) \/ Commit(t) \/ Return(t) \/ RollBack(t)
          \/ Abandon(t) \/ Write(t) \/ Raise(t) \/ Catch(t) \/ Nest(t) \/ Leave(t) \/ LeaveRaising(t)
          \/ Read(t)

Spec == Init /\ [][Next]_vars

----------------------------------------------------------------------------
(* Properties *)

Units == Threads \X (1..MaxUnits)
Writes == Units \X (1..MaxWrites)
Commits == [unit : Units, size : 0..MaxWrites]

TypeOK ==
    /\ committed \subseteq Writes /\ working \subseteq Writes
    /\ inTransaction \in BOOLEAN /\ closed \in BOOLEAN
    /\ lock \in Threads \cup {Free}
    /\ depth \in [Threads -> 0..MaxDepth]
    /\ rollbackOnly \in [Threads -> BOOLEAN] /\ raising \in [Threads -> BOOLEAN]
    /\ unit \in [Threads -> 0..MaxUnits] /\ writes \in [Threads -> 0..MaxWrites]
    /\ durable \subseteq Commits /\ returned \subseteq Units
    /\ failed \subseteq Units /\ broken \subseteq Units /\ abandoned \subseteq Units
    /\ seen \in [Threads -> SUBSET Writes]

DurableUnits == {s.unit : s \in durable}

\* The lock is held exactly while a block is open, by the thread that opened
\* it; the connection is in a transaction until the unit is committed, and only
\* until then may an exception be under way.
LockInv ==
    \A t \in Threads :
        /\ depth[t] > 0 <=> lock = t
        /\ depth[t] > 0 => ~closed /\ unit[t] > 0
        /\ depth[t] = 0 => writes[t] = 0
        /\ depth[t] > 0 /\ ~inTransaction =>
              depth[t] = 1 /\ ~rollbackOnly[t] /\ Unit(t) \in DurableUnits
        /\ raising[t] => depth[t] > 0 /\ inTransaction

AbandonedWrites == {w \in Writes : w[1] \in abandoned}

\* What the connection sees beyond the file is the open unit's own writes, or
\* those of an abandoned one.
WorkingInv ==
    /\ \A t \in Threads :
          depth[t] > 0 => working = committed \cup WritesOf(Unit(t), writes[t])
    /\ ~inTransaction => working = committed
    /\ lock = Free => working \subseteq committed \cup AbandonedWrites

\* Units are numbered: the open one, and those to come, have no result yet, and
\* a doomed open unit is marked for rollback.
UnitInv ==
    /\ \A s \in durable :
          LET t == s.unit[1] IN
          s.unit[2] <= unit[t] /\ (depth[t] > 0 /\ inTransaction => s.unit[2] < unit[t])
    /\ \A u \in failed \cup broken : u[2] <= unit[u[1]]
    /\ \A u \in failed : depth[u[1]] > 0 => u[2] < unit[u[1]]
    /\ \A t \in Threads : depth[t] > 0 /\ Unit(t) \in broken => rollbackOnly[t]

Inv == TypeOK /\ LockInv /\ WorkingInv /\ UnitInv

\* The file holds exactly the writes of the committed units, each with all of
\* its writes; a unit whose "with" returned is one of them, one whose "with"
\* raised is not: no exception, no swallowed exception, no close, crash or
\* abandoned transaction leaves a part behind or loses what a caller was told
\* is done (database.py transaction, "own one transaction").
AllOrNothing ==
    /\ committed = UNION {WritesOf(s.unit, s.size) : s \in durable}
    /\ returned \subseteq DurableUnits
    /\ failed \cap DurableUnits = {}

\* A unit with a nested block that raised is never committed, even if a caller
\* in between caught the exception (database.py:54-60).
NestedFailureDoomsUnit == \A s \in durable : s.unit \notin broken

\* What a thread reads outside a transaction is committed, or was left behind by
\* a unit abandoned without its rollback: never the writes of a unit still under
\* way, nor of one whose rollback ran (database.py:70-82).
NoDirtyReads == \A t \in Threads : seen[t] \subseteq committed \cup AbandonedWrites

\* The transaction manager implements the abstract store.
Abstract == INSTANCE AtomicStore WITH
    data <- committed, over <- failed \cup DurableUnits

ImplementsAtomicStore == Abstract!Spec
=============================================================================
