--------------------------- MODULE DatabaseProofs ---------------------------
(***************************************************************************)
(* All or nothing, and clean reads, for every number of threads, nested    *)
(* blocks, writes and units.                                               *)
(***************************************************************************)
EXTENDS Database, TLAPS

USE FreeAssumption, BoundAssumption

\* An empty file and no open block satisfy the invariant.
LEMMA InitInv == Init => Inv
  <1> SUFFICES ASSUME Init PROVE Inv
    OBVIOUS
  <1>1. TypeOK
    <2>1. inTransaction \in BOOLEAN /\ closed \in BOOLEAN
      BY DEF Init
    <2> QED
      BY <2>1 DEF Init, TypeOK
  <1>2. LockInv /\ WorkingInv /\ UnitInv
    BY DEF Init, LockInv, WorkingInv, UnitInv
  <1> QED
    BY <1>1, <1>2 DEF Inv

\* A unit that has been started is one of the units.
LEMMA UnitType ==
    ASSUME TypeOK, NEW t \in Threads, NEW n \in 1..MaxUnits
    PROVE  <<t, n>> \in Units
  BY DEF Units

\* Every step preserves the types.
LEMMA NextTypeOK ==
    ASSUME TypeOK, LockInv, [Next]_vars
    PROVE  TypeOK'
  <1>. USE DEF TypeOK, connection, locals, history
  <1>1. CASE Close
    BY <1>1 DEF Close
  <1>2. CASE Crash
    <2>1. inTransaction' \in BOOLEAN /\ closed' \in BOOLEAN
      BY <1>2 DEF Crash
    <2> QED
      BY <1>2, <2>1 DEF Crash
  <1>3. ASSUME NEW t \in Threads, Begin(t) PROVE TypeOK'
    BY <1>3 DEF Starts, Begin
  <1>4. ASSUME NEW t \in Threads, BeginRefused(t) PROVE TypeOK'
    <2>1. unit[t] + 1 \in 1..MaxUnits /\ unit' = [unit EXCEPT ![t] = @ + 1]
      BY <1>4 DEF Starts, BeginRefused
    <2>2. <<t, unit'[t]>> \in Units
      BY <2>1, UnitType
    <2>3. failed' \subseteq Units
      BY <1>4, <2>2 DEF BeginRefused
    <2>4. inTransaction' \in BOOLEAN
      BY <1>4 DEF BeginRefused
    <2> QED
      BY <1>4, <2>1, <2>3, <2>4 DEF Starts, BeginRefused
  <1>5. ASSUME NEW t \in Threads, Commit(t) PROVE TypeOK'
    <2>1. Unit(t) \in Units
      BY <1>5, UnitType DEF Commit, LockInv, Unit
    <2>2. durable' \subseteq Commits
      BY <1>5, <2>1 DEF Commit, Commits
    <2>3. inTransaction' \in BOOLEAN
      BY <1>5 DEF Commit
    <2> QED
      BY <1>5, <2>2, <2>3 DEF Commit
  <1>16. ASSUME NEW t \in Threads, Return(t) PROVE TypeOK'
    <2>1. Unit(t) \in Units
      BY <1>16, UnitType DEF Ends, Return, LockInv, Unit
    <2>2. returned' \subseteq Units
      BY <1>16, <2>1 DEF Return
    <2> QED
      BY <1>16, <2>2 DEF Ends, Return
  <1>6. ASSUME NEW t \in Threads, RollBack(t) PROVE TypeOK'
    <2>1. Unit(t) \in Units
      BY <1>6, UnitType DEF Ends, RollBack, LockInv, Unit
    <2>2. failed' \subseteq Units
      BY <1>6, <2>1 DEF RollBack
    <2>3. inTransaction' \in BOOLEAN
      BY <1>6 DEF RollBack
    <2> QED
      BY <1>6, <2>2, <2>3 DEF Ends, RollBack
  <1>7. ASSUME NEW t \in Threads, Abandon(t) PROVE TypeOK'
    <2>1. Unit(t) \in Units
      BY <1>7, UnitType DEF Ends, Abandon, LockInv, Unit
    <2>2. failed' \subseteq Units /\ abandoned' \subseteq Units
      BY <1>7, <2>1 DEF Abandon
    <2> QED
      BY <1>7, <2>2 DEF Ends, Abandon
  <1>8. ASSUME NEW t \in Threads, Write(t) PROVE TypeOK'
    BY <1>8 DEF Running, Write, LockInv, Writes, Units, Unit
  <1>9. ASSUME NEW t \in Threads, Raise(t) PROVE TypeOK'
    BY <1>9 DEF Running, Raise
  <1>10. ASSUME NEW t \in Threads, Catch(t) PROVE TypeOK'
    BY <1>10 DEF Catch
  <1>11. ASSUME NEW t \in Threads, Nest(t) PROVE TypeOK'
    BY <1>11 DEF Running, Nest
  <1>12. ASSUME NEW t \in Threads, Leave(t) PROVE TypeOK'
    BY <1>12 DEF Running, Leave
  <1>13. ASSUME NEW t \in Threads, LeaveRaising(t) PROVE TypeOK'
    BY <1>13 DEF LeaveRaising, LockInv, Units, Unit
  <1>14. ASSUME NEW t \in Threads, Read(t) PROVE TypeOK'
    BY <1>14 DEF Read
  <1>15. CASE UNCHANGED vars
    BY <1>15 DEF vars
  <1> QED
    BY <1>1, <1>2, <1>3, <1>4, <1>5, <1>6, <1>7, <1>8, <1>9, <1>10, <1>11, <1>12, <1>13, <1>14, <1>15, <1>16 DEF Next

\* A commit adds its unit to the durable ones.
LEMMA CommitDurable ==
    ASSUME NEW t \in Threads, Commit(t)
    PROVE  DurableUnits' = DurableUnits \cup {Unit(t)}
  <1>. DEFINE new == [unit |-> Unit(t), size |-> writes[t]]
  <1>1. new.unit = Unit(t) /\ durable' = durable \cup {new}
    BY DEF Commit
  <1>. HIDE DEF new
  <1> QED
    BY <1>1 DEF DurableUnits

\* Every step preserves: the lock is held exactly while a block is open.
LEMMA NextLockInv ==
    ASSUME TypeOK, LockInv, [Next]_vars
    PROVE  LockInv'
  <1>. USE DEF TypeOK, LockInv, DurableUnits, Unit, connection, locals, history
  <1>1. CASE Close
    BY <1>1 DEF Close
  <1>2. CASE Crash
    BY <1>2 DEF Crash
  <1>3. ASSUME NEW t \in Threads, Begin(t) PROVE LockInv'
    BY <1>3 DEF Starts, Begin
  <1>4. ASSUME NEW t \in Threads, BeginRefused(t) PROVE LockInv'
    BY <1>4 DEF Starts, BeginRefused
  <1>5. ASSUME NEW t \in Threads, Commit(t) PROVE LockInv'
    \* The unit is durable, and no other block is open.
    <2>1. Unit(t)' = Unit(t) /\ Unit(t) \in DurableUnits'
      BY <1>5, CommitDurable DEF Commit
    <2>2. \A o \in Threads : depth[o] > 0 => o = t
      BY <1>5 DEF Commit
    <2>. HIDE DEF DurableUnits, Unit
    <2> QED
      BY <1>5, <2>1, <2>2 DEF Commit
  <1>16. ASSUME NEW t \in Threads, Return(t) PROVE LockInv'
    BY <1>16 DEF Ends, Return
  <1>6. ASSUME NEW t \in Threads, RollBack(t) PROVE LockInv'
    BY <1>6 DEF Ends, RollBack
  <1>7. ASSUME NEW t \in Threads, Abandon(t) PROVE LockInv'
    BY <1>7 DEF Ends, Abandon
  <1>8. ASSUME NEW t \in Threads, Write(t) PROVE LockInv'
    BY <1>8 DEF Running, Write
  <1>9. ASSUME NEW t \in Threads, Raise(t) PROVE LockInv'
    BY <1>9 DEF Running, Raise
  <1>10. ASSUME NEW t \in Threads, Catch(t) PROVE LockInv'
    BY <1>10 DEF Catch
  <1>11. ASSUME NEW t \in Threads, Nest(t) PROVE LockInv'
    BY <1>11 DEF Running, Nest
  <1>12. ASSUME NEW t \in Threads, Leave(t) PROVE LockInv'
    BY <1>12 DEF Running, Leave
  <1>13. ASSUME NEW t \in Threads, LeaveRaising(t) PROVE LockInv'
    BY <1>13 DEF LeaveRaising
  <1>14. ASSUME NEW t \in Threads, Read(t) PROVE LockInv'
    BY <1>14 DEF Read
  <1>15. CASE UNCHANGED vars
    BY <1>15 DEF vars
  <1> QED
    BY <1>1, <1>2, <1>3, <1>4, <1>5, <1>6, <1>7, <1>8, <1>9, <1>10, <1>11, <1>12, <1>13, <1>14, <1>15, <1>16 DEF Next

\* Every step preserves what the connection sees beyond the file.
LEMMA NextWorkingInv ==
    ASSUME Inv, [Next]_vars
    PROVE  WorkingInv'
  <1>. USE DEF Inv, TypeOK, LockInv, WorkingInv, WritesOf, AbandonedWrites, Unit, connection, locals, history
  <1>1. CASE Close
    BY <1>1 DEF Close
  <1>2. CASE Crash
    BY <1>2 DEF Crash
  <1>3. ASSUME NEW t \in Threads, Begin(t) PROVE WorkingInv'
    <2>1. writes'[t] = 0 /\ WritesOf(Unit(t)', writes'[t]) = {}
      <3>1. writes'[t] = 0
        BY <1>3 DEF Starts, Begin
      <3>2. \A u : WritesOf(u, 0) = {}
        OBVIOUS
      <3>. HIDE DEF WritesOf, Unit
      <3> QED
        BY <3>1, <3>2
    <2>2. \A o \in Threads : depth'[o] > 0 => o = t
      BY <1>3 DEF Starts, Begin
    <2>3. working' = committed' /\ inTransaction' /\ lock' # Free
      BY <1>3 DEF Starts, Begin
    <2>. HIDE DEF WritesOf, Unit, AbandonedWrites
    <2>4. committed' \cup WritesOf(Unit(t)', writes'[t]) = working'
      BY <2>1, <2>3
    <2>5. ASSUME NEW o \in Threads, depth'[o] > 0
          PROVE  working' = committed' \cup WritesOf(Unit(o)', writes'[o])
      BY <2>2, <2>4, <2>5
    <2> QED
      BY <2>3, <2>5
  <1>4. ASSUME NEW t \in Threads, BeginRefused(t) PROVE WorkingInv'
    BY <1>4 DEF Starts, BeginRefused
  <1>5. ASSUME NEW t \in Threads, Commit(t) PROVE WorkingInv'
    BY <1>5 DEF Commit
  <1>16. ASSUME NEW t \in Threads, Return(t) PROVE WorkingInv'
    BY <1>16 DEF Ends, Return
  <1>6. ASSUME NEW t \in Threads, RollBack(t) PROVE WorkingInv'
    BY <1>6 DEF Ends, RollBack
  <1>7. ASSUME NEW t \in Threads, Abandon(t) PROVE WorkingInv'
    BY <1>7 DEF Ends, Abandon
  <1>8. ASSUME NEW t \in Threads, Write(t) PROVE WorkingInv'
    BY <1>8 DEF Running, Write
  <1>9. ASSUME NEW t \in Threads, Raise(t) PROVE WorkingInv'
    BY <1>9 DEF Running, Raise
  <1>10. ASSUME NEW t \in Threads, Catch(t) PROVE WorkingInv'
    BY <1>10 DEF Catch
  <1>11. ASSUME NEW t \in Threads, Nest(t) PROVE WorkingInv'
    BY <1>11 DEF Running, Nest
  <1>12. ASSUME NEW t \in Threads, Leave(t) PROVE WorkingInv'
    BY <1>12 DEF Running, Leave
  <1>13. ASSUME NEW t \in Threads, LeaveRaising(t) PROVE WorkingInv'
    BY <1>13 DEF LeaveRaising
  <1>14. ASSUME NEW t \in Threads, Read(t) PROVE WorkingInv'
    BY <1>14 DEF Read
  <1>15. CASE UNCHANGED vars
    BY <1>15 DEF vars
  <1> QED
    BY <1>1, <1>2, <1>3, <1>4, <1>5, <1>6, <1>7, <1>8, <1>9, <1>10, <1>11, <1>12, <1>13, <1>14, <1>15, <1>16 DEF Next

\* Every step preserves the numbering of units and the mark of doomed ones.
LEMMA NextUnitInv ==
    ASSUME Inv, [Next]_vars
    PROVE  UnitInv'
  <1>. USE DEF Inv, TypeOK, LockInv, UnitInv, DurableUnits, Units, Commits, Unit, connection, locals, history
  <1>1. CASE Close
    BY <1>1 DEF Close
  <1>2. CASE Crash
    BY <1>2 DEF Crash
  <1>3. ASSUME NEW t \in Threads, Begin(t) PROVE UnitInv'
    BY <1>3 DEF Starts, Begin
  <1>4. ASSUME NEW t \in Threads, BeginRefused(t) PROVE UnitInv'
    BY <1>4 DEF Starts, BeginRefused
  <1>5. ASSUME NEW t \in Threads, Commit(t) PROVE UnitInv'
    BY <1>5 DEF Commit
  <1>16. ASSUME NEW t \in Threads, Return(t) PROVE UnitInv'
    BY <1>16 DEF Ends, Return
  <1>6. ASSUME NEW t \in Threads, RollBack(t) PROVE UnitInv'
    BY <1>6 DEF Ends, RollBack
  <1>7. ASSUME NEW t \in Threads, Abandon(t) PROVE UnitInv'
    BY <1>7 DEF Ends, Abandon
  <1>8. ASSUME NEW t \in Threads, Write(t) PROVE UnitInv'
    BY <1>8 DEF Running, Write
  <1>9. ASSUME NEW t \in Threads, Raise(t) PROVE UnitInv'
    BY <1>9 DEF Running, Raise
  <1>10. ASSUME NEW t \in Threads, Catch(t) PROVE UnitInv'
    BY <1>10 DEF Catch
  <1>11. ASSUME NEW t \in Threads, Nest(t) PROVE UnitInv'
    BY <1>11 DEF Running, Nest
  <1>12. ASSUME NEW t \in Threads, Leave(t) PROVE UnitInv'
    BY <1>12 DEF Running, Leave
  <1>13. ASSUME NEW t \in Threads, LeaveRaising(t) PROVE UnitInv'
    BY <1>13 DEF LeaveRaising
  <1>14. ASSUME NEW t \in Threads, Read(t) PROVE UnitInv'
    BY <1>14 DEF Read
  <1>15. CASE UNCHANGED vars
    BY <1>15 DEF vars
  <1> QED
    BY <1>1, <1>2, <1>3, <1>4, <1>5, <1>6, <1>7, <1>8, <1>9, <1>10, <1>11, <1>12, <1>13, <1>14, <1>15, <1>16 DEF Next

\* The invariant is inductive.
LEMMA NextInv == Inv /\ [Next]_vars => Inv'
  BY NextTypeOK, NextLockInv, NextWorkingInv, NextUnitInv DEF Inv

\* The type invariant, who holds the lock and what the connection sees.
THEOREM DatabaseInvariant == Spec => []Inv
  BY InitInv, NextInv, PTL DEF Spec

----------------------------------------------------------------------------
(* All or nothing *)

\* An open unit is not over until it is committed.
LEMMA OpenUnitIsNotOver ==
    ASSUME Inv, NEW t \in Threads, depth[t] > 0
    PROVE  /\ Unit(t) \notin failed
           /\ inTransaction => Unit(t) \notin DurableUnits
  <1>1. inTransaction => \A s \in durable : s.unit[1] = t => s.unit[2] < unit[t]
    BY DEF Inv, UnitInv
  <1>2. \A u \in failed : u[1] = t => u[2] < unit[t]
    BY DEF Inv, UnitInv
  <1>3. unit[t] \in Nat
    BY DEF Inv, TypeOK
  <1> QED
    BY <1>1, <1>2, <1>3 DEF DurableUnits, Unit

\* A unit whose BEGIN fails is a new one.
LEMMA RefusedUnitIsNotOver ==
    ASSUME Inv, NEW t \in Threads, BeginRefused(t)
    PROVE  <<t, unit'[t]>> \notin failed \cup DurableUnits
  <1>1. unit'[t] = unit[t] + 1 /\ unit[t] \in Nat
    BY DEF BeginRefused, Starts, Inv, TypeOK
  <1>2. \A s \in durable : s.unit[1] = t => s.unit[2] <= unit[t]
    BY DEF Inv, UnitInv
  <1>3. \A u \in failed : u[1] = t => u[2] <= unit[t]
    BY DEF Inv, UnitInv
  <1> QED
    BY <1>1, <1>2, <1>3 DEF DurableUnits

\* Only a commit changes the file, by the whole of its unit.
LEMMA NextAllOrNothing ==
    ASSUME Inv, AllOrNothing, [Next]_vars
    PROVE  AllOrNothing'
  <1>1. ASSUME NEW t \in Threads, Commit(t) PROVE AllOrNothing'
    <2>1. committed' = committed \cup WritesOf(Unit(t), writes[t])
      BY <1>1 DEF Commit, Inv, WorkingInv
    <2>2. durable' = durable \cup {[unit |-> Unit(t), size |-> writes[t]]}
      BY <1>1 DEF Commit
    <2>3. ASSUME NEW w
          PROVE  w \in committed' <=> \E s \in durable' : w \in WritesOf(s.unit, s.size)
      <3>1. w \in committed <=> \E s \in durable : w \in WritesOf(s.unit, s.size)
        BY Zenon DEF AllOrNothing
      <3>2. (\E s \in durable' : w \in WritesOf(s.unit, s.size))
               <=> \/ \E s \in durable : w \in WritesOf(s.unit, s.size)
                   \/ w \in WritesOf(Unit(t), writes[t])
        <4>. DEFINE new == [unit |-> Unit(t), size |-> writes[t]]
        <4>1. new.unit = Unit(t) /\ new.size = writes[t] /\ durable' = durable \cup {new}
          BY <2>2
        <4>. HIDE DEF new
        <4> QED
          BY <4>1
      <3> QED
        BY <2>1, <3>1, <3>2
    <2>4. committed' = UNION {WritesOf(s.unit, s.size) : s \in durable'}
      BY <2>3, Zenon
    <2>5. returned' \subseteq DurableUnits'
      BY <1>1, CommitDurable DEF Commit, AllOrNothing
    <2>6. failed' \cap DurableUnits' = {}
      <3>1. depth[t] > 0 /\ failed' = failed
        BY <1>1 DEF Commit
      <3> QED
        BY <1>1, <3>1, CommitDurable, OpenUnitIsNotOver DEF AllOrNothing
    <2> QED
      BY <2>4, <2>5, <2>6 DEF AllOrNothing
  <1>2. ASSUME NEW t \in Threads, Return(t) PROVE AllOrNothing'
    \* The connection left its transaction: the unit is committed.
    <2>1. Unit(t) \in DurableUnits
      BY <1>2 DEF Return, Ends, Inv, LockInv
    <2> QED
      BY <1>2, <2>1 DEF Return, AllOrNothing, DurableUnits
  <1>3. ASSUME NEW t \in Threads, RollBack(t) \/ Abandon(t) PROVE AllOrNothing'
    \* A unit that is rolled back or abandoned is still in its transaction.
    <2>1. depth[t] > 0 /\ UNCHANGED <<committed, durable, returned>> /\ failed' = failed \cup {Unit(t)}
      BY <1>3 DEF RollBack, Abandon, Ends
    <2>2. inTransaction
      BY <1>3, <2>1 DEF RollBack, Abandon, Inv, LockInv
    <2> QED
      BY <2>1, <2>2, OpenUnitIsNotOver DEF AllOrNothing, DurableUnits
  <1>4. ASSUME NEW t \in Threads, BeginRefused(t) PROVE AllOrNothing'
    <2>1. UNCHANGED <<committed, durable, returned>> /\ failed' = failed \cup {<<t, unit'[t]>>}
      BY <1>4 DEF BeginRefused
    <2> QED
      BY <1>4, <2>1, RefusedUnitIsNotOver DEF AllOrNothing, DurableUnits
  <1>5. CASE UNCHANGED <<committed, durable, returned, failed>>
    BY <1>5 DEF AllOrNothing, DurableUnits
  <1>6. (\A t \in Threads :
            ~Commit(t) /\ ~Return(t) /\ ~RollBack(t) /\ ~Abandon(t) /\ ~BeginRefused(t))
          => UNCHANGED <<committed, durable, returned, failed>>
    BY DEF Next, vars, connection, history, Close, Crash, Begin,
           Write, Raise, Catch, Nest, Leave, LeaveRaising, Read
  <1> QED
    BY <1>1, <1>2, <1>3, <1>4, <1>5, <1>6

\* The file holds the whole committed units, those whose callers saw them return
\* among them, and nothing of any other.
THEOREM DatabaseAllOrNothing == Spec => []AllOrNothing
  <1>1. Init => AllOrNothing
    BY DEF Init, AllOrNothing, DurableUnits
  <1> QED
    BY <1>1, DatabaseInvariant, NextAllOrNothing, PTL DEF Spec

----------------------------------------------------------------------------
(* Swallowed exceptions *)

\* A unit that commits has no nested block that raised.
LEMMA NextNestedFailureDoomsUnit ==
    ASSUME Inv, NestedFailureDoomsUnit, [Next]_vars
    PROVE  NestedFailureDoomsUnit'
  <1>. USE DEF NestedFailureDoomsUnit
  <1>1. ASSUME NEW t \in Threads, Commit(t) PROVE NestedFailureDoomsUnit'
    \* A unit that commits is not marked, so no nested block of it raised.
    BY <1>1 DEF Commit, Inv, UnitInv
  <1>2. ASSUME NEW t \in Threads, LeaveRaising(t) PROVE NestedFailureDoomsUnit'
    \* The doomed unit is still open: it is none of those that committed.
    <2>1. \A s \in durable : s.unit # Unit(t)
      <3>1. depth[t] > 0 /\ inTransaction
        BY <1>2 DEF LeaveRaising, Inv, TypeOK, LockInv
      <3>2. \A s \in durable : s.unit[1] = t => s.unit[2] < unit[t]
        BY <3>1 DEF Inv, UnitInv
      <3> QED
        BY <3>2 DEF Unit, Inv, TypeOK
    <2> QED
      BY <1>2, <2>1 DEF LeaveRaising
  <1>3. CASE UNCHANGED <<durable, broken>>
    BY <1>3
  <1>4. (\A t \in Threads : ~Commit(t) /\ ~LeaveRaising(t)) => UNCHANGED <<durable, broken>>
    BY DEF Next, vars, history, Close, Crash, Begin, BeginRefused, Return, RollBack, Abandon, Ends,
           Write, Raise, Catch, Nest, Leave, Read
  <1> QED
    BY <1>1, <1>2, <1>3, <1>4

\* Catching the exception of a nested block does not save its unit.
THEOREM DatabaseNestedFailureDoomsUnit == Spec => []NestedFailureDoomsUnit
  <1>1. Init => NestedFailureDoomsUnit
    BY DEF Init, NestedFailureDoomsUnit
  <1> QED
    BY <1>1, DatabaseInvariant, NextNestedFailureDoomsUnit, PTL DEF Spec

----------------------------------------------------------------------------
(* Reads *)

\* A read takes what the connection sees while no block is open.
LEMMA NextNoDirtyReads ==
    ASSUME Inv, NoDirtyReads, [Next]_vars
    PROVE  NoDirtyReads'
  <1>1. committed \cup AbandonedWrites \subseteq (committed \cup AbandonedWrites)'
    <2>1. abandoned \subseteq abandoned'
      BY DEF Next, vars, history, Close, Crash, Begin, BeginRefused, Commit, Return, RollBack, Abandon,
             Write, Raise, Catch, Nest, Leave, LeaveRaising, Read
    <2>2. committed \subseteq committed'
      <3>1. ASSUME NEW t \in Threads, Commit(t) PROVE committed \subseteq committed'
        BY <3>1 DEF Commit, Inv, WorkingInv
      <3>2. (\A t \in Threads : ~Commit(t)) => committed' = committed
        BY DEF Next, vars, connection, Close, Crash, Begin, BeginRefused, Return, RollBack, Abandon,
               Write, Raise, Catch, Nest, Leave, LeaveRaising, Read
      <3> QED
        BY <3>1, <3>2
    <2> QED
      BY <2>1, <2>2 DEF AbandonedWrites
  <1>2. ASSUME NEW t \in Threads, Read(t) PROVE NoDirtyReads'
    \* The lock is free: the connection sees the file and abandoned units.
    <2>1. working \subseteq committed \cup AbandonedWrites
      BY <1>2 DEF Read, Inv, WorkingInv
    <2>2. \A o \in Threads : seen'[o] = IF o = t THEN working ELSE seen[o]
      BY <1>2 DEF Read, Inv, TypeOK
    <2> QED
      BY <1>1, <2>1, <2>2 DEF NoDirtyReads
  <1>3. (\A t \in Threads : ~Read(t)) => seen' = seen
    BY DEF Next, vars, Close, Crash, Begin, BeginRefused, Commit, Return, RollBack, Abandon, Ends,
           Write, Raise, Catch, Nest, Leave, LeaveRaising
  <1> QED
    BY <1>1, <1>2, <1>3 DEF NoDirtyReads

\* Only what a unit left without its rollback can be read before it is committed.
THEOREM DatabaseReadsAreClean == Spec => []NoDirtyReads
  <1>1. Init => NoDirtyReads
    BY DEF Init, NoDirtyReads
  <1> QED
    BY <1>1, DatabaseInvariant, NextNoDirtyReads, PTL DEF Spec

----------------------------------------------------------------------------
(* Refinement *)

Over == failed \cup DurableUnits

\* A step of the transaction manager commits one unit, aborts one, or is a
\* step the abstract store does not see.
LEMMA StepRefines ==
    ASSUME Inv, Inv', [Next]_vars
    PROVE  [Abstract!Next]_<<committed, Over>>
  <1>1. ASSUME NEW t \in Threads, Commit(t) PROVE Abstract!Next
    <2>1. depth[t] > 0 /\ inTransaction
      BY <1>1 DEF Commit
    <2>2. writes[t] \in 0..MaxWrites /\ Unit(t) \in Units
      BY <2>1, UnitType DEF Inv, TypeOK, LockInv, Unit
    <2>3. committed' = committed \cup Abstract!WritesOf(Unit(t), writes[t])
      BY <1>1, <2>1 DEF Commit, Inv, WorkingInv, WritesOf, Abstract!WritesOf
    <2>4. Over' = Over \cup {Unit(t)}
      BY <1>1, CommitDurable DEF Commit, Over
    <2> QED
      BY <2>1, <2>2, <2>3, <2>4, OpenUnitIsNotOver DEF Abstract!Next, Abstract!Commit, Over
  <1>2. ASSUME NEW t \in Threads, RollBack(t) \/ Abandon(t)
        PROVE  Abstract!Next
    <2>1. depth[t] > 0 /\ UNCHANGED <<committed, durable>> /\ failed' = failed \cup {Unit(t)}
      BY <1>2 DEF RollBack, Abandon, Ends
    <2>2. inTransaction
      BY <1>2, <2>1 DEF RollBack, Abandon, Inv, LockInv
    <2>3. Unit(t) \in Units
      BY <2>1, UnitType DEF Inv, TypeOK, LockInv, Unit
    <2>4. Unit(t) \notin Over
      BY <2>1, <2>2, OpenUnitIsNotOver DEF Over
    <2>5. committed' = committed /\ Over' = Over \cup {Unit(t)}
      BY <2>1 DEF Over, DurableUnits
    <2> QED
      BY <2>3, <2>4, <2>5 DEF Abstract!Next, Abstract!Abort, Over
  <1>3. ASSUME NEW t \in Threads, BeginRefused(t)
        PROVE  Abstract!Next
    <2>1. unit'[t] \in 1..MaxUnits
      BY <1>3 DEF BeginRefused, Starts, Inv, TypeOK
    <2>2. UNCHANGED <<committed, durable>> /\ failed' = failed \cup {<<t, unit'[t]>>}
      BY <1>3 DEF BeginRefused
    <2>3. committed' = committed /\ Over' = Over \cup {<<t, unit'[t]>>}
      BY <2>2 DEF Over, DurableUnits
    <2> QED
      BY <1>3, <2>1, <2>3, UnitType, RefusedUnitIsNotOver
         DEF Abstract!Next, Abstract!Abort, Over, Inv
  <1>4. (\A t \in Threads :
            ~Commit(t) /\ ~RollBack(t) /\ ~Abandon(t) /\ ~BeginRefused(t))
          => UNCHANGED <<committed, failed, durable>>
    BY DEF Next, vars, connection, history, Close, Crash, Begin, Return, Ends, Write, Raise, Catch, Nest, Leave,
           LeaveRaising, Read
  <1>5. (\E t \in Threads : Commit(t) \/ RollBack(t) \/ Abandon(t) \/ BeginRefused(t))
           => Abstract!Next
    BY <1>1, <1>2, <1>3
  <1>6. UNCHANGED <<committed, failed, durable>> => UNCHANGED <<committed, Over>>
    BY DEF Over, DurableUnits
  <1> QED
    BY <1>4, <1>5, <1>6

\* The transaction manager implements the store of atomic units.
THEOREM DatabaseImplementsAtomicStore == Spec => ImplementsAtomicStore
  <1>1. Init => Abstract!Init
    BY DEF Init, Abstract!Init, DurableUnits
  <1>2. Inv /\ Inv' /\ [Next]_vars
          => [Abstract!Next]_<<committed, failed \cup DurableUnits>>
    BY StepRefines DEF Over
  <1> QED
    BY <1>1, <1>2, DatabaseInvariant, PTL DEF Spec, ImplementsAtomicStore, Abstract!Spec
=============================================================================
