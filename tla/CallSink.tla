------------------------------ MODULE CallSink ------------------------------
(***************************************************************************)
(* RotatingJsonlProviderCallSink (providers/telemetry.py): the file of     *)
(* provider calls and its numbered backups.  One lock admits one handler   *)
(* thread at a time to all of record(), so the model follows the thread    *)
(* that is inside.  A rotation is a chain of file operations, each of      *)
(* which may fail or be the last before the process dies; the failure is   *)
(* logged and the provider call goes on.                                   *)
(*                                                                         *)
(* File 0 is the current one, file i its backup ".i".  A row reaches the   *)
(* file when its buffer is flushed: whole, or in part if the disk is full  *)
(* or the process dies, and then without the newline that ends it.         *)
(***************************************************************************)
EXTENDS Integers, Sequences, FiniteSets, SequencesExt

CONSTANTS Missing,
          MaxBytes, BackupCount,   \* of the configuration, both at least 1
          Sizes,                   \* sizes of rows, larger ones than MaxBytes too
          MaxRows,                 \* bound on the rows offered
          MaxTorn                  \* bound on the rows written in part

ASSUME ConfigAssumption == MaxBytes \in Nat \ {0} /\ BackupCount \in Nat \ {0}
ASSUME SizesAssumption == Sizes \subseteq Nat \ {0} /\ MaxRows \in Nat /\ MaxTorn \in Nat

Rows == [id : Nat, size : Nat \ {0}, whole : BOOLEAN]
Contents == [bytes : Nat, rows : Seq(Rows)]
ASSUME MissingAssumption == Missing \notin Contents

VARIABLES files,       \* size and rows of each file, or Missing
          phase,       \* what the thread inside record() does next, or "idle"
          shift,       \* index of the next file it moves up
          row,         \* the row it records
          \* history variables
          offered,     \* rows offered so far
          recorded,    \* rows that were written, whole or in part, in order
          cut,         \* rotations that were cut short
          torn         \* rows that were written in part

vars == <<files, phase, shift, row, offered, recorded, cut, torn>>

NewFile == [bytes |-> 0, rows |-> <<>>]
Size(f) == IF files[f] = Missing THEN 0 ELSE files[f].bytes

Init ==
    /\ files = [f \in 0..BackupCount |-> IF f = 0 THEN NewFile ELSE Missing]
    /\ phase = "idle" /\ shift = 0
    /\ row = [id |-> 0, size |-> 1, whole |-> TRUE]
    /\ offered = 0 /\ recorded = <<>> /\ cut = 0 /\ torn = 0

----------------------------------------------------------------------------
FitsExactly(size) == Size(0) + size <= MaxBytes            \* mutant

\* No rotation for an empty file, however large the row.
Fits(size) == Size(0) = 0 \/ Size(0) + size <= MaxBytes

\* record() gets the lock and tests the size of the current file.
Record ==
    /\ offered < MaxRows /\ phase = "idle"
    /\ offered' = offered + 1
    /\ \E s \in Sizes :
          /\ row' = [id |-> offered + 1, size |-> s, whole |-> TRUE]
          /\ phase' = IF Fits(s) THEN "append" ELSE "unlink"
    /\ UNCHANGED <<files, shift, recorded, cut, torn>>

\* The oldest backup goes.
Unlink ==
    /\ phase = "unlink"
    /\ files' = [files EXCEPT ![BackupCount] = Missing]
    /\ phase' = "shift" /\ shift' = BackupCount - 1
    /\ UNCHANGED <<row, offered, recorded, cut, torn>>

ShiftCopies ==                                             \* mutant
    /\ phase = "shift"
    /\ files' = IF files[shift] = Missing THEN files
                ELSE [files EXCEPT ![shift + 1] = files[shift]]
    /\ IF shift = 0 THEN phase' = "append" /\ UNCHANGED shift
       ELSE shift' = shift - 1 /\ UNCHANGED phase
    /\ UNCHANGED <<row, offered, recorded, cut, torn>>

\* A file replaces the next older one: backups first, then the current file.
Shift ==
    /\ phase = "shift"
    /\ files' = IF files[shift] = Missing THEN files
                ELSE [files EXCEPT ![shift + 1] = files[shift], ![shift] = Missing]
    /\ IF shift = 0 THEN phase' = "append" /\ UNCHANGED shift
       ELSE shift' = shift - 1 /\ UNCHANGED phase
    /\ UNCHANGED <<row, offered, recorded, cut, torn>>

\* open("a") makes the file if it is gone.
Write(r) ==
    /\ LET file == IF files[0] = Missing THEN NewFile ELSE files[0] IN
       files' = [files EXCEPT ![0] = [bytes |-> file.bytes + r.size,
                                      rows |-> Append(file.rows, r)]]
    /\ recorded' = Append(recorded, r)
    /\ phase' = "idle"
    /\ UNCHANGED <<shift, row, offered, cut>>

AppendRowUnterminated ==                                   \* mutant
    /\ phase = "append"
    /\ Write([row EXCEPT !.whole = FALSE])
    /\ UNCHANGED torn

\* The row and its newline.
AppendRow ==
    /\ phase = "append"
    /\ Write(row)
    /\ UNCHANGED torn

\* Only part of the row is written; the error is swallowed like any other.
TearRow ==
    /\ phase = "append"
    /\ torn < MaxTorn
    /\ \E written \in 1..(row.size - 1) : Write([row EXCEPT !.size = written, !.whole = FALSE])
    /\ torn' = torn + 1

\* A file operation raises (record_provider_event swallows it), or the process
\* dies: the row is lost and the files stay as they are.
Interrupt ==
    /\ phase # "idle"
    /\ cut' = IF phase = "shift" THEN cut + 1 ELSE cut
    /\ phase' = "idle"
    /\ UNCHANGED <<files, shift, row, offered, recorded, torn>>

\* The next process finds the files and touches the current one.
Restart ==
    /\ phase = "idle"
    /\ files[0] = Missing
    /\ files' = [files EXCEPT ![0] = NewFile]
    /\ UNCHANGED <<phase, shift, row, offered, recorded, cut, torn>>

Next ==
    \/ Record \/ Unlink \/ Shift \/ AppendRow \/ TearRow \/ Interrupt \/ Restart

Spec == Init /\ [][Next]_vars

----------------------------------------------------------------------------
(* Properties *)

RowsIn(f) == IF files[f] = Missing THEN <<>> ELSE files[f].rows

\* All rows still on disk, from the oldest backup to the current file.
Retained == FlattenSeq([k \in 1..(BackupCount + 1) |-> RowsIn(BackupCount + 1 - k)])

\* Whatever operation of whatever rotation was the last one, the files read
\* from the oldest backup on hold the latest recorded rows, in order, with
\* none twice and none missing in between.
RetainedIsLatest == IsSuffix(Retained, recorded)

\* The rows a reader of a file, line by line, can parse: those that have a line
\* to themselves.
Readable(rows) ==
    {k \in DOMAIN rows : rows[k].whole /\ (k > 1 => rows[k - 1].whole)}

\* The rows that are not, by file and line.
Unreadable ==
    UNION {{<<f, k>> : k \in DOMAIN RowsIn(f) \ Readable(RowsIn(f))} : f \in 0..BackupCount}

\* A row written in part costs itself and at most the one that follows it on
\* the same line, across rotations and restarts; nothing else is unreadable.
TornRowsAreContained == Cardinality(Unreadable) <= 2 * torn

\* A file outgrows MaxBytes only by a single row that is larger itself.  And the
\* history is as long as configured: rows are dropped only when every backup is
\* in use, but for one backup that each rotation cut short may have cost.
FilesFollowLimits ==
    /\ \A f \in 0..BackupCount : Size(f) <= MaxBytes \/ Len(RowsIn(f)) = 1
    /\ phase = "idle" /\ Len(Retained) < Len(recorded) =>
          Cardinality({f \in 1..BackupCount : RowsIn(f) = <<>>}) <= cut

----------------------------------------------------------------------------
(* The inductive invariant *)

TypeOK ==
    /\ files \in [0..BackupCount -> {Missing} \cup Contents]
    /\ phase \in {"idle", "unlink", "shift", "append"}
    /\ shift \in 0..(BackupCount - 1)
    /\ row \in Rows /\ row.whole
    /\ offered \in 0..MaxRows /\ recorded \in Seq(Rows)
    /\ cut \in Nat /\ torn \in 0..MaxTorn

\* The backup whose place is free while a rotation shifts files.
Gap == IF phase = "shift" THEN {shift + 1} ELSE {}

Backups == 1..BackupCount
Filled(f) == RowsIn(f) # <<>>

\* The files are consecutive pieces of what was recorded, up to its end:
\* start[f] rows come before those of file f.
Placed(start) ==
    /\ start[0] + Len(RowsIn(0)) = Len(recorded)
    /\ \A f \in Backups : start[f] + Len(RowsIn(f)) = start[f - 1]
    /\ \A f, g \in 0..BackupCount : f <= g => start[g] <= start[f]
    /\ \A f \in 0..BackupCount : \A k \in 1..Len(RowsIn(f)) :
          RowsIn(f)[k] = recorded[start[f] + k]

\* The empty backups with recorded rows before them, on disk or dropped.
Holes(start) == {f \in Backups \ Gap : ~Filled(f) /\ start[f] > 0}

SegmentInv ==
    \E start \in [0..BackupCount -> 0..Len(recorded)] :
        Placed(start) /\ Cardinality(Holes(start)) <= cut

\* A rotation has rows to move and a place to move them to.
RotationInv ==
    /\ phase \in {"unlink", "shift"} => Filled(0)
    /\ \A f \in Gap : files[f] = Missing

\* A row goes to a file that has room for it or is empty.
SizeInv ==
    /\ \A f \in 0..BackupCount :
          /\ Size(f) = 0 <=> RowsIn(f) = <<>>
          /\ Size(f) <= MaxBytes \/ Len(RowsIn(f)) = 1
    /\ phase = "append" => Fits(row.size)

\* A row written in part accounts for two rows, and for its own only as long as
\* nothing follows it.
LastIsTorn == Filled(0) /\ ~RowsIn(0)[Len(RowsIn(0))].whole
TornInv ==
    /\ IsFiniteSet(Unreadable)
    /\ Cardinality(Unreadable) + (IF LastIsTorn THEN 1 ELSE 0) <= 2 * torn

Inv == TypeOK /\ SegmentInv /\ RotationInv /\ SizeInv /\ TornInv
=============================================================================
