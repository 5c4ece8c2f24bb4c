-------------------------- MODULE CallSinkProofs --------------------------
(***************************************************************************)
(* The file of provider calls and its backups, for any number and size of  *)
(* them, with any file operation failing or being the last of the process: *)
(* what is on disk is the end of what was recorded, rows written in part   *)
(* spoil at most their neighbours, no file outgrows its limit but by a     *)
(* single row, and a rotation cut short costs one backup at most.          *)
(***************************************************************************)
EXTENDS CallSink, TLAPS, WellFoundedInduction, FiniteSetTheorems, SequenceTheorems

USE ConfigAssumption, SizesAssumption, MissingAssumption

----------------------------------------------------------------------------
(* The fold of the community modules *)

\* Induction over the naturals, as sets: a set of them has a least member.
LEMMA LeastNatural ==
    ASSUME NEW T, T \subseteq Nat, T # {}
    PROVE  \E m \in T : \A k \in T : ~(k < m)
  <1>1. PICK m \in T : \A k \in T : ~(<<k, m>> \in OpToRel(<, Nat))
    BY NatLessThanWellFounded, WFMin
  <1>2. \A k \in T : <<k, m>> \in OpToRel(<, Nat) <=> k < m
    BY <1>1 DEF OpToRel
  <1> QED
    BY <1>1, <1>2

\* A sequence of sequences whose growing concatenations are w flattens to the
\* last of them.
LEMMA FlattenIs ==
    ASSUME NEW seqs, NEW n \in Nat \ {0}, Len(seqs) = n, NEW w,
           \A i \in 1..n : w[i] = IF i = 1 THEN seqs[i] ELSE w[i - 1] \o seqs[i]
    PROVE  FlattenSeq(seqs) = w[n]
  <1>. DEFINE flatten[i \in 1..Len(seqs)] ==
                IF i = 1 THEN seqs[i] ELSE flatten[i - 1] \o seqs[i]
              v == [i \in 1..Len(seqs) |-> w[i]]
  <1>0. v = [i \in 1..Len(seqs) |-> IF i = 1 THEN seqs[i] ELSE v[i - 1] \o seqs[i]]
    <2>1. ASSUME NEW i \in 1..n
          PROVE  w[i] = IF i = 1 THEN seqs[i] ELSE v[i - 1] \o seqs[i]
      <3>1. i # 1 => i - 1 \in 1..Len(seqs)
        OBVIOUS
      <3>2. i # 1 => v[i - 1] = w[i - 1]
        BY <3>1
      <3>. HIDE DEF v
      <3> QED
        BY <3>2
    <2> QED
      BY <2>1
  <1>1. flatten = [i \in 1..Len(seqs) |-> IF i = 1 THEN seqs[i] ELSE flatten[i - 1] \o seqs[i]]
    BY <1>0
  <1>2. FlattenSeq(seqs) = flatten[n]
    BY DEF FlattenSeq
  <1>. HIDE DEF flatten
  <1>. DEFINE T == {i \in 1..n : flatten[i] # w[i]}
  <1>3. T = {}
    <2>. SUFFICES ASSUME T # {} PROVE FALSE
      OBVIOUS
    <2>1. PICK m \in T : \A k \in T : ~(k < m)
      <3>1. T \subseteq Nat
        OBVIOUS
      <3>. HIDE DEF T
      <3> QED
        BY <3>1, LeastNatural
    <2>2. m \in 1..n /\ flatten[m] # w[m]
      BY <2>1
    <2>. HIDE DEF T
    <2>3. CASE m = 1
      <3>1. flatten[1] = seqs[1] /\ w[1] = seqs[1]
        BY <1>1
      <3> QED
        BY <2>2, <2>3, <3>1
    <2>4. CASE m # 1
      <3>1. m - 1 \in 1..n /\ m - 1 < m
        BY <2>2, <2>4
      <3>2. flatten[m - 1] = w[m - 1]
        BY <2>1, <3>1 DEF T
      <3>3. flatten[m] = flatten[m - 1] \o seqs[m]
        BY <1>1, <2>2, <2>4
      <3>4. w[m] = w[m - 1] \o seqs[m]
        BY <2>2, <2>4
      <3> QED
        BY <2>2, <3>2, <3>3, <3>4
    <2> QED
      BY <2>3, <2>4
  <1>4. flatten[n] = w[n]
    <2>1. \A i \in 1..n : flatten[i] = w[i]
      BY <1>3
    <2>2. n \in 1..n
      OBVIOUS
    <2> QED
      BY <2>1, <2>2
  <1> QED
    BY <1>2, <1>4

----------------------------------------------------------------------------
(* What the operations do to the rows of the files *)

Files == 0..BackupCount

\* A file that is not there has no rows.
LEMMA RowsAreSeqs ==
    ASSUME TypeOK, NEW f \in Files
    PROVE  /\ RowsIn(f) \in Seq(Rows) /\ Len(RowsIn(f)) \in Nat
           /\ Filled(f) <=> Len(RowsIn(f)) > 0
           /\ Size(f) \in Nat
  <1>1. RowsIn(f) \in Seq(Rows) /\ Size(f) \in Nat
    BY DEF TypeOK, RowsIn, Size, Contents, Files
  <1> QED
    BY <1>1, EmptySeq DEF Filled

\* The oldest backup goes, the others stay.
LEMMA UnlinkRows ==
    ASSUME TypeOK, Unlink
    PROVE  /\ TypeOK'
           /\ files'[BackupCount] = Missing /\ RowsIn(BackupCount)' = <<>>
           /\ Size(BackupCount)' = 0
           /\ \A f \in Files \ {BackupCount} : RowsIn(f)' = RowsIn(f) /\ Size(f)' = Size(f)
           /\ phase = "unlink" /\ phase' = "shift" /\ shift' = BackupCount - 1
           /\ UNCHANGED <<recorded, cut, torn>>
  <1>1. /\ files' = [files EXCEPT ![BackupCount] = Missing]
        /\ phase = "unlink" /\ phase' = "shift" /\ shift' = BackupCount - 1
        /\ UNCHANGED <<row, offered, recorded, cut, torn>>
    BY DEF Unlink
  <1>2. /\ files'[BackupCount] = Missing
        /\ \A f \in Files \ {BackupCount} : files'[f] = files[f]
    BY <1>1 DEF TypeOK, Files
  <1>3. TypeOK'
    BY <1>1 DEF TypeOK
  <1> QED
    BY <1>1, <1>2, <1>3 DEF RowsIn, Size

\* A file moves up into the free place and leaves its own.
LEMMA ShiftRows ==
    ASSUME TypeOK, RotationInv, Shift, NEW j, j = shift
    PROVE  /\ TypeOK'
           /\ j + 1 \in Backups /\ j \in Files /\ j \in Nat
           /\ files'[j] = Missing
           /\ RowsIn(j + 1) = <<>>
           /\ RowsIn(j + 1)' = RowsIn(j) /\ RowsIn(j)' = <<>>
           /\ Size(j + 1)' = Size(j) /\ Size(j)' = 0
           /\ \A f \in Files \ {j, j + 1} : RowsIn(f)' = RowsIn(f) /\ Size(f)' = Size(f)
           /\ phase = "shift"
           /\ IF j = 0 THEN phase' = "append" ELSE phase' = "shift" /\ shift' = j - 1
           /\ UNCHANGED <<recorded, cut, torn>>
  <1>1. /\ phase = "shift"
        /\ files' = IF files[j] = Missing THEN files
                    ELSE [files EXCEPT ![j + 1] = files[j], ![j] = Missing]
        /\ IF j = 0 THEN phase' = "append" /\ shift' = j
           ELSE phase' = "shift" /\ shift' = j - 1
        /\ UNCHANGED <<row, offered, recorded, cut, torn>>
    BY DEF Shift
  <1>2. /\ j \in Files /\ j + 1 \in Files /\ j + 1 \in Backups /\ j \in Nat
        /\ j # j + 1
    BY DEF TypeOK, Files, Backups
  <1>3. files[j + 1] = Missing
    BY <1>1 DEF RotationInv, Gap
  <1>4. /\ files'[j] = Missing /\ files'[j + 1] = files[j]
        /\ \A f \in Files \ {j, j + 1} : files'[f] = files[f]
    <2>1. CASE files[j] = Missing
      BY <1>1, <1>3, <2>1
    <2>2. CASE files[j] # Missing
      BY <1>1, <1>2, <2>2 DEF TypeOK, Files
    <2> QED
      BY <2>1, <2>2
  <1>5. TypeOK'
    <2>1. files' \in [0..BackupCount -> {Missing} \cup Contents]
      <3>1. files[j] \in {Missing} \cup Contents
        BY <1>2 DEF TypeOK, Files
      <3> QED
        BY <1>1, <1>2, <3>1 DEF TypeOK
    <2>2. shift' \in 0..(BackupCount - 1)
      BY <1>1 DEF TypeOK
    <2> QED
      BY <1>1, <2>1, <2>2 DEF TypeOK
  <1>6. /\ RowsIn(j + 1) = <<>> /\ RowsIn(j)' = <<>>
        /\ RowsIn(j + 1)' = RowsIn(j)
        /\ Size(j + 1)' = Size(j) /\ Size(j)' = 0
        /\ \A f \in Files \ {j, j + 1} : RowsIn(f)' = RowsIn(f) /\ Size(f)' = Size(f)
    BY <1>3, <1>4 DEF RowsIn, Size
  <1> QED
    BY <1>1, <1>2, <1>4, <1>5, <1>6

\* A row goes to the end of the current file, which is made if it is gone.
LEMMA WriteRows ==
    ASSUME TypeOK, NEW r \in Rows, Write(r), torn' \in 0..MaxTorn
    PROVE  /\ TypeOK'
           /\ RowsIn(0)' = Append(RowsIn(0), r) /\ Size(0)' = Size(0) + r.size
           /\ \A f \in Backups : /\ RowsIn(f)' = RowsIn(f) /\ Size(f)' = Size(f)
                                /\ files'[f] = files[f]
           /\ recorded' = Append(recorded, r)
           /\ phase' = "idle" /\ cut' = cut
  <1>1. PICK file : file = IF files[0] = Missing THEN NewFile ELSE files[0]
    OBVIOUS
  <1>2. /\ files' = [files EXCEPT ![0] = [bytes |-> file.bytes + r.size,
                                         rows |-> Append(file.rows, r)]]
        /\ recorded' = Append(recorded, r)
        /\ phase' = "idle" /\ UNCHANGED <<shift, row, offered, cut>>
    BY <1>1 DEF Write
  <1>3. 0 \in 0..BackupCount /\ files[0] \in {Missing} \cup Contents
    BY DEF TypeOK
  <1>4. /\ file \in Contents /\ file.bytes = Size(0) /\ file.rows = RowsIn(0)
        /\ file.bytes \in Nat /\ file.rows \in Seq(Rows)
    BY <1>1, <1>3 DEF NewFile, Contents, Size, RowsIn
  <1>5. PICK new : new = [bytes |-> file.bytes + r.size, rows |-> Append(file.rows, r)]
    OBVIOUS
  <1>6. /\ new \in Contents /\ new # Missing
        /\ new.bytes = file.bytes + r.size /\ new.rows = Append(file.rows, r)
    <2>1. file.bytes + r.size \in Nat
      BY <1>4 DEF Rows
    <2>2. Append(file.rows, r) \in Seq(Rows)
      BY <1>4, AppendProperties
    <2> QED
      <3>1. new \in Contents
        BY <1>5, <2>1, <2>2 DEF Contents
      <3> QED
        BY <1>5, <3>1
  <1>7. files'[0] = new /\ \A f \in Backups : files'[f] = files[f]
    BY <1>2, <1>3, <1>5 DEF TypeOK, Backups
  <1>8. TypeOK'
    <2>1. files' \in [0..BackupCount -> {Missing} \cup Contents]
      BY <1>2, <1>5, <1>6 DEF TypeOK
    <2>2. recorded' \in Seq(Rows)
      BY <1>2 DEF TypeOK
    <2> QED
      BY <1>2, <2>1, <2>2 DEF TypeOK
  <1>9. RowsIn(0)' = Append(RowsIn(0), r) /\ Size(0)' = Size(0) + r.size
    BY <1>4, <1>6, <1>7 DEF RowsIn, Size
  <1> QED
    BY <1>2, <1>7, <1>8, <1>9 DEF RowsIn, Size

----------------------------------------------------------------------------
(* Where the files start in what was recorded *)

\* The rows of a file lie within what was recorded.
LEMMA PlacedBounds ==
    ASSUME TypeOK, NEW start \in [Files -> 0..Len(recorded)], Placed(start), NEW f \in Files
    PROVE  /\ start[f] \in Nat /\ Len(RowsIn(f)) \in Nat /\ Len(recorded) \in Nat
           /\ start[f] + Len(RowsIn(f)) <= Len(recorded)
           /\ \A k \in 1..Len(RowsIn(f)) : start[f] + k \in 1..Len(recorded)
  <1>1. /\ start[f] \in Nat /\ start[f] <= Len(recorded) /\ Len(RowsIn(f)) \in Nat
        /\ Len(recorded) \in Nat
    BY RowsAreSeqs DEF TypeOK, Files
  <1>2. start[f] + Len(RowsIn(f)) <= Len(recorded)
    <2>1. CASE f = 0
      BY <1>1, <2>1 DEF Placed
    <2>2. CASE f # 0
      <3>1. f \in Backups /\ f - 1 \in Files
        BY <2>2 DEF Backups, Files
      <3>2. start[f] + Len(RowsIn(f)) = start[f - 1]
        BY <3>1 DEF Placed
      <3> QED
        BY <3>1, <3>2
    <2> QED
      BY <2>1, <2>2
  <1> QED
    BY <1>1, <1>2

\* Holes are backups, finitely many.
LEMMA HolesAreFinite ==
    /\ IsFiniteSet(Backups)
    /\ \A S \in SUBSET Backups : IsFiniteSet(S) /\ Cardinality(S) \in Nat
  <1>1. IsFiniteSet(Backups)
    BY FS_Interval DEF Backups
  <1> QED
    BY <1>1, FS_Subset, FS_CardinalityType

\* Without its rows the oldest backup starts where the next file does.
LEMMA UnlinkSegments ==
    ASSUME TypeOK, SegmentInv, RotationInv, Unlink
    PROVE  SegmentInv'
  <1>1. PICK start \in [Files -> 0..Len(recorded)] :
           Placed(start) /\ Cardinality(Holes(start)) <= cut
    BY DEF SegmentInv, Files
  <1>. DEFINE old == BackupCount
              new == [start EXCEPT ![old] = start[old - 1]]
  <1>2. /\ RowsIn(old)' = <<>> /\ Len(<<>>) = 0
        /\ \A f \in Files \ {old} : RowsIn(f)' = RowsIn(f)
        /\ phase = "unlink" /\ phase' = "shift" /\ shift' = old - 1
        /\ recorded' = recorded /\ cut' = cut
    BY UnlinkRows
  <1>3. /\ old \in Files /\ old - 1 \in Files /\ old \in Backups /\ old \in Nat /\ old >= 1
        /\ \A f \in Files : f # old => f <= old - 1 /\ f \in Nat
        /\ \A f \in Backups : f \in Files /\ f - 1 \in Files /\ f - 1 # old /\ f - 1 < f
    BY DEF Files, Backups
  <1>4. /\ new \in [Files -> 0..Len(recorded)] /\ new[old] = start[old - 1]
        /\ \A f \in Files \ {old} : new[f] = start[f]
    BY <1>3
  <1>. HIDE DEF new
  <1>5. new[0] + Len(RowsIn(0)') = Len(recorded')
    <2>1. 0 \in Files \ {old}
      BY DEF Files
    <2> QED
      BY <1>1, <1>2, <1>4, <2>1 DEF Placed
  <1>6. ASSUME NEW f \in Backups
        PROVE  new[f] + Len(RowsIn(f)') = new[f - 1]
    <2>1. CASE f = old
      <3>1. new[f - 1] = start[f - 1] /\ new[f] = start[f - 1] /\ start[f - 1] \in Nat
        BY <1>3, <1>4, <2>1
      <3> QED
        BY <1>2, <2>1, <3>1
    <2>2. CASE f # old
      BY <1>1, <1>2, <1>3, <1>4, <2>2 DEF Placed
    <2> QED
      BY <2>1, <2>2
  <1>7. ASSUME NEW f \in Files, NEW g \in Files, f <= g
        PROVE  new[g] <= new[f]
    <2>1. \A a, b \in Files : a <= b => start[b] <= start[a]
      BY <1>1 DEF Placed, Files
    <2>2. CASE g # old
      <3>1. f # old
        BY <1>3, <1>7, <2>2 DEF Files
      <3> QED
        BY <1>4, <1>7, <2>1, <2>2, <3>1
    <2>3. CASE g = old /\ f # old
      BY <1>3, <1>4, <2>1, <2>3
    <2>4. CASE g = old /\ f = old
      <3>1. new[old] \in Nat
        BY <1>3, <1>4
      <3> QED
        BY <2>4, <3>1
    <2> QED
      BY <2>2, <2>3, <2>4
  <1>8. ASSUME NEW f \in Files, NEW k \in 1..Len(RowsIn(f)')
        PROVE  RowsIn(f)'[k] = recorded'[new[f] + k]
    <2>1. f # old
      BY <1>2, <1>8
    <2> QED
      BY <1>1, <1>2, <1>4, <1>8, <2>1 DEF Placed, Files
  <1>9. Placed(new)'
    BY <1>5, <1>6, <1>7, <1>8 DEF Placed, Files
  <1>10. ASSUME NEW f \in Holes(new)'
         PROVE  f \in Holes(start)
    <2>1. f \in Backups \ Gap' /\ ~Filled(f)' /\ new[f] > 0
      BY <1>10 DEF Holes, Backups
    <2>2. f # old /\ f \in Files
      BY <1>2, <1>3, <2>1 DEF Gap
    <2>3. ~Filled(f) /\ start[f] > 0
      BY <1>2, <1>4, <2>1, <2>2 DEF Filled
    <2> QED
      BY <1>2, <2>1, <2>3 DEF Holes, Gap
  <1>11. Cardinality(Holes(new)') <= cut'
    <2>1. Holes(new)' \subseteq Holes(start) /\ Holes(start) \in SUBSET Backups
      BY <1>10 DEF Holes
    <2>2. /\ Cardinality(Holes(new)') <= Cardinality(Holes(start))
          /\ Cardinality(Holes(new)') \in Nat /\ Cardinality(Holes(start)) \in Nat
      BY <2>1, HolesAreFinite, FS_Subset, FS_CardinalityType
    <2> QED
      BY <1>1, <1>2, <2>2 DEF TypeOK
  <1> QED
    BY <1>2, <1>4, <1>9, <1>11 DEF SegmentInv, Files

\* A file that moves up takes its start along, and its old place is empty at the
\* end of its rows.
LEMMA ShiftSegments ==
    ASSUME TypeOK, SegmentInv, RotationInv, Shift
    PROVE  SegmentInv'
  <1>1. PICK start \in [Files -> 0..Len(recorded)] :
           Placed(start) /\ Cardinality(Holes(start)) <= cut
    BY DEF SegmentInv, Files
  <1>2. PICK j : j = shift
    OBVIOUS
  <1>3. PICK end : end = start[j] + Len(RowsIn(j))
    OBVIOUS
  <1>. DEFINE new == [start EXCEPT ![j + 1] = start[j], ![j] = end]
  <1>4. /\ j + 1 \in Backups /\ j \in Files /\ j \in Nat
        /\ RowsIn(j + 1) = <<>> /\ RowsIn(j + 1)' = RowsIn(j) /\ RowsIn(j)' = <<>>
        /\ \A f \in Files \ {j, j + 1} : RowsIn(f)' = RowsIn(f)
        /\ phase = "shift"
        /\ IF j = 0 THEN phase' = "append" ELSE phase' = "shift" /\ shift' = j - 1
        /\ recorded' = recorded /\ cut' = cut
    BY <1>2, ShiftRows
  <1>5. /\ j + 1 \in Files /\ j # j + 1 /\ BackupCount \in Files /\ Len(<<>>) = 0
        /\ \A f \in Backups : f \in Files /\ f - 1 \in Files /\ f \in Nat /\ f >= 1
        /\ \A f \in Files : f \in Nat /\ f <= BackupCount
    BY <1>4 DEF Files, Backups
  <1>6. /\ \A f \in Files : start[f] \in Nat
        /\ start[j + 1] = start[j]
        /\ start[j] <= end /\ end <= Len(recorded) /\ end \in Nat
    <2>1. start[j] \in Nat /\ Len(RowsIn(j)) \in Nat /\ end <= Len(recorded)
      BY <1>1, <1>3, <1>4, PlacedBounds
    <2>2. start[j + 1] + Len(RowsIn(j + 1)) = start[(j + 1) - 1] /\ start[j + 1] \in Nat
      BY <1>1, <1>4, <1>5 DEF Placed
    <2>3. (j + 1) - 1 = j
      BY <1>4
    <2> QED
      BY <1>1, <1>3, <1>4, <1>5, <2>1, <2>2, <2>3
  <1>7. /\ new \in [Files -> 0..Len(recorded)] /\ new[j] = end /\ new[j + 1] = start[j]
        /\ \A f \in Files \ {j, j + 1} : new[f] = start[f]
    <2>1. end \in 0..Len(recorded) /\ start[j] \in 0..Len(recorded)
      BY <1>1, <1>4, <1>6
    <2> QED
      BY <1>4, <1>5, <2>1
  <1>8. /\ j = 0 => end = Len(recorded)
        /\ j # 0 => j \in Backups /\ end = start[j - 1]
    <2>1. j # 0 => j \in Backups
      BY <1>4 DEF Files, Backups
    <2> QED
      BY <1>1, <1>3, <2>1 DEF Placed
  <1>. HIDE DEF new
  <1>9. new[0] + Len(RowsIn(0)') = Len(recorded')
    <2>1. CASE j = 0
      BY <1>4, <1>5, <1>6, <1>7, <1>8, <2>1
    <2>2. CASE j # 0
      <3>1. 0 \in Files \ {j, j + 1}
        BY <1>4, <2>2 DEF Files
      <3> QED
        BY <1>1, <1>4, <1>7, <3>1 DEF Placed
    <2> QED
      BY <2>1, <2>2
  <1>10. ASSUME NEW f \in Backups
         PROVE  new[f] + Len(RowsIn(f)') = new[f - 1]
    <2>0. start[f] + Len(RowsIn(f)) = start[f - 1] /\ f \in Files /\ f - 1 \in Files
      BY <1>1, <1>5 DEF Placed
    <2>1. CASE f = j
      <3>1. f - 1 \notin {j, j + 1} /\ j # 0
        BY <1>4, <1>5, <2>1
      <3> QED
        BY <1>4, <1>5, <1>6, <1>7, <1>8, <2>0, <2>1, <3>1
    <2>2. CASE f = j + 1
      <3>1. f - 1 = j
        BY <1>4, <2>2
      <3> QED
        BY <1>3, <1>4, <1>7, <2>2, <3>1
    <2>3. CASE f = j + 2
      <3>1. f - 1 = j + 1 /\ f \in Files \ {j, j + 1}
        BY <1>4, <2>0, <2>3
      <3> QED
        BY <1>4, <1>6, <1>7, <2>0, <3>1
    <2>4. CASE f \notin {j, j + 1, j + 2}
      <3>1. f - 1 \notin {j, j + 1}
        BY <1>4, <1>5, <2>4
      <3> QED
        BY <1>4, <1>7, <2>0, <2>4, <3>1
    <2> QED
      BY <2>1, <2>2, <2>3, <2>4
  <1>11. ASSUME NEW f \in Files, NEW g \in Files, f <= g
         PROVE  new[g] <= new[f]
    <2>1. \A a, b \in Files : a <= b => start[b] <= start[a]
      BY <1>1 DEF Placed, Files
    <2>2. f \in Nat /\ g \in Nat /\ start[f] \in Nat /\ start[g] \in Nat /\ start[j] \in Nat
      BY <1>4, <1>5, <1>6
    <2>3. CASE f = g
      <3>1. new[f] \in Nat
        BY <1>7
      <3> QED
        BY <2>3, <3>1
    <2>4. CASE f # g /\ g = j
      <3>1. f \notin {j, j + 1} /\ j # 0 /\ j - 1 \in Files /\ f <= j - 1
        BY <1>4, <1>5, <1>8, <1>11, <2>2, <2>4
      <3>2. end <= start[f]
        BY <1>8, <2>1, <3>1
      <3> QED
        BY <1>7, <2>4, <3>1, <3>2
    <2>5. CASE f # g /\ g = j + 1
      <3>1. f <= j
        BY <1>4, <1>11, <2>2, <2>5
      <3>2. CASE f = j
        BY <1>6, <1>7, <2>5, <3>2
      <3>3. CASE f # j
        <4>1. f \notin {j, j + 1} /\ start[j] <= start[f]
          BY <1>4, <2>1, <2>5, <3>1, <3>3
        <4> QED
          BY <1>7, <2>5, <4>1
      <3> QED
        BY <3>2, <3>3
    <2>6. CASE f # g /\ g \notin {j, j + 1}
      <3>1. new[g] = start[g]
        BY <1>7, <2>6
      <3>2. CASE f = j
        <4>1. start[g] <= start[j]
          BY <1>11, <2>1, <3>2
        <4> QED
          BY <1>6, <1>7, <2>2, <3>1, <3>2, <4>1
      <3>3. CASE f = j + 1
        <4>1. start[g] <= start[j + 1]
          BY <1>11, <2>1, <3>3
        <4> QED
          BY <1>6, <1>7, <3>1, <3>3, <4>1
      <3>4. CASE f \notin {j, j + 1}
        BY <1>7, <1>11, <2>1, <3>1, <3>4
      <3> QED
        BY <3>2, <3>3, <3>4
    <2> QED
      BY <2>3, <2>4, <2>5, <2>6
  <1>12. ASSUME NEW f \in Files, NEW k \in 1..Len(RowsIn(f)')
         PROVE  RowsIn(f)'[k] = recorded'[new[f] + k]
    <2>1. f # j
      BY <1>4, <1>5, <1>12
    <2>2. CASE f = j + 1
      BY <1>1, <1>4, <1>7, <1>12, <2>2 DEF Placed, Files
    <2>3. CASE f # j + 1
      <3>1. f \in Files \ {j, j + 1}
        BY <1>12, <2>1, <2>3
      <3>2. RowsIn(f)' = RowsIn(f) /\ new[f] = start[f] /\ recorded' = recorded
        BY <1>4, <1>7, <3>1
      <3>3. k \in 1..Len(RowsIn(f))
        BY <1>12, <3>2
      <3>4. RowsIn(f)[k] = recorded[start[f] + k]
        BY <1>1, <3>1, <3>3 DEF Placed, Files
      <3> QED
        BY <3>2, <3>4
    <2> QED
      BY <2>2, <2>3
  <1>13. Placed(new)'
    BY <1>9, <1>10, <1>11, <1>12 DEF Placed, Files
  <1>14. /\ Gap = {j + 1}
         /\ Gap' = (IF j = 0 THEN {} ELSE {j})
    <2>1. j # 0 => (j - 1) + 1 = j
      BY <1>4
    <2> QED
      BY <1>2, <1>4, <2>1 DEF Gap
  <1>. DEFINE from == [f \in Holes(new)' |-> IF f = j + 1 THEN j ELSE f]
  <1>15. ASSUME NEW f \in Holes(new)'
         PROVE  f # j /\ from[f] \in Holes(start)
    <2>1. f \in Backups \ Gap' /\ ~Filled(f)' /\ new[f] > 0
      BY <1>15 DEF Holes, Backups
    <2>2. f # j
      <3>1. 0 \notin Backups
        BY DEF Backups
      <3> QED
        BY <1>14, <2>1, <3>1
    <2>3. CASE f = j + 1
      <3>1. ~Filled(j) /\ start[j] > 0
        BY <1>4, <1>7, <2>1, <2>3 DEF Filled
      <3>2. j # 0
        BY <1>4, <3>1 DEF RotationInv
      <3>3. j \in Backups \ Gap
        BY <1>5, <1>8, <1>14, <3>2
      <3>4. j \in Holes(start)
        BY <3>1, <3>3 DEF Holes
      <3> QED
        BY <1>15, <2>2, <2>3, <3>4
    <2>4. CASE f # j + 1
      <3>1. f \in Files \ {j, j + 1}
        BY <1>5, <2>1, <2>2, <2>4
      <3>2. ~Filled(f) /\ start[f] > 0
        BY <1>4, <1>7, <2>1, <3>1 DEF Filled
      <3>3. f \in Holes(start)
        BY <1>14, <2>1, <2>4, <3>2 DEF Holes
      <3> QED
        BY <1>15, <2>2, <2>4, <3>3
    <2> QED
      BY <2>3, <2>4
  <1>16. from \in Injection(Holes(new)', Holes(start))
    <2>1. from \in [Holes(new)' -> Holes(start)]
      BY <1>15
    <2>2. \A f, g \in DOMAIN from : from[f] = from[g] => f = g
      BY <1>15
    <2>. HIDE DEF from
    <2> QED
      BY <2>1, <2>2 DEF Injection, IsInjective
  <1>. HIDE DEF from
  <1>17. Cardinality(Holes(new)') <= cut'
    <2>1. Holes(start) \in SUBSET Backups
      BY DEF Holes
    <2>2. IsFiniteSet(Holes(start)) /\ Cardinality(Holes(start)) \in Nat
      BY <2>1, HolesAreFinite
    <2>3. /\ IsFiniteSet(Holes(new)')
          /\ Cardinality(Holes(new)') <= Cardinality(Holes(start))
      BY <1>16, <2>2, FS_Injection
    <2>4. Cardinality(Holes(new)') \in Nat
      BY <2>3, FS_CardinalityType
    <2> QED
      BY <1>1, <1>4, <2>2, <2>3, <2>4 DEF TypeOK
  <1> QED
    BY <1>4, <1>7, <1>13, <1>17 DEF SegmentInv, Files

\* A row written is the last one recorded.
LEMMA WriteSegments ==
    ASSUME TypeOK, SegmentInv, NEW r \in Rows, Write(r), torn' \in 0..MaxTorn, phase = "append"
    PROVE  SegmentInv'
  <1>1. PICK start \in [Files -> 0..Len(recorded)] :
           Placed(start) /\ Cardinality(Holes(start)) <= cut
    BY DEF SegmentInv, Files
  <1>2. /\ RowsIn(0)' = Append(RowsIn(0), r)
        /\ \A f \in Backups : RowsIn(f)' = RowsIn(f)
        /\ recorded' = Append(recorded, r)
        /\ phase' = "idle" /\ cut' = cut
    BY WriteRows
  <1>3. /\ 0 \in Files /\ BackupCount \in Files
        /\ \A f \in Files : f = 0 \/ f \in Backups
        /\ \A f \in Backups : f \in Files /\ f - 1 \in Files
    BY DEF Files, Backups
  <1>4. RowsIn(0) \in Seq(Rows) /\ recorded \in Seq(Rows)
    BY <1>3, RowsAreSeqs DEF TypeOK
  <1>5. /\ Len(RowsIn(0)') = Len(RowsIn(0)) + 1 /\ Len(RowsIn(0)) \in Nat
        /\ Len(recorded') = Len(recorded) + 1 /\ Len(recorded) \in Nat
        /\ \A k \in 1..Len(RowsIn(0)) : RowsIn(0)'[k] = RowsIn(0)[k]
        /\ \A k \in 1..Len(recorded) : recorded'[k] = recorded[k]
        /\ RowsIn(0)'[Len(RowsIn(0)) + 1] = r /\ recorded'[Len(recorded) + 1] = r
    BY <1>2, <1>4
  <1>6. start[0] + Len(RowsIn(0)) = Len(recorded) /\ start[0] \in Nat
    BY <1>1, <1>3 DEF Placed
  <1>7. ASSUME NEW f \in Files, NEW k \in 1..Len(RowsIn(f)')
        PROVE  RowsIn(f)'[k] = recorded'[start[f] + k]
    <2>1. CASE f \in Backups
      <3>1. k \in 1..Len(RowsIn(f))
        BY <1>2, <1>7, <2>1
      <3>2. start[f] + k \in 1..Len(recorded)
        BY <1>1, <3>1, PlacedBounds
      <3> QED
        BY <1>1, <1>2, <1>5, <2>1, <3>1, <3>2 DEF Placed, Files
    <2>2. CASE f = 0 /\ k = Len(RowsIn(0)) + 1
      <3>1. start[f] + k = Len(recorded) + 1
        BY <1>5, <1>6, <2>2
      <3> QED
        BY <1>5, <2>2, <3>1
    <2>3. CASE f = 0 /\ k # Len(RowsIn(0)) + 1
      <3>1. k \in 1..Len(RowsIn(0))
        BY <1>5, <1>7, <2>3
      <3>2. start[0] + k \in 1..Len(recorded)
        BY <1>5, <1>6, <3>1
      <3> QED
        BY <1>1, <1>3, <1>5, <2>3, <3>1, <3>2 DEF Placed, Files
    <2> QED
      BY <1>3, <2>1, <2>2, <2>3
  <1>8. start[0] + Len(RowsIn(0)') = Len(recorded')
    BY <1>5, <1>6
  <1>9. Placed(start)'
    BY <1>1, <1>2, <1>7, <1>8 DEF Placed, Files
  <1>10. start \in [Files -> 0..Len(recorded')]
    BY <1>5
  <1>11. Holes(start)' = Holes(start)
    BY <1>2 DEF Holes, Gap, Filled
  <1> QED
    BY <1>1, <1>2, <1>9, <1>10, <1>11 DEF SegmentInv, Files

\* Nothing else moves a row; a rotation that is cut short leaves its free place.
LEMMA SegmentFrame ==
    ASSUME TypeOK, SegmentInv, \A f \in Files : RowsIn(f)' = RowsIn(f), recorded' = recorded,
           \/ cut' = cut /\ Gap' = Gap
           \/ cut' = cut + 1 /\ Gap' = {}
    PROVE  SegmentInv'
  <1>1. PICK start \in [Files -> 0..Len(recorded)] :
           Placed(start) /\ Cardinality(Holes(start)) <= cut
    BY DEF SegmentInv, Files
  <1>2. 0 \in Files /\ \A f \in Backups : f \in Files
    BY DEF Files, Backups
  <1>3. Placed(start)'
    BY <1>1, <1>2 DEF Placed, Files
  <1>4. \A f \in Backups : Filled(f)' <=> Filled(f)
    BY <1>2 DEF Filled
  <1>5. Cardinality(Holes(start)') <= cut'
    <2>1. CASE cut' = cut /\ Gap' = Gap
      <3>1. Holes(start)' = Holes(start)
        BY <1>4, <2>1 DEF Holes, Backups
      <3> QED
        BY <1>1, <2>1, <3>1
    <2>2. CASE cut' = cut + 1 /\ Gap' = {}
      <3>1. Holes(start)' \subseteq Holes(start) \cup {shift + 1}
        BY <1>4, <2>2 DEF Holes, Backups, Gap
      <3>2. Holes(start) \in SUBSET Backups
        BY DEF Holes
      <3>3. IsFiniteSet(Holes(start)) /\ Cardinality(Holes(start)) \in Nat
        BY <3>2, HolesAreFinite
      <3>4. /\ IsFiniteSet(Holes(start) \cup {shift + 1})
            /\ \/ Cardinality(Holes(start) \cup {shift + 1}) = Cardinality(Holes(start))
               \/ Cardinality(Holes(start) \cup {shift + 1}) = Cardinality(Holes(start)) + 1
        BY <3>3, FS_AddElement
      <3>5. /\ IsFiniteSet(Holes(start)')
            /\ Cardinality(Holes(start)') <= Cardinality(Holes(start) \cup {shift + 1})
        BY <3>1, <3>4, FS_Subset
      <3>6. Cardinality(Holes(start)') \in Nat
        BY <3>5, FS_CardinalityType
      <3> QED
        BY <1>1, <2>2, <3>3, <3>4, <3>5, <3>6 DEF TypeOK
    <2> QED
      BY <2>1, <2>2
  <1> QED
    BY <1>1, <1>3, <1>5 DEF SegmentInv, Files

----------------------------------------------------------------------------
(* The rotation *)

\* The rotation begins with the oldest backup out of the way.
LEMMA UnlinkRotation ==
    ASSUME TypeOK, RotationInv, Unlink
    PROVE  RotationInv'
  <1>1. /\ files'[BackupCount] = Missing
        /\ \A f \in Files \ {BackupCount} : RowsIn(f)' = RowsIn(f)
        /\ phase = "unlink" /\ phase' = "shift" /\ shift' = BackupCount - 1
    BY UnlinkRows
  <1>2. Gap' = {BackupCount}
    <2>1. (BackupCount - 1) + 1 = BackupCount
      OBVIOUS
    <2> QED
      BY <1>1, <2>1 DEF Gap
  <1>3. Filled(0)'
    <2>1. 0 \in Files \ {BackupCount}
      BY DEF Files
    <2> QED
      BY <1>1, <2>1 DEF RotationInv, Filled
  <1> QED
    BY <1>1, <1>2, <1>3 DEF RotationInv

\* The free place moves down with the file.
LEMMA ShiftRotation ==
    ASSUME TypeOK, RotationInv, Shift
    PROVE  RotationInv'
  <1>1. PICK j : j = shift
    OBVIOUS
  <1>2. /\ j + 1 \in Backups /\ j \in Files /\ j \in Nat
        /\ files'[j] = Missing
        /\ \A f \in Files \ {j, j + 1} : RowsIn(f)' = RowsIn(f)
        /\ phase = "shift"
        /\ IF j = 0 THEN phase' = "append" ELSE phase' = "shift" /\ shift' = j - 1
    BY <1>1, ShiftRows
  <1>3. Gap' = (IF j = 0 THEN {} ELSE {j})
    <2>1. j # 0 => (j - 1) + 1 = j
      BY <1>2
    <2> QED
      BY <1>1, <1>2, <2>1 DEF Gap
  <1>4. phase' \in {"unlink", "shift"} => Filled(0)'
    <2>1. phase' \in {"unlink", "shift"} => j # 0
      BY <1>2
    <2>2. j # 0 => 0 \in Files \ {j, j + 1}
      BY <1>2 DEF Files
    <2>3. Filled(0)
      BY <1>2 DEF RotationInv
    <2> QED
      BY <1>2, <2>1, <2>2, <2>3 DEF Filled
  <1>5. \A f \in Gap' : files'[f] = Missing
    BY <1>2, <1>3
  <1> QED
    BY <1>4, <1>5 DEF RotationInv

\* Steps that start no shifting.
LEMMA RotationFrame ==
    ASSUME phase' # "shift", phase' = "unlink" => Filled(0)'
    PROVE  RotationInv'
  BY DEF RotationInv, Gap

\* A rotation starts because the current file is not empty.
LEMMA RotateFilled ==
    ASSUME SizeInv, NEW size, ~Fits(size)
    PROVE  Filled(0)
  BY DEF Fits, SizeInv, Filled

----------------------------------------------------------------------------
(* The sizes *)

\* An empty file is within its limit.
LEMMA UnlinkSizes ==
    ASSUME TypeOK, SizeInv, Unlink
    PROVE  SizeInv'
  <1>1. /\ RowsIn(BackupCount)' = <<>> /\ Size(BackupCount)' = 0
        /\ \A f \in Files \ {BackupCount} : RowsIn(f)' = RowsIn(f) /\ Size(f)' = Size(f)
        /\ phase' = "shift"
    BY UnlinkRows
  <1>2. ASSUME NEW f \in Files
        PROVE  /\ Size(f)' = 0 <=> RowsIn(f)' = <<>>
               /\ Size(f)' <= MaxBytes \/ Len(RowsIn(f)') = 1
    BY <1>1, <1>2 DEF SizeInv, Files
  <1> QED
    BY <1>1, <1>2 DEF SizeInv, Files

\* A file that moves keeps its size; after the last one there is room.
LEMMA ShiftSizes ==
    ASSUME TypeOK, RotationInv, SizeInv, Shift
    PROVE  SizeInv'
  <1>1. PICK j : j = shift
    OBVIOUS
  <1>2. /\ j \in Files /\ RowsIn(j + 1)' = RowsIn(j) /\ RowsIn(j)' = <<>>
        /\ Size(j + 1)' = Size(j) /\ Size(j)' = 0
        /\ \A f \in Files \ {j, j + 1} : RowsIn(f)' = RowsIn(f) /\ Size(f)' = Size(f)
        /\ IF j = 0 THEN phase' = "append" ELSE phase' = "shift"
    BY <1>1, ShiftRows
  <1>3. ASSUME NEW f \in Files
        PROVE  /\ Size(f)' = 0 <=> RowsIn(f)' = <<>>
               /\ Size(f)' <= MaxBytes \/ Len(RowsIn(f)') = 1
    <2>1. CASE f = j
      BY <1>2, <2>1
    <2>2. CASE f = j + 1
      BY <1>2, <2>2 DEF SizeInv, Files
    <2>3. CASE f \notin {j, j + 1}
      BY <1>2, <1>3, <2>3 DEF SizeInv, Files
    <2> QED
      BY <2>1, <2>2, <2>3
  <1>4. phase' = "append" => Size(0)' = 0
    BY <1>2
  <1> QED
    BY <1>3, <1>4 DEF SizeInv, Fits, Files

\* A row that fits, or a part of it, goes to a file with room or without rows.
LEMMA WriteSizes ==
    ASSUME TypeOK, SizeInv, phase = "append", NEW r \in Rows, r.size <= row.size, Write(r),
           torn' \in 0..MaxTorn
    PROVE  SizeInv'
  <1>1. /\ RowsIn(0)' = Append(RowsIn(0), r) /\ Size(0)' = Size(0) + r.size
        /\ \A f \in Backups : RowsIn(f)' = RowsIn(f) /\ Size(f)' = Size(f)
        /\ phase' = "idle"
    BY WriteRows
  <1>2. /\ 0 \in Files /\ \A f \in Files : f = 0 \/ f \in Backups
        /\ \A f \in Backups : f \in Files
    BY DEF Files, Backups
  <1>3. /\ RowsIn(0) \in Seq(Rows) /\ Size(0) \in Nat
        /\ r.size \in Nat \ {0} /\ row.size \in Nat
    BY <1>2, RowsAreSeqs DEF TypeOK, Rows
  <1>4. Size(0)' # 0 /\ RowsIn(0)' # <<>>
    BY <1>1, <1>3
  <1>5. Size(0)' <= MaxBytes \/ Len(RowsIn(0)') = 1
    <2>1. CASE Size(0) = 0
      <3>1. RowsIn(0) = <<>>
        BY <1>2, <2>1 DEF SizeInv, Files
      <3>2. \A s \in Seq(Rows) : s = <<>> => Len(Append(s, r)) = 1
        OBVIOUS
      <3>3. Len(Append(RowsIn(0), r)) = 1
        BY <1>3, <3>1, <3>2
      <3> QED
        BY <1>1, <3>3
    <2>2. CASE Size(0) + row.size <= MaxBytes
      BY <1>1, <1>3, <2>2
    <2> QED
      BY <2>1, <2>2 DEF SizeInv, Fits
  <1>6. ASSUME NEW f \in Files
        PROVE  /\ Size(f)' = 0 <=> RowsIn(f)' = <<>>
               /\ Size(f)' <= MaxBytes \/ Len(RowsIn(f)') = 1
    <2>1. CASE f = 0
      BY <1>4, <1>5, <2>1
    <2>2. CASE f \in Backups
      BY <1>1, <1>2, <2>2 DEF SizeInv, Files
    <2> QED
      BY <1>2, <2>1, <2>2
  <1> QED
    BY <1>1, <1>6 DEF SizeInv, Files

\* Steps that leave the files alone, or make the current one.
LEMMA SizeFrame ==
    ASSUME SizeInv, \A f \in Files : RowsIn(f)' = RowsIn(f) /\ Size(f)' = Size(f),
           phase' = "append" => Fits(row'.size)
    PROVE  SizeInv'
  <1>1. 0 \in Files
    BY DEF Files
  <1>2. phase' = "append" => Fits(row.size)'
    BY <1>1 DEF Fits
  <1> QED
    BY <1>2 DEF SizeInv, Files

----------------------------------------------------------------------------
(* Rows written in part *)

\* Line k of file f cannot be read.
Lost(f, k) ==
    ~RowsIn(f)[k].whole \/ (k > 1 /\ ~RowsIn(f)[k - 1].whole)

\* The unreadable rows, one by one.
LEMMA UnreadableIs ==
    ASSUME TypeOK
    PROVE  /\ \A f \in Files : \A k \in 1..Len(RowsIn(f)) :
                 <<f, k>> \in Unreadable <=> Lost(f, k)
           /\ \A x \in Unreadable :
                 \E f \in Files : \E k \in 1..Len(RowsIn(f)) : x = <<f, k>> /\ Lost(f, k)
  <1>1. ASSUME NEW f \in Files
        PROVE  /\ DOMAIN RowsIn(f) = 1..Len(RowsIn(f))
               /\ \A k \in DOMAIN RowsIn(f) \ Readable(RowsIn(f)) : Lost(f, k)
               /\ \A k \in 1..Len(RowsIn(f)) :
                     Lost(f, k) => k \in DOMAIN RowsIn(f) \ Readable(RowsIn(f))
    <2>1. PICK rows \in Seq(Rows) : rows = RowsIn(f)
      BY <1>1, RowsAreSeqs
    <2>2. DOMAIN rows = 1..Len(rows)
      BY <2>1
    <2> QED
      BY <2>1, <2>2 DEF Readable, Lost
  <1>2. \A x : x \in Unreadable <=>
           \E f \in Files : \E k \in DOMAIN RowsIn(f) \ Readable(RowsIn(f)) : x = <<f, k>>
    BY DEF Unreadable, Files
  <1>3. ASSUME NEW x \in Unreadable
        PROVE  \E f \in Files : \E k \in 1..Len(RowsIn(f)) : x = <<f, k>> /\ Lost(f, k)
    <2>1. PICK f \in Files : \E k \in DOMAIN RowsIn(f) \ Readable(RowsIn(f)) : x = <<f, k>>
      BY <1>2, <1>3
    <2> QED
      BY <1>1, <2>1
  <1>4. ASSUME NEW f \in Files, NEW k \in 1..Len(RowsIn(f))
        PROVE  <<f, k>> \in Unreadable <=> Lost(f, k)
    <2>1. Lost(f, k) => <<f, k>> \in Unreadable
      BY <1>1, <1>2, <1>4
    <2>2. ASSUME <<f, k>> \in Unreadable PROVE Lost(f, k)
      <3>1. PICK g \in Files : \E l \in DOMAIN RowsIn(g) \ Readable(RowsIn(g)) : <<f, k>> = <<g, l>>
        BY <1>2, <2>2
      <3>2. f = g /\ k \in DOMAIN RowsIn(f) \ Readable(RowsIn(f))
        BY <3>1
      <3> QED
        BY <1>1, <3>2
    <2> QED
      BY <2>1, <2>2
  <1> QED
    BY <1>3, <1>4

\* The same after a step.
LEMMA UnreadableNext ==
    TypeOK' => \A x \in Unreadable' :
                  \E f \in Files : \E k \in 1..Len(RowsIn(f)') : x = <<f, k>> /\ Lost(f, k)'
  <1>1. TypeOK => \A x \in Unreadable :
              \E f \in Files : \E k \in 1..Len(RowsIn(f)) : x = <<f, k>> /\ Lost(f, k)
    BY UnreadableIs
  <1>2. TypeOK' => (\A x \in Unreadable :
              \E f \in Files : \E k \in 1..Len(RowsIn(f)) : x = <<f, k>> /\ Lost(f, k))'
    BY <1>1, PTL
  <1> QED
    BY <1>2 DEF Files

\* Steps that leave the rows of all files alone.
LEMMA TornFrame ==
    ASSUME TornInv, \A f \in Files : RowsIn(f)' = RowsIn(f), torn' = torn
    PROVE  TornInv'
  <1>1. Unreadable' = Unreadable
    BY DEF Unreadable, Files
  <1>2. LastIsTorn' <=> LastIsTorn
    <2>1. 0 \in Files
      BY DEF Files
    <2> QED
      BY <2>1 DEF LastIsTorn, Filled
  <1> QED
    BY <1>1, <1>2 DEF TornInv

\* The rows of the oldest backup go, readable or not.
LEMMA UnlinkTorn ==
    ASSUME TypeOK, TornInv, Unlink
    PROVE  TornInv'
  <1>1. /\ TypeOK' /\ RowsIn(BackupCount)' = <<>> /\ Len(<<>>) = 0
        /\ \A f \in Files \ {BackupCount} : RowsIn(f)' = RowsIn(f)
        /\ torn' = torn
    BY UnlinkRows
  <1>2. Unreadable' \subseteq Unreadable
    <2>. SUFFICES ASSUME NEW x \in Unreadable' PROVE x \in Unreadable
      OBVIOUS
    <2>1. PICK f \in Files : \E k \in 1..Len(RowsIn(f)') : x = <<f, k>> /\ Lost(f, k)'
      BY <1>1, UnreadableNext
    <2>2. PICK k \in 1..Len(RowsIn(f)') : x = <<f, k>> /\ Lost(f, k)'
      BY <2>1
    <2>3. f # BackupCount
      BY <1>1, <2>2
    <2>4. RowsIn(f)' = RowsIn(f)
      BY <1>1, <2>3
    <2>5. k \in 1..Len(RowsIn(f)) /\ Lost(f, k)
      BY <2>2, <2>4 DEF Lost
    <2> QED
      BY <2>2, <2>5, UnreadableIs
  <1>3. LastIsTorn' <=> LastIsTorn
    <2>1. 0 \in Files \ {BackupCount}
      BY DEF Files
    <2> QED
      BY <1>1, <2>1 DEF LastIsTorn, Filled
  <1>4. IsFiniteSet(Unreadable') /\ Cardinality(Unreadable') <= Cardinality(Unreadable)
    BY <1>2, FS_Subset DEF TornInv
  <1>5. Cardinality(Unreadable) \in Nat /\ Cardinality(Unreadable') \in Nat /\ torn \in Nat
    BY <1>4, FS_CardinalityType DEF TornInv, TypeOK
  <1> QED
    BY <1>1, <1>3, <1>4, <1>5 DEF TornInv

\* A file moves up with its unreadable rows.
LEMMA ShiftTorn ==
    ASSUME TypeOK, RotationInv, TornInv, Shift
    PROVE  TornInv'
  <1>1. PICK j : j = shift
    OBVIOUS
  <1>2. /\ TypeOK' /\ j + 1 \in Files /\ j \in Files /\ j # j + 1 /\ j \in Nat
        /\ RowsIn(j + 1)' = RowsIn(j) /\ RowsIn(j)' = <<>> /\ Len(<<>>) = 0
        /\ \A f \in Files \ {j, j + 1} : RowsIn(f)' = RowsIn(f)
        /\ torn' = torn
    BY <1>1, ShiftRows DEF Files, Backups
  <1>. DEFINE from == [x \in Unreadable' |-> IF x[1] = j + 1 THEN <<j, x[2]>> ELSE x]
  <1>3. ASSUME NEW x \in Unreadable'
        PROVE  /\ \E f \in Files \ {j} : \E k : x = <<f, k>>
               /\ from[x] \in Unreadable
    <2>1. PICK f \in Files : \E k \in 1..Len(RowsIn(f)') : x = <<f, k>> /\ Lost(f, k)'
      BY <1>2, <1>3, UnreadableNext
    <2>2. PICK k \in 1..Len(RowsIn(f)') : x = <<f, k>> /\ Lost(f, k)'
      BY <2>1
    <2>3. f # j
      BY <1>2, <2>2
    <2>4. CASE f = j + 1
      <3>1. RowsIn(f)' = RowsIn(j)
        BY <1>2, <2>4
      <3>2. k \in 1..Len(RowsIn(j)) /\ Lost(j, k)
        BY <2>2, <3>1 DEF Lost
      <3>3. <<j, k>> \in Unreadable
        BY <1>2, <3>2, UnreadableIs
      <3> QED
        BY <1>3, <2>2, <2>3, <2>4, <3>3
    <2>5. CASE f # j + 1
      <3>1. RowsIn(f)' = RowsIn(f)
        BY <1>2, <2>3, <2>5
      <3>2. k \in 1..Len(RowsIn(f)) /\ Lost(f, k)
        BY <2>2, <3>1 DEF Lost
      <3>3. <<f, k>> \in Unreadable
        BY <3>2, UnreadableIs
      <3> QED
        BY <1>3, <2>2, <2>3, <2>5, <3>3
    <2> QED
      BY <2>4, <2>5
  <1>4. ASSUME NEW x \in Unreadable', NEW y \in Unreadable', from[x] = from[y]
        PROVE  x = y
    <2>1. PICK f \in Files \ {j} : \E k : x = <<f, k>>
      BY <1>3, <1>4
    <2>2. PICK k : x = <<f, k>>
      BY <2>1
    <2>3. PICK g \in Files \ {j} : \E l : y = <<g, l>>
      BY <1>3, <1>4
    <2>4. PICK l : y = <<g, l>>
      BY <2>3
    <2>5. /\ from[x] = IF f = j + 1 THEN <<j, k>> ELSE <<f, k>>
          /\ from[y] = IF g = j + 1 THEN <<j, l>> ELSE <<g, l>>
      BY <1>4, <2>2, <2>4
    <2>. HIDE DEF from
    <2>6. k = l /\ f = g
      <3>1. CASE f = j + 1 /\ g = j + 1
        <4>1. <<j, k>> = <<j, l>>
          BY <1>4, <2>5, <3>1
        <4> QED
          BY <3>1, <4>1
      <3>2. CASE f # j + 1 /\ g # j + 1
        <4>1. <<f, k>> = <<g, l>>
          BY <1>4, <2>5, <3>2
        <4> QED
          BY <4>1
      <3>3. ~(f = j + 1 /\ g # j + 1)
        <4>1. f = j + 1 /\ g # j + 1 => <<j, k>> = <<g, l>>
          BY <1>4, <2>5
        <4>2. g # j
          BY <2>3
        <4> QED
          BY <4>1, <4>2
      <3>4. ~(f # j + 1 /\ g = j + 1)
        <4>1. f # j + 1 /\ g = j + 1 => <<f, k>> = <<j, l>>
          BY <1>4, <2>5
        <4>2. f # j
          BY <2>1
        <4> QED
          BY <4>1, <4>2
      <3> QED
        BY <3>1, <3>2, <3>3, <3>4
    <2> QED
      BY <2>2, <2>4, <2>6
  <1>5. from \in Injection(Unreadable', Unreadable)
    <2>1. from \in [Unreadable' -> Unreadable]
      BY <1>3
    <2>2. \A x, y \in DOMAIN from : from[x] = from[y] => x = y
      BY <1>4
    <2>. HIDE DEF from
    <2> QED
      BY <2>1, <2>2 DEF Injection, IsInjective
  <1>. HIDE DEF from
  <1>6. IsFiniteSet(Unreadable') /\ Cardinality(Unreadable') <= Cardinality(Unreadable)
    BY <1>5, FS_Injection DEF TornInv
  <1>7. LastIsTorn' => LastIsTorn
    <2>1. CASE j = 0
      BY <1>2, <2>1 DEF LastIsTorn, Filled
    <2>2. CASE j # 0
      <3>1. 0 \in Files \ {j, j + 1}
        BY <1>2, <2>2 DEF Files
      <3> QED
        BY <1>2, <3>1 DEF LastIsTorn, Filled
    <2> QED
      BY <2>1, <2>2
  <1>8. Cardinality(Unreadable) \in Nat /\ Cardinality(Unreadable') \in Nat /\ torn \in Nat
    BY <1>6, FS_CardinalityType DEF TornInv, TypeOK
  <1> QED
    BY <1>2, <1>6, <1>7, <1>8 DEF TornInv

\* A row written takes at most its own line along, and a whole one only if the
\* row before it was written in part.
LEMMA WriteUnreadable ==
    ASSUME TypeOK, TornInv, NEW r \in Rows, Write(r), torn' \in 0..MaxTorn
    PROVE  /\ IsFiniteSet(Unreadable')
           /\ Cardinality(Unreadable) \in Nat /\ Cardinality(Unreadable') \in Nat
           /\ Cardinality(Unreadable') <= Cardinality(Unreadable) + 1
           /\ r.whole /\ ~LastIsTorn => Cardinality(Unreadable') <= Cardinality(Unreadable)
           /\ r.whole => ~LastIsTorn'
  <1>1. /\ TypeOK' /\ RowsIn(0)' = Append(RowsIn(0), r)
        /\ \A f \in Backups : RowsIn(f)' = RowsIn(f)
    BY WriteRows
  <1>2. 0 \in Files /\ \A f \in Files : f = 0 \/ f \in Backups
    BY DEF Files, Backups
  <1>3. PICK n \in Nat : n = Len(RowsIn(0))
    BY <1>2, RowsAreSeqs
  <1>4. /\ Len(RowsIn(0)') = n + 1 /\ RowsIn(0)'[n + 1] = r
        /\ \A k \in 1..n : RowsIn(0)'[k] = RowsIn(0)[k]
        /\ Filled(0) <=> n > 0
    BY <1>1, <1>2, <1>3, RowsAreSeqs
  <1>5. ASSUME NEW x \in Unreadable'
        PROVE  x \in Unreadable \/ (x = <<0, n + 1>> /\ (r.whole => LastIsTorn))
    <2>1. PICK f \in Files : \E k \in 1..Len(RowsIn(f)') : x = <<f, k>> /\ Lost(f, k)'
      BY <1>1, <1>5, UnreadableNext
    <2>2. PICK k \in 1..Len(RowsIn(f)') : x = <<f, k>> /\ Lost(f, k)'
      BY <2>1
    <2>3. CASE f \in Backups
      <3>1. RowsIn(f)' = RowsIn(f)
        BY <1>1, <2>3
      <3>2. k \in 1..Len(RowsIn(f)) /\ Lost(f, k)
        BY <2>2, <3>1 DEF Lost
      <3> QED
        BY <2>2, <3>2, UnreadableIs
    <2>4. CASE f = 0 /\ k \in 1..n
      <3>1. k > 1 => k - 1 \in 1..n
        BY <2>4
      <3>2. Lost(0, k)
        BY <1>4, <2>2, <2>4, <3>1 DEF Lost
      <3> QED
        BY <1>2, <1>3, <2>2, <2>4, <3>2, UnreadableIs
    <2>5. CASE f = 0 /\ k \notin 1..n
      <3>1. k = n + 1
        BY <1>4, <2>2, <2>5
      <3>2. ASSUME r.whole PROVE LastIsTorn
        <4>1. k > 1 /\ ~RowsIn(0)'[k - 1].whole
          BY <1>4, <2>2, <2>5, <3>1, <3>2 DEF Lost
        <4>2. k - 1 = n /\ n > 0 /\ n \in 1..n
          BY <3>1, <4>1
        <4> QED
          BY <1>3, <1>4, <4>1, <4>2 DEF LastIsTorn
      <3> QED
        BY <2>2, <2>5, <3>1, <3>2
    <2> QED
      BY <1>2, <2>2, <2>3, <2>4, <2>5
  <1>6. IsFiniteSet(Unreadable) /\ Cardinality(Unreadable) \in Nat
    BY FS_CardinalityType DEF TornInv
  <1>7. /\ IsFiniteSet(Unreadable \cup {<<0, n + 1>>})
        /\ Cardinality(Unreadable \cup {<<0, n + 1>>}) <= Cardinality(Unreadable) + 1
        /\ Cardinality(Unreadable \cup {<<0, n + 1>>}) \in Nat
    <2>1. /\ IsFiniteSet(Unreadable \cup {<<0, n + 1>>})
          /\ Cardinality(Unreadable \cup {<<0, n + 1>>})
               = IF <<0, n + 1>> \in Unreadable THEN Cardinality(Unreadable)
                 ELSE Cardinality(Unreadable) + 1
      BY <1>6, FS_AddElement
    <2>2. \/ Cardinality(Unreadable \cup {<<0, n + 1>>}) = Cardinality(Unreadable)
          \/ Cardinality(Unreadable \cup {<<0, n + 1>>}) = Cardinality(Unreadable) + 1
      BY <2>1
    <2> QED
      BY <1>6, <2>1, <2>2
  <1>8. Unreadable' \subseteq Unreadable \cup {<<0, n + 1>>}
    BY <1>5
  <1>9. /\ IsFiniteSet(Unreadable') /\ Cardinality(Unreadable') \in Nat
        /\ Cardinality(Unreadable') <= Cardinality(Unreadable \cup {<<0, n + 1>>})
    BY <1>7, <1>8, FS_Subset, FS_CardinalityType
  <1>10. ASSUME r.whole, ~LastIsTorn
         PROVE  Cardinality(Unreadable') <= Cardinality(Unreadable)
    <2>1. Unreadable' \subseteq Unreadable
      BY <1>5, <1>10
    <2> QED
      BY <1>6, <2>1, FS_Subset
  <1>11. r.whole => ~LastIsTorn'
    BY <1>4 DEF LastIsTorn
  <1> QED
    BY <1>6, <1>7, <1>9, <1>10, <1>11

----------------------------------------------------------------------------
(* The inductive invariant *)

LEMMA InitInv ==
    Init => Inv
  <1>. SUFFICES ASSUME Init PROVE Inv
    OBVIOUS
  <1>1. /\ files = [f \in Files |-> IF f = 0 THEN NewFile ELSE Missing]
        /\ phase = "idle" /\ shift = 0
        /\ row = [id |-> 0, size |-> 1, whole |-> TRUE]
        /\ offered = 0 /\ recorded = <<>> /\ cut = 0 /\ torn = 0
    BY DEF Init, Files
  <1>2. TypeOK
    BY <1>1 DEF TypeOK, Files, Rows, Contents, NewFile
  <1>3. \A f \in Files : RowsIn(f) = <<>> /\ Size(f) = 0
    BY <1>1 DEF RowsIn, Size, NewFile
  <1>4. /\ 0 \in Files /\ BackupCount \in Files /\ Len(<<>>) = 0
        /\ \A f \in Backups : f \in Files /\ f - 1 \in Files
    BY DEF Files, Backups
  <1>5. SegmentInv
    <2>. DEFINE start == [f \in Files |-> 0]
    <2>1. start \in [Files -> 0..Len(recorded)] /\ \A f \in Files : start[f] = 0
      BY <1>1
    <2>. HIDE DEF start
    <2>2. Placed(start)
      BY <1>1, <1>3, <1>4, <2>1 DEF Placed, Files
    <2>3. Holes(start) = {}
      BY <1>4, <2>1 DEF Holes
    <2> QED
      BY <1>1, <2>1, <2>2, <2>3, FS_EmptySet DEF SegmentInv, Files
  <1>6. RotationInv
    BY <1>1, <1>3, <1>4 DEF RotationInv, Gap, Filled
  <1>7. TornInv
    <2>1. Unreadable = {}
      BY <1>2, <1>3, <1>4, UnreadableIs
    <2>2. ~LastIsTorn
      BY <1>3, <1>4 DEF LastIsTorn, Filled
    <2> QED
      BY <1>1, <2>1, <2>2, FS_EmptySet DEF TornInv
  <1>8. SizeInv
    BY <1>1, <1>3 DEF SizeInv, Files
  <1> QED
    BY <1>2, <1>5, <1>6, <1>7, <1>8 DEF Inv

\* record() moves nothing before it knows whether the row fits.
LEMMA RecordInv ==
    ASSUME Inv, Record
    PROVE  Inv'
  <1>1. PICK s \in Sizes :
           /\ row' = [id |-> offered + 1, size |-> s, whole |-> TRUE]
           /\ phase' = IF Fits(s) THEN "append" ELSE "unlink"
    BY DEF Record
  <1>2. /\ offered < MaxRows /\ phase = "idle" /\ offered' = offered + 1
        /\ UNCHANGED <<files, shift, recorded, cut, torn>>
    BY DEF Record
  <1>3. TypeOK /\ SegmentInv /\ RotationInv /\ SizeInv /\ TornInv
    BY DEF Inv
  <1>4. phase' \in {"append", "unlink"} /\ Gap = {} /\ Gap' = {}
    BY <1>1, <1>2 DEF Gap
  <1>5. TypeOK'
    <2>1. row' \in Rows /\ row'.whole
      BY <1>1, <1>2, <1>3 DEF TypeOK, Rows
    <2>2. offered' \in 0..MaxRows
      BY <1>2, <1>3 DEF TypeOK
    <2> QED
      BY <1>2, <1>3, <1>4, <2>1, <2>2 DEF TypeOK
  <1>6. \A f : RowsIn(f)' = RowsIn(f) /\ Size(f)' = Size(f)
    BY <1>2 DEF RowsIn, Size
  <1>7. SegmentInv'
    BY <1>2, <1>3, <1>4, <1>6, SegmentFrame
  <1>8. RotationInv'
    <2>1. phase' = "unlink" => Filled(0)
      BY <1>1, <1>3, RotateFilled
    <2>2. phase' = "unlink" => Filled(0)'
      BY <1>6, <2>1 DEF Filled
    <2> QED
      BY <1>4, <2>2, RotationFrame
  <1>9. TornInv'
    BY <1>2, <1>3, <1>6, TornFrame
  <1>10. SizeInv'
    <2>1. row'.size = s /\ (phase' = "append" => Fits(s))
      BY <1>1
    <2> QED
      BY <1>3, <1>6, <2>1, SizeFrame
  <1> QED
    BY <1>5, <1>7, <1>8, <1>9, <1>10 DEF Inv

\* The row goes to the current file, whole or in part.
LEMMA WriteInv ==
    ASSUME Inv, phase = "append", NEW r \in Rows, r.size <= row.size, Write(r),
           torn' \in 0..MaxTorn, torn' = (IF r.whole THEN torn ELSE torn + 1)
    PROVE  Inv'
  <1>1. TypeOK /\ SegmentInv /\ RotationInv /\ SizeInv /\ TornInv
    BY DEF Inv
  <1>2. TypeOK' /\ phase' = "idle" /\ cut' = cut
        /\ \A f \in Backups : RowsIn(f)' = RowsIn(f)
    BY <1>1, WriteRows
  <1>3. SegmentInv'
    BY <1>1, WriteSegments
  <1>4. RotationInv' /\ SizeInv'
    BY <1>1, <1>2, RotationFrame, WriteSizes
  <1>5. TornInv'
    <2>1. /\ IsFiniteSet(Unreadable')
          /\ Cardinality(Unreadable) \in Nat /\ Cardinality(Unreadable') \in Nat
          /\ Cardinality(Unreadable') <= Cardinality(Unreadable) + 1
          /\ r.whole /\ ~LastIsTorn => Cardinality(Unreadable') <= Cardinality(Unreadable)
          /\ r.whole => ~LastIsTorn'
      BY <1>1, WriteUnreadable
    <2>2. torn \in Nat /\ Cardinality(Unreadable) + (IF LastIsTorn THEN 1 ELSE 0) <= 2 * torn
      BY <1>1 DEF TypeOK, TornInv
    <2>3. CASE r.whole
      <3>1. torn' = torn /\ ~LastIsTorn'
        BY <2>1, <2>3
      <3>2. Cardinality(Unreadable') <= 2 * torn
        <4>1. CASE LastIsTorn
          BY <2>1, <2>2, <4>1
        <4>2. CASE ~LastIsTorn
          BY <2>1, <2>2, <2>3, <4>2
        <4> QED
          BY <4>1, <4>2
      <3> QED
        BY <2>1, <3>1, <3>2 DEF TornInv
    <2>4. CASE ~r.whole
      <3>1. torn' = torn + 1
        BY <2>4
      <3>2. Cardinality(Unreadable) <= 2 * torn
        BY <2>1, <2>2
      <3>3. Cardinality(Unreadable') + 1 <= 2 * torn'
        BY <2>1, <2>2, <3>1, <3>2
      <3>4. Cardinality(Unreadable') + (IF LastIsTorn' THEN 1 ELSE 0) <= 2 * torn'
        <4>1. Cardinality(Unreadable') <= 2 * torn'
          BY <2>1, <2>2, <3>1, <3>3
        <4> QED
          BY <2>1, <3>3, <4>1
      <3> QED
        BY <2>1, <3>4 DEF TornInv
    <2> QED
      BY <2>3, <2>4
  <1> QED
    BY <1>2, <1>3, <1>4, <1>5 DEF Inv

\* A rotation is cut short, or a call lost.
LEMMA InterruptInv ==
    ASSUME Inv, Interrupt
    PROVE  Inv'
  <1>1. /\ cut' = (IF phase = "shift" THEN cut + 1 ELSE cut) /\ phase' = "idle"
        /\ UNCHANGED <<files, shift, row, offered, recorded, torn>>
    BY DEF Interrupt
  <1>2. TypeOK /\ SegmentInv /\ RotationInv /\ SizeInv /\ TornInv
    BY DEF Inv
  <1>3. TypeOK'
    <2>1. cut' \in Nat
      BY <1>1, <1>2 DEF TypeOK
    <2> QED
      BY <1>1, <1>2, <2>1 DEF TypeOK
  <1>4. \A f : RowsIn(f)' = RowsIn(f) /\ Size(f)' = Size(f)
    BY <1>1 DEF RowsIn, Size
  <1>5. SegmentInv'
    <2>1. \/ cut' = cut /\ Gap' = Gap
          \/ cut' = cut + 1 /\ Gap' = {}
      BY <1>1 DEF Gap
    <2> QED
      BY <1>1, <1>2, <1>4, <2>1, SegmentFrame
  <1>6. RotationInv'
    BY <1>1, RotationFrame
  <1>7. SizeInv' /\ TornInv'
    BY <1>1, <1>2, <1>4, SizeFrame, TornFrame
  <1> QED
    BY <1>3, <1>5, <1>6, <1>7 DEF Inv

\* The next process makes the current file, without rows.
LEMMA RestartInv ==
    ASSUME Inv, Restart
    PROVE  Inv'
  <1>1. /\ phase = "idle" /\ files[0] = Missing /\ files' = [files EXCEPT ![0] = NewFile]
        /\ UNCHANGED <<phase, shift, row, offered, recorded, cut, torn>>
    BY DEF Restart
  <1>2. TypeOK /\ SegmentInv /\ RotationInv /\ SizeInv /\ TornInv
    BY DEF Inv
  <1>3. 0 \in Files /\ \A f \in Backups : f \in Files
    BY DEF Files, Backups
  <1>4. TypeOK'
    <2>1. files' \in [0..BackupCount -> {Missing} \cup Contents]
      BY <1>1, <1>2 DEF TypeOK, Contents, NewFile
    <2> QED
      BY <1>1, <1>2, <2>1 DEF TypeOK
  <1>5. ASSUME NEW f \in Files PROVE RowsIn(f)' = RowsIn(f) /\ Size(f)' = Size(f)
    <2>1. files \in [Files -> {Missing} \cup Contents] /\ NewFile # Missing
      <3>1. NewFile \in Contents
        BY DEF Contents, NewFile
      <3> QED
        BY <1>2, <3>1 DEF TypeOK, Files
    <2>2. files'[f] = IF f = 0 THEN NewFile ELSE files[f]
      BY <1>1, <1>5, <2>1
    <2> QED
      BY <1>1, <2>1, <2>2 DEF RowsIn, Size, NewFile
  <1>6. Gap' = Gap
    BY <1>1 DEF Gap
  <1>7. SegmentInv'
    BY <1>1, <1>2, <1>5, <1>6, SegmentFrame
  <1>8. RotationInv'
    BY <1>1, RotationFrame
  <1>9. SizeInv' /\ TornInv'
    BY <1>1, <1>2, <1>5, SizeFrame, TornFrame
  <1> QED
    BY <1>4, <1>7, <1>8, <1>9 DEF Inv

LEMMA NextInv ==
    Inv /\ [Next]_vars => Inv'
  <1>. SUFFICES ASSUME Inv, [Next]_vars PROVE Inv'
    OBVIOUS
  <1>0. TypeOK /\ SegmentInv /\ RotationInv /\ SizeInv /\ TornInv
    BY DEF Inv
  <1>1. CASE Record
    BY <1>1, RecordInv
  <1>2. CASE Unlink
    BY <1>0, <1>2, UnlinkRows, UnlinkSegments, UnlinkRotation, UnlinkSizes, UnlinkTorn DEF Inv
  <1>3. CASE Shift
    <2>1. PICK j : j = shift
      OBVIOUS
    <2>2. TypeOK'
      BY <1>0, <1>3, <2>1, ShiftRows
    <2> QED
      BY <1>0, <1>3, <2>2, ShiftSegments, ShiftRotation, ShiftSizes, ShiftTorn
         DEF Inv
  <1>4. CASE AppendRow
    <2>1. phase = "append" /\ Write(row) /\ torn' = torn
      BY <1>4 DEF AppendRow
    <2>2. row \in Rows /\ row.whole /\ torn \in 0..MaxTorn
      BY <1>0 DEF TypeOK
    <2>3. PICK r \in Rows : r = row
      BY <2>2
    <2>4. Write(r) /\ r.whole /\ r.size <= row.size
      BY <2>1, <2>2, <2>3 DEF Rows
    <2> QED
      BY <2>1, <2>2, <2>4, WriteInv
  <1>5. CASE TearRow
    <2>1. /\ phase = "append" /\ torn < MaxTorn /\ torn' = torn + 1
          /\ \E written \in 1..(row.size - 1) :
                Write([row EXCEPT !.size = written, !.whole = FALSE])
      BY <1>5 DEF TearRow
    <2>2. PICK written \in 1..(row.size - 1) :
             Write([row EXCEPT !.size = written, !.whole = FALSE])
      BY <2>1
    <2>3. row \in Rows /\ torn \in 0..MaxTorn /\ written \in Nat \ {0}
      BY <1>0, <2>2 DEF TypeOK, Rows
    <2>4. PICK r : r = [row EXCEPT !.size = written, !.whole = FALSE]
      OBVIOUS
    <2>5. r \in Rows /\ ~r.whole /\ r.size <= row.size
      <3>1. row.size \in Nat /\ written <= row.size
        BY <2>3 DEF Rows
      <3>2. r \in Rows /\ ~r.whole /\ r.size = written
        BY <2>3, <2>4 DEF Rows
      <3> QED
        BY <3>1, <3>2
    <2>6. Write(r)
      BY <2>2, <2>4
    <2>7. torn' \in 0..MaxTorn
      BY <2>1, <2>3
    <2> QED
      BY <2>1, <2>5, <2>6, <2>7, WriteInv
  <1>6. CASE Interrupt
    BY <1>6, InterruptInv
  <1>7. CASE Restart
    BY <1>7, RestartInv
  <1>8. CASE UNCHANGED vars
    <2>1. /\ UNCHANGED <<files, phase, shift, row, offered, recorded, cut, torn>>
      BY <1>8 DEF vars
    <2>2. TypeOK'
      BY <1>0, <2>1 DEF TypeOK
    <2>3. \A f : RowsIn(f)' = RowsIn(f) /\ Size(f)' = Size(f)
      BY <2>1 DEF RowsIn, Size
    <2>4. Gap' = Gap
      BY <2>1 DEF Gap
    <2>5. SegmentInv' /\ TornInv'
      BY <1>0, <2>1, <2>3, <2>4, SegmentFrame, TornFrame
    <2>7. SizeInv'
      BY <1>0, <2>1, <2>3, SizeFrame DEF SizeInv
    <2>6. RotationInv'
      BY <1>0, <2>1, <2>3, <2>4 DEF RotationInv, Filled
    <2> QED
      BY <2>2, <2>5, <2>6, <2>7 DEF Inv
  <1> QED
    BY <1>1, <1>2, <1>3, <1>4, <1>5, <1>6, <1>7, <1>8 DEF Next

\* Whatever rotation was cut short after whatever operation, the files are
\* consecutive pieces of what was recorded, up to its end.
THEOREM CallSinkInvariant == Spec => []Inv
  BY InitInv, NextInv, PTL DEF Spec

----------------------------------------------------------------------------
(* What is on disk *)

\* A file holds a piece of what was recorded.
LEMMA FileIsPiece ==
    ASSUME TypeOK, NEW start \in [Files -> 0..Len(recorded)], Placed(start), NEW f \in Files
    PROVE  RowsIn(f) = SubSeq(recorded, start[f] + 1, start[f] + Len(RowsIn(f)))
  <1>1. PICK rows \in Seq(Rows) : rows = RowsIn(f)
    BY RowsAreSeqs
  <1>2. PICK from \in Nat : from = start[f]
    OBVIOUS
  <1>3. /\ Len(rows) \in Nat /\ recorded \in Seq(Rows)
        /\ \A k \in 1..Len(rows) : from + k \in 1..Len(recorded) /\ rows[k] = recorded[from + k]
    BY <1>1, <1>2, PlacedBounds DEF Placed, Files, TypeOK
  <1>4. \A i \in (from + 1)..(from + Len(rows)) : recorded[i] \in Rows
    <2>. SUFFICES ASSUME NEW i \in (from + 1)..(from + Len(rows)) PROVE recorded[i] \in Rows
      OBVIOUS
    <2>1. i - from \in 1..Len(rows) /\ from + (i - from) = i
      BY <1>2, <1>3
    <2>2. i \in 1..Len(recorded)
      BY <1>3, <2>1
    <2> QED
      BY <1>3, <2>2
  <1>. DEFINE piece == SubSeq(recorded, from + 1, from + Len(rows))
  <1>5. /\ piece \in Seq(Rows) /\ Len(piece) = Len(rows)
        /\ \A k \in 1..Len(rows) : piece[k] = recorded[from + k]
    <2>1. \A m \in Nat : /\ from + 1 \in Int /\ from + m \in Int
                         /\ (from + m) - (from + 1) + 1 = m
                         /\ (from + 1 <= from + m <=> m # 0)
                         /\ \A k \in 1..m : (from + 1) + k - 1 = from + k
      OBVIOUS
    <2>2. PICK m \in Nat : m = Len(rows)
      BY <1>3
    <2>3. \A i \in (from + 1)..(from + m) : recorded[i] \in Rows
      BY <1>4, <2>2
    <2>4. /\ SubSeq(recorded, from + 1, from + m) \in Seq(Rows)
          /\ Len(SubSeq(recorded, from + 1, from + m)) = m
          /\ \A k \in 1..m : SubSeq(recorded, from + 1, from + m)[k] = recorded[from + k]
      BY <2>1, <2>3, SubSeqProperties
    <2> QED
      BY <2>2, <2>4
  <1>. HIDE DEF piece
  <1>6. rows = piece
    BY <1>1, <1>3, <1>5
  <1> QED
    BY <1>1, <1>2, <1>6 DEF piece

\* Together the files hold what was recorded from the start of the oldest on.
LEMMA RetainedIs ==
    ASSUME TypeOK, NEW start \in [Files -> 0..Len(recorded)], Placed(start)
    PROVE  Retained = SubSeq(recorded, start[BackupCount] + 1, Len(recorded))
  <1>1. PICK n \in Nat \ {0} : n = BackupCount + 1
    OBVIOUS
  <1>2. PICK d \in Nat : d = start[BackupCount]
    BY DEF Files
  <1>. DEFINE end(f) == start[f] + Len(RowsIn(f))
              seqs == [k \in 1..(BackupCount + 1) |-> RowsIn(BackupCount + 1 - k)]
              w == [i \in 1..n |-> SubSeq(recorded, d + 1, end(n - i))]
  <1>3. /\ recorded \in Seq(Rows) /\ Len(recorded) \in Nat
        /\ \A f \in Files : start[f] \in Nat /\ end(f) \in Nat
                            /\ d <= start[f] /\ start[f] <= end(f) /\ end(f) <= Len(recorded)
        /\ end(0) = Len(recorded)
    <2>1. recorded \in Seq(Rows)
      BY DEF TypeOK
    <2>2. ASSUME NEW f \in Files
          PROVE  start[f] \in Nat /\ end(f) \in Nat
                 /\ d <= start[f] /\ start[f] <= end(f) /\ end(f) <= Len(recorded)
      <3>1. /\ start[f] \in Nat /\ Len(RowsIn(f)) \in Nat /\ end(f) <= Len(recorded)
        BY <2>2, PlacedBounds
      <3>2. d <= start[f]
        BY <1>2, <2>2 DEF Placed, Files
      <3> QED
        BY <3>1, <3>2
    <2> QED
      BY <2>1, <2>2 DEF Placed
  <1>4. ASSUME NEW i \in 1..n
        PROVE  w[i] = IF i = 1 THEN seqs[i] ELSE w[i - 1] \o seqs[i]
    <2>1. PICK f \in Files : f = n - i
      BY <1>1 DEF Files
    <2>2. w[i] = SubSeq(recorded, d + 1, end(f))
      BY <2>1
    <2>3. seqs[i] = SubSeq(recorded, start[f] + 1, end(f))
      <3>1. seqs[i] = RowsIn(f)
        BY <1>1, <2>1
      <3>2. RowsIn(f) = SubSeq(recorded, start[f] + 1, start[f] + Len(RowsIn(f)))
        BY FileIsPiece
      <3> QED
        BY <3>1, <3>2
    <2>4. CASE i = 1
      <3>1. start[f] = d
        BY <1>1, <1>2, <2>1, <2>4
      <3> QED
        BY <2>2, <2>3, <2>4, <3>1
    <2>5. CASE i # 1
      <3>1. /\ i - 1 \in 1..n /\ f + 1 = n - (i - 1) /\ f + 1 \in Backups
            /\ f + 1 \in Files /\ (f + 1) - 1 = f
        BY <1>1, <2>1, <2>5 DEF Backups, Files
      <3>2. end(f + 1) = start[f]
        BY <3>1 DEF Placed
      <3>3. w[i - 1] = SubSeq(recorded, d + 1, start[f])
        BY <3>1, <3>2
      <3>4. /\ d + 1 \in 1..(Len(recorded) + 1)
            /\ start[f] \in ((d + 1) - 1)..Len(recorded)
            /\ end(f) \in start[f]..Len(recorded)
        BY <1>3
      <3>. HIDE DEF w, seqs, end
      <3>5. SubSeq(recorded, d + 1, start[f]) \o SubSeq(recorded, start[f] + 1, end(f))
              = SubSeq(recorded, d + 1, end(f))
        BY <1>3, <3>4, ConcatAdjacentSubSeq
      <3> QED
        BY <2>2, <2>3, <2>5, <3>3, <3>5
    <2> QED
      BY <2>4, <2>5
  <1>6. Len(seqs) = n
    BY <1>1
  <1>7. w[n] = SubSeq(recorded, d + 1, Len(recorded))
    <2>1. n \in 1..n /\ n - n = 0
      OBVIOUS
    <2>2. w[n] = SubSeq(recorded, d + 1, end(0))
      BY <2>1
    <2> QED
      BY <1>3, <2>2
  <1>8. Retained = FlattenSeq(seqs)
    BY DEF Retained
  <1>. HIDE DEF w, seqs, end
  <1>9. FlattenSeq(seqs) = w[n]
    <2>1. PICK s : s = seqs
      OBVIOUS
    <2>2. PICK v : v = w
      OBVIOUS
    <2>3. Len(s) = n /\ \A i \in 1..n : v[i] = IF i = 1 THEN s[i] ELSE v[i - 1] \o s[i]
      BY <1>4, <1>6, <2>1, <2>2
    <2>4. FlattenSeq(s) = v[n]
      BY <2>3, FlattenIs
    <2> QED
      BY <2>1, <2>2, <2>4
  <1> QED
    BY <1>2, <1>7, <1>8, <1>9

\* The rest of a sequence is a suffix of it.
LEMMA RestIsSuffix ==
    ASSUME NEW t \in Seq(Rows), NEW d \in 0..Len(t)
    PROVE  /\ Len(SubSeq(t, d + 1, Len(t))) = Len(t) - d
           /\ IsSuffix(SubSeq(t, d + 1, Len(t)), t)
  <1>1. PICK n \in Nat : n = Len(t)
    OBVIOUS
  <1>2. PICK s : s = SubSeq(t, d + 1, n)
    OBVIOUS
  <1>3. /\ s \in Seq(Rows) /\ Len(s) = n - d
        /\ \A i \in 1..(n - d) : s[i] = t[d + i]
    <2>1. \A i \in (d + 1)..n : t[i] \in Rows
      BY <1>1
    <2>2. /\ d + 1 \in Int /\ n \in Int /\ n - (d + 1) + 1 = n - d
          /\ (d + 1 <= n <=> n - d # 0)
          /\ \A i \in 1..(n - d) : (d + 1) + i - 1 = d + i
      BY <1>1
    <2> QED
      BY <1>2, <2>1, <2>2, SubSeqProperties
  <1>4. PICK m \in Nat : m = n - d
    <2>1. n - d \in Nat
      BY <1>1
    <2> QED
      BY <2>1
  <1>5. PICK rs, rt : rs = Reverse(s) /\ rt = Reverse(t)
    OBVIOUS
  <1>6. /\ rs = [i \in 1..m |-> s[(m - i) + 1]]
        /\ rt = [i \in 1..n |-> t[(n - i) + 1]]
    BY <1>1, <1>3, <1>4, <1>5 DEF Reverse
  <1>7. /\ rs \in Seq(Rows) /\ rt \in Seq(Rows) /\ Len(rs) = m /\ Len(rt) = n /\ m <= n
    BY <1>1, <1>3, <1>4, <1>6
  <1>8. ASSUME NEW i \in 1..m PROVE rs[i] = rt[i]
    <2>1. (m - i) + 1 \in 1..(n - d) /\ d + ((m - i) + 1) = (n - i) + 1 /\ i \in 1..n
      BY <1>1, <1>4, <1>7
    <2> QED
      BY <1>3, <1>6, <2>1
  <1>9. SubSeq(rs, 1, m) = SubSeq(rt, 1, m)
    BY <1>7, <1>8
  <1>10. IsSuffix(s, t)
    BY <1>5, <1>7, <1>9 DEF IsSuffix, IsPrefix
  <1> QED
    BY <1>1, <1>2, <1>3, <1>10

\* Read from the oldest backup on, the files always hold the latest recorded
\* rows, in order, with none twice and none missing in between.
THEOREM CallSinkRetainsLatest == Spec => []RetainedIsLatest
  <1>1. Inv => RetainedIsLatest
    <2>. SUFFICES ASSUME Inv PROVE RetainedIsLatest
      OBVIOUS
    <2>1. PICK start \in [Files -> 0..Len(recorded)] : Placed(start)
      BY DEF Inv, SegmentInv, Files
    <2>2. Retained = SubSeq(recorded, start[BackupCount] + 1, Len(recorded))
      BY <2>1, RetainedIs DEF Inv
    <2>3. recorded \in Seq(Rows) /\ start[BackupCount] \in 0..Len(recorded)
      BY <2>1 DEF Inv, TypeOK, Files
    <2> QED
      BY <2>2, <2>3, RestIsSuffix DEF RetainedIsLatest
  <1> QED
    BY <1>1, CallSinkInvariant, PTL

\* A file outgrows its limit only by a single row, and rows are dropped only when
\* every backup is in use, but for one that each rotation cut short has cost.
THEOREM CallSinkFollowsLimits == Spec => []FilesFollowLimits
  <1>1. Inv => FilesFollowLimits
    <2>. SUFFICES ASSUME Inv PROVE FilesFollowLimits
      OBVIOUS
    <2>1. TypeOK /\ SizeInv
      BY DEF Inv
    <2>2. PICK start \in [Files -> 0..Len(recorded)] :
             Placed(start) /\ Cardinality(Holes(start)) <= cut
      BY DEF Inv, SegmentInv, Files
    <2>3. ASSUME phase = "idle", Len(Retained) < Len(recorded)
          PROVE  Cardinality({f \in Backups : RowsIn(f) = <<>>}) <= cut
      <3>1. Retained = SubSeq(recorded, start[BackupCount] + 1, Len(recorded))
        BY <2>1, <2>2, RetainedIs
      <3>2. /\ recorded \in Seq(Rows) /\ start[BackupCount] \in 0..Len(recorded)
            /\ \A f \in Files : start[f] \in Nat
        BY <2>1 DEF TypeOK, Files
      <3>3. Len(Retained) = Len(recorded) - start[BackupCount]
        BY <3>1, <3>2, RestIsSuffix
      <3>4. start[BackupCount] > 0 /\ Gap = {}
        BY <2>3, <3>2, <3>3 DEF Gap
      <3>5. \A f \in Backups : start[BackupCount] <= start[f] /\ f \in Files
        BY <2>2 DEF Placed, Backups, Files
      <3>6. {f \in Backups : RowsIn(f) = <<>>} = Holes(start)
        BY <3>2, <3>4, <3>5 DEF Holes, Filled
      <3> QED
        BY <2>2, <3>6
    <2> QED
      BY <2>1, <2>3 DEF FilesFollowLimits, SizeInv, Backups
  <1> QED
    BY <1>1, CallSinkInvariant, PTL

\* A row written in part costs itself and at most the one that follows it on the
\* same line.
THEOREM CallSinkContainsTornRows == Spec => []TornRowsAreContained
  <1>1. Inv => TornRowsAreContained
    <2>. SUFFICES ASSUME Inv PROVE Cardinality(Unreadable) <= 2 * torn
      BY DEF TornRowsAreContained
    <2>1. /\ IsFiniteSet(Unreadable) /\ torn \in Nat
          /\ Cardinality(Unreadable) + (IF LastIsTorn THEN 1 ELSE 0) <= 2 * torn
      BY DEF Inv, TornInv, TypeOK
    <2>2. Cardinality(Unreadable) \in Nat
      BY <2>1, FS_CardinalityType
    <2> QED
      BY <2>1, <2>2
  <1> QED
    BY <1>1, CallSinkInvariant, PTL
=============================================================================
