---------------------------- MODULE ReplyProofs ----------------------------
(***************************************************************************)
(* The cut to the size of an IRC line, for every text, limit and ellipsis, *)
(* and the reply that comes out of any number of rewrites.                 *)
(*                                                                         *)
(* The argument: encoding is a homomorphism, so the bytes of a text are    *)
(* those of its prefixes one after the other, and a decoder that has read  *)
(* the bytes of a prefix has that prefix.  Of the prefix that does not fit *)
(* any more it gets a leading byte whose character is incomplete and the   *)
(* bytes inside it, and drops them.                                        *)
(***************************************************************************)
EXTENDS Reply, TLAPS, WellFoundedInduction, SequenceTheorems

USE RetriesAssumption, TextAssumption, NoisyAssumption

Widths == 1..4
Octets == 0..4

----------------------------------------------------------------------------
(* Induction and recursion over the naturals, by sets and functions *)

\* A set of naturals has a least member.
LEMMA LeastNatural ==
    ASSUME NEW T, T \subseteq Nat, T # {}
    PROVE  \E m \in T : \A k \in T : ~(k < m)
  <1>1. PICK m \in T : \A k \in T : ~(<<k, m>> \in OpToRel(<, Nat))
    BY NatLessThanWellFounded, WFMin
  <1>2. \A k \in T : <<k, m>> \in OpToRel(<, Nat) <=> k < m
    BY <1>1 DEF OpToRel
  <1> QED
    BY <1>1, <1>2

\* A set that holds 0 and with each number up to n the next one holds them all.
LEMMA UpTo ==
    ASSUME NEW n \in Nat, NEW G, 0 \in G, \A i \in 0..(n - 1) : i \in G => i + 1 \in G
    PROVE  \A i \in 0..n : i \in G
  <1>. DEFINE T == {i \in 0..n : i \notin G}
  <1>. SUFFICES ASSUME T # {} PROVE FALSE
    OBVIOUS
  <1>1. PICK m \in T : \A k \in T : ~(k < m)
    <2>1. T \subseteq Nat
      OBVIOUS
    <2>. HIDE DEF T
    <2> QED
      BY <2>1, LeastNatural
  <1>2. m \in 1..n /\ m \notin G
    BY <1>1
  <1>3. m - 1 \in 0..(n - 1) /\ m - 1 < m /\ (m - 1) + 1 = m
    BY <1>2
  <1>4. m - 1 \in G
    BY <1>1, <1>3
  <1> QED
    BY <1>2, <1>3, <1>4

\* Each value of f is a step from the one before.
Follows(f, step, n) == \A i \in 1..n : f[i] = step[i][f[i - 1]]

\* A function defined by its first value and a step for each other one exists.
LEMMA Recursion ==
    ASSUME NEW S, NEW n \in Nat, NEW base \in S, NEW step \in [1..n -> [S -> S]]
    PROVE  \E f \in [0..n -> S] : f[0] = base /\ Follows(f, step, n)
  <1>. DEFINE Solves(f, m) == f[0] = base /\ Follows(f, step, m)
              G == {m \in 0..n : \E f \in [0..m -> S] : Solves(f, m)}
  <1>1. 0 \in G
    <2>. DEFINE f == [i \in 0..0 |-> base]
    <2>1. f \in [0..0 -> S] /\ Solves(f, 0)
      BY DEF Follows
    <2>. HIDE DEF f, Solves
    <2> QED
      BY <2>1
  <1>2. ASSUME NEW m \in 0..(n - 1), m \in G
        PROVE  m + 1 \in G
    <2>1. PICK f \in [0..m -> S] : Solves(f, m)
      BY <1>2
    <2>. DEFINE g == [i \in 0..(m + 1) |-> IF i = m + 1 THEN step[m + 1][f[m]] ELSE f[i]]
    <2>2. step[m + 1][f[m]] \in S
      BY <1>2
    <2>3. g \in [0..(m + 1) -> S]
      BY <2>2
    <2>4. g[0] = base
      BY <2>1
    <2>5. ASSUME NEW i \in 1..(m + 1) PROVE g[i] = step[i][g[i - 1]]
      <3>1. CASE i = m + 1
        <4>1. i - 1 = m /\ m \in 0..(m + 1) /\ m # m + 1
          BY <3>1
        <4>2. g[m] = f[m]
          BY <4>1
        <4> QED
          BY <3>1, <4>1, <4>2
      <3>2. CASE i # m + 1
        <4>1. i \in 1..m /\ i - 1 \in 0..m /\ i - 1 # m + 1
          BY <3>2
        <4> QED
          BY <2>1, <3>2, <4>1 DEF Follows
      <3> QED
        BY <3>1, <3>2
    <2>. HIDE DEF g
    <2>6. Solves(g, m + 1)
      BY <2>4, <2>5 DEF Follows
    <2>7. m + 1 \in 0..n
      OBVIOUS
    <2>. HIDE DEF Solves
    <2> QED
      BY <2>3, <2>6, <2>7
  <1>3. n \in G
    <2>1. n \in 0..n
      OBVIOUS
    <2>. HIDE DEF G
    <2>2. \A i \in 0..n : i \in G
      BY <1>1, <1>2, UpTo
    <2> QED
      BY <2>1, <2>2
  <1> QED
    BY <1>3

----------------------------------------------------------------------------
(* Encoding *)

\* The bytes of one character.
Char(width) == [k \in 1..width |-> IF k = 1 THEN width ELSE 0]

\* They are as many as the width says.
LEMMA CharBytes ==
    ASSUME NEW width \in Widths
    PROVE  /\ Char(width) \in Seq(Octets) /\ Len(Char(width)) = width
           /\ Char(width)[1] = width
           /\ \A k \in 2..width : Char(width)[k] = 0
  BY DEF Char, Widths, Octets

\* A text is encoded from its beginning, character by character.
LEMMA EncodedIs ==
    ASSUME NEW text \in Seq(Widths), NEW w, NEW n \in Nat, n = Len(text),
           w[0] = <<>>, \A i \in 0..n : w[i] \in Seq(Octets),
           \A i \in 1..n : w[i] = w[i - 1] \o Char(text[i])
    PROVE  Encoded(text) = w[n]
  <1>. DEFINE seqs == [i \in 1..Len(text) |-> [k \in 1..text[i] |-> IF k = 1 THEN text[i] ELSE 0]]
              flatten[i \in 1..Len(seqs)] == IF i = 1 THEN seqs[i] ELSE flatten[i - 1] \o seqs[i]
              v == [i \in 1..Len(seqs) |-> w[i]]
  <1>1. Len(seqs) = n /\ \A i \in 1..n : seqs[i] = Char(text[i])
    BY DEF Char
  <1>2. Encoded(text) = IF Len(seqs) = 0 THEN seqs ELSE flatten[Len(seqs)]
    BY DEF Encoded, FlattenSeq
  <1>3. CASE n = 0
    <2>1. seqs = <<>>
      BY <1>1, <1>3
    <2> QED
      BY <1>1, <1>2, <1>3, <2>1
  <1>4. CASE n # 0
    <2>. HIDE DEF seqs
    <2>1. v = [i \in 1..Len(seqs) |-> IF i = 1 THEN seqs[i] ELSE v[i - 1] \o seqs[i]]
      <3>1. ASSUME NEW i \in 1..n
            PROVE  w[i] = IF i = 1 THEN seqs[i] ELSE v[i - 1] \o seqs[i]
        <4>1. CASE i = 1
          <5>1. 1 \in 1..n /\ 1 - 1 = 0 /\ Char(text[1]) \in Seq(Octets)
            BY <3>1, <4>1, CharBytes
          <5>2. w[1] = <<>> \o Char(text[1])
            BY <5>1
          <5> QED
            BY <1>1, <4>1, <5>1, <5>2, ConcatEmptySeq
        <4>2. CASE i # 1
          <5>1. i - 1 \in 1..Len(seqs)
            BY <1>1, <3>1, <4>2
          <5>2. v[i - 1] = w[i - 1]
            BY <5>1
          <5>. HIDE DEF v
          <5> QED
            BY <1>1, <3>1, <4>2, <5>2
        <4> QED
          BY <4>1, <4>2
      <3> QED
        BY <1>1, <3>1
    <2>2. flatten = [i \in 1..Len(seqs) |-> IF i = 1 THEN seqs[i] ELSE flatten[i - 1] \o seqs[i]]
      BY <2>1
    <2>. HIDE DEF flatten, v
    <2>. DEFINE G == {i \in 0..n : i = 0 \/ flatten[i] = w[i]}
    <2>3. 0 \in G
      OBVIOUS
    <2>4. ASSUME NEW i \in 0..(n - 1), i \in G
          PROVE  i + 1 \in G
      <3>1. i + 1 \in 1..n /\ (i + 1) - 1 = i
        OBVIOUS
      <3>2. flatten[i + 1] = IF i + 1 = 1 THEN seqs[i + 1] ELSE flatten[i] \o seqs[i + 1]
        BY <1>1, <2>2, <3>1
      <3>3. CASE i = 0
        <4>1. Char(text[1]) \in Seq(Octets) /\ w[1] = <<>> \o Char(text[1])
          <5>1. 1 \in 1..n /\ 1 - 1 = 0
            BY <3>1, <3>3
          <5>2. text[1] \in Widths
            BY <5>1
          <5> QED
            BY <5>1, <5>2, CharBytes
        <4>2. flatten[1] = w[1]
          BY <1>1, <3>1, <3>2, <3>3, <4>1, ConcatEmptySeq
        <4> QED
          BY <3>1, <3>3, <4>2
      <3>4. CASE i # 0
        <4>1. flatten[i] = w[i] /\ i + 1 # 1
          BY <2>4, <3>4
        <4>2. flatten[i + 1] = w[i + 1]
          BY <1>1, <3>1, <3>2, <4>1
        <4> QED
          BY <3>1, <4>2
      <3> QED
        BY <3>3, <3>4
    <2>5. n \in G
      <3>1. n \in 0..n
        OBVIOUS
      <3>. HIDE DEF G
      <3>2. \A i \in 0..n : i \in G
        BY <2>3, <2>4, UpTo
      <3> QED
        BY <3>1, <3>2
    <2> QED
      BY <1>1, <1>2, <1>4, <2>5
  <1> QED
    BY <1>3, <1>4

\* The first k characters of a text.
Prefix(text, k) == SubSeq(text, 1, k)

\* A prefix is a text, and the last one is the text itself.
LEMMA PrefixIsText ==
    ASSUME NEW text \in Seq(Widths), NEW k \in 0..Len(text)
    PROVE  /\ Prefix(text, k) \in Seq(Widths) /\ Len(Prefix(text, k)) = k
           /\ \A i \in 1..k : Prefix(text, k)[i] = text[i]
           /\ k = Len(text) => Prefix(text, k) = text
  <1>1. \A i \in 1..k : text[i] \in Widths
    OBVIOUS
  <1>2. /\ 1 \in Int /\ k \in Int /\ (1 <= k <=> k # 0) /\ (k - 1) + 1 = k
        /\ \A i \in 1..k : 1 + i - 1 = i
    OBVIOUS
  <1>3. /\ Prefix(text, k) \in Seq(Widths) /\ Len(Prefix(text, k)) = k
        /\ \A i \in 1..k : Prefix(text, k)[i] = text[i]
    BY <1>1, <1>2, SubSeqProperties DEF Prefix
  <1>4. k = Len(text) => Prefix(text, k) = text
    BY <1>3, SeqEqual
  <1> QED
    BY <1>3, <1>4

\* The bytes of the prefixes of a text grow by the characters.
LEMMA EncodedPrefixes ==
    ASSUME NEW text \in Seq(Widths)
    PROVE  /\ Encoded(Prefix(text, 0)) = <<>>
           /\ \A k \in 0..Len(text) : Encoded(Prefix(text, k)) \in Seq(Octets)
           /\ \A k \in 1..Len(text) :
                 Encoded(Prefix(text, k)) = Encoded(Prefix(text, k - 1)) \o Char(text[k])
  <1>1. PICK n \in Nat : n = Len(text)
    OBVIOUS
  <1>. DEFINE step == [i \in 1..n |-> [s \in Seq(Octets) |-> s \o Char(text[i])]]
  <1>2. \A i \in 1..n : text[i] \in Widths /\ Char(text[i]) \in Seq(Octets)
    BY <1>1, CharBytes
  <1>3. step \in [1..n -> [Seq(Octets) -> Seq(Octets)]]
    BY <1>2
  <1>4. PICK w \in [0..n -> Seq(Octets)] :
           w[0] = <<>> /\ \A i \in 1..n : w[i] = step[i][w[i - 1]]
    <2>1. PICK S, base, g : S = Seq(Octets) /\ base = <<>> /\ g = step
      OBVIOUS
    <2>2. base \in S /\ g \in [1..n -> [S -> S]]
      BY <1>3, <2>1
    <2>. HIDE DEF step
    <2>3. \E w \in [0..n -> S] : w[0] = base /\ Follows(w, g, n)
      BY <2>2, Recursion
    <2> QED
      BY <2>1, <2>3 DEF Follows
  <1>5. ASSUME NEW i \in 1..n
        PROVE  i - 1 \in 0..n /\ w[i] = w[i - 1] \o Char(text[i])
    <2>1. i - 1 \in 0..n
      OBVIOUS
    <2>2. w[i - 1] \in Seq(Octets)
      BY <1>4, <2>1
    <2>3. step[i][w[i - 1]] = w[i - 1] \o Char(text[i])
      BY <2>2
    <2> QED
      BY <1>4, <2>1, <2>3
  <1>6. ASSUME NEW k \in 0..n PROVE Encoded(Prefix(text, k)) = w[k]
    <2>1. PICK t \in Seq(Widths) : t = Prefix(text, k) /\ Len(t) = k /\ k \in Nat
                                   /\ \A i \in 1..k : t[i] = text[i]
      BY <1>1, PrefixIsText
    <2>2. ASSUME NEW i \in 1..k PROVE w[i] = w[i - 1] \o Char(t[i])
      <3>1. i \in 1..n /\ t[i] = text[i]
        BY <2>1, <2>2
      <3>2. w[i] = w[i - 1] \o Char(text[i])
        BY <1>5, <3>1
      <3> QED
        BY <3>1, <3>2
    <2>3. \A i \in 0..k : w[i] \in Seq(Octets)
      BY <1>4
    <2>4. w[0] = <<>>
      BY <1>4
    <2>5. Encoded(t) = w[k]
      BY <2>1, <2>2, <2>3, <2>4, EncodedIs
    <2> QED
      BY <2>1, <2>5
  <1>7. \A k \in 1..n : Encoded(Prefix(text, k)) = Encoded(Prefix(text, k - 1)) \o Char(text[k])
    <2>. SUFFICES ASSUME NEW k \in 1..n
                  PROVE  Encoded(Prefix(text, k))
                           = Encoded(Prefix(text, k - 1)) \o Char(text[k])
      OBVIOUS
    <2>1. k - 1 \in 0..n /\ k \in 0..n
      OBVIOUS
    <2>2. Encoded(Prefix(text, k)) = w[k] /\ Encoded(Prefix(text, k - 1)) = w[k - 1]
      BY <1>6, <2>1
    <2>3. w[k] = w[k - 1] \o Char(text[k])
      BY <1>5
    <2> QED
      BY <2>2, <2>3
  <1>8. Encoded(Prefix(text, 0)) = <<>>
    <2>1. 0 \in 0..n
      OBVIOUS
    <2> QED
      BY <1>4, <1>6, <2>1
  <1>9. \A k \in 0..n : Encoded(Prefix(text, k)) \in Seq(Octets)
    BY <1>4, <1>6
  <1> QED
    BY <1>1, <1>7, <1>8, <1>9

\* So do their numbers.
LEMMA PrefixBytes ==
    ASSUME NEW text \in Seq(Widths)
    PROVE  /\ Bytes(Prefix(text, 0)) = 0
           /\ \A k \in 0..Len(text) : Bytes(Prefix(text, k)) \in Nat
           /\ \A k \in 1..Len(text) :
                 Bytes(Prefix(text, k)) = Bytes(Prefix(text, k - 1)) + text[k]
           /\ Bytes(text) = Bytes(Prefix(text, Len(text))) /\ Bytes(text) \in Nat
  <1>1. Bytes(Prefix(text, 0)) = 0
    BY EncodedPrefixes DEF Bytes
  <1>2. ASSUME NEW k \in 0..Len(text) PROVE Bytes(Prefix(text, k)) \in Nat
    BY EncodedPrefixes DEF Bytes
  <1>3. ASSUME NEW k \in 1..Len(text)
        PROVE  Bytes(Prefix(text, k)) = Bytes(Prefix(text, k - 1)) + text[k]
    <2>1. PICK a, b, c : /\ a = Encoded(Prefix(text, k - 1)) /\ b = Encoded(Prefix(text, k))
                         /\ c = Char(text[k])
      OBVIOUS
    <2>2. k - 1 \in 0..Len(text) /\ text[k] \in Widths
      OBVIOUS
    <2>3. a \in Seq(Octets) /\ c \in Seq(Octets) /\ Len(c) = text[k] /\ b = a \o c
      BY <2>1, <2>2, CharBytes, EncodedPrefixes
    <2>4. Len(b) = Len(a) + Len(c)
      BY <2>3, ConcatProperties
    <2> QED
      BY <2>1, <2>3, <2>4 DEF Bytes
  <1>4. Len(text) \in 0..Len(text) /\ Prefix(text, Len(text)) = text
    BY PrefixIsText
  <1> QED
    BY <1>1, <1>2, <1>3, <1>4

\* A longer prefix has more bytes.
LEMMA PrefixBytesGrow ==
    ASSUME NEW text \in Seq(Widths), NEW i \in 0..Len(text), NEW j \in i..Len(text)
    PROVE  Bytes(Prefix(text, i)) <= Bytes(Prefix(text, j))
  <1>1. PICK n \in Nat : n = Len(text) - i
    <2>1. Len(text) - i \in Nat
      OBVIOUS
    <2> QED
      BY <2>1
  <1>. DEFINE G == {d \in 0..n : Bytes(Prefix(text, i)) <= Bytes(Prefix(text, i + d))}
  <1>2. 0 \in G
    BY PrefixBytes
  <1>3. ASSUME NEW d \in 0..(n - 1), d \in G PROVE d + 1 \in G
    <2>1. i + (d + 1) \in 1..Len(text) /\ (i + (d + 1)) - 1 = i + d /\ i + d \in 0..Len(text)
      BY <1>1
    <2>2. Bytes(Prefix(text, i + (d + 1))) = Bytes(Prefix(text, i + d)) + text[i + (d + 1)]
      BY <2>1, PrefixBytes
    <2>3. text[i + (d + 1)] \in Nat /\ Bytes(Prefix(text, i + d)) \in Nat
          /\ Bytes(Prefix(text, i)) \in Nat
      <3>1. text[i + (d + 1)] \in Widths
        BY <2>1
      <3> QED
        BY <2>1, <3>1, PrefixBytes DEF Widths
    <2>4. Bytes(Prefix(text, i)) <= Bytes(Prefix(text, i + (d + 1)))
      BY <1>3, <2>2, <2>3
    <2> QED
      BY <2>4
  <1>4. j - i \in 0..n /\ i + (j - i) = j
    BY <1>1
  <1>5. j - i \in G
    <2>. HIDE DEF G
    <2> QED
      BY <1>2, <1>3, <1>4, UpTo
  <1> QED
    BY <1>4, <1>5

\* The bytes of a text begin with those of its prefixes.
LEMMA EncodedBegins ==
    ASSUME NEW text \in Seq(Widths), NEW i \in 0..Len(text),
           NEW x \in 1..Bytes(Prefix(text, i))
    PROVE  /\ x \in 1..Bytes(text)
           /\ Encoded(text)[x] = Encoded(Prefix(text, i))[x]
  <1>1. PICK n \in Nat : n = Len(text) - i
    <2>1. Len(text) - i \in Nat
      OBVIOUS
    <2> QED
      BY <2>1
  <1>. DEFINE G == {d \in 0..n : Encoded(Prefix(text, i + d))[x] = Encoded(Prefix(text, i))[x]}
  <1>2. 0 \in G
    OBVIOUS
  <1>3. ASSUME NEW d \in 0..(n - 1), d \in G PROVE d + 1 \in G
    <2>1. PICK k : k = i + (d + 1)
      OBVIOUS
    <2>2. /\ k \in 1..Len(text) /\ k - 1 = i + d /\ k - 1 \in i..Len(text) /\ i \in 0..Len(text)
          /\ k - 1 \in 0..Len(text)
      BY <1>1, <2>1
    <2>3. PICK a, b, c : /\ a = Encoded(Prefix(text, k - 1)) /\ b = Encoded(Prefix(text, k))
                         /\ c = Char(text[k])
      OBVIOUS
    <2>4. a \in Seq(Octets) /\ c \in Seq(Octets) /\ b = a \o c
      <3>1. text[k] \in Widths
        BY <2>2
      <3> QED
        BY <2>2, <2>3, <3>1, CharBytes, EncodedPrefixes
    <2>5. x \in 1..Len(a)
      <3>1. Bytes(Prefix(text, i)) <= Bytes(Prefix(text, k - 1))
        BY <2>2, PrefixBytesGrow
      <3>2. Bytes(Prefix(text, i)) \in Nat /\ Bytes(Prefix(text, k - 1)) \in Nat
        BY <2>2, PrefixBytes
      <3> QED
        BY <2>3, <3>1, <3>2 DEF Bytes
    <2>6. b[x] = a[x]
      BY <2>4, <2>5
    <2>7. Encoded(Prefix(text, i + (d + 1)))[x] = Encoded(Prefix(text, i))[x]
      BY <1>3, <2>1, <2>2, <2>3, <2>6
    <2>8. d + 1 \in 0..n
      OBVIOUS
    <2> QED
      BY <2>7, <2>8
  <1>4. n \in G
    <2>1. n \in 0..n
      OBVIOUS
    <2>. HIDE DEF G
    <2>2. \A d \in 0..n : d \in G
      BY <1>2, <1>3, UpTo
    <2> QED
      BY <2>1, <2>2
  <1>5. i + n = Len(text) /\ Prefix(text, Len(text)) = text /\ Len(text) \in i..Len(text)
    BY <1>1, PrefixIsText
  <1>6. Encoded(text)[x] = Encoded(Prefix(text, i))[x]
    BY <1>4, <1>5
  <1>7. x \in 1..Bytes(text)
    <2>1. Bytes(Prefix(text, i)) <= Bytes(text)
      BY <1>5, PrefixBytesGrow
    <2>2. Bytes(Prefix(text, i)) \in Nat /\ Bytes(text) \in Nat
      BY PrefixBytes
    <2> QED
      BY <2>1, <2>2
  <1> QED
    BY <1>6, <1>7

\* Where a character is in the bytes of its text: its width, then zeros.
LEMMA EncodedAt ==
    ASSUME NEW text \in Seq(Widths), NEW i \in 1..Len(text), NEW r \in 1..text[i]
    PROVE  /\ Bytes(Prefix(text, i - 1)) + r \in 1..Bytes(text)
           /\ Encoded(text)[Bytes(Prefix(text, i - 1)) + r] = IF r = 1 THEN text[i] ELSE 0
  <1>1. PICK a, b, c, x : /\ a = Encoded(Prefix(text, i - 1)) /\ b = Encoded(Prefix(text, i))
                          /\ c = Char(text[i]) /\ x = Bytes(Prefix(text, i - 1)) + r
    OBVIOUS
  <1>2. i - 1 \in 0..Len(text) /\ i \in 0..Len(text) /\ text[i] \in Widths /\ text[i] \in Nat
    BY DEF Widths
  <1>3. a \in Seq(Octets) /\ c \in Seq(Octets) /\ b = a \o c /\ Len(c) = text[i]
    BY <1>1, <1>2, CharBytes, EncodedPrefixes
  <1>4. Len(a) = Bytes(Prefix(text, i - 1)) /\ Len(a) \in Nat
    BY <1>1, <1>3 DEF Bytes
  <1>5. x \in 1..(Len(a) + Len(c)) /\ ~(x <= Len(a)) /\ x - Len(a) = r /\ r \in Nat
    <2>1. PICK m, l : m = Len(a) /\ l = text[i]
      OBVIOUS
    <2>2. m \in Nat /\ l \in Nat /\ r \in 1..l /\ x = m + r /\ Len(c) = l
      BY <1>1, <1>2, <1>3, <1>4, <2>1
    <2>3. x \in 1..(m + l) /\ ~(x <= m) /\ x - m = r /\ r \in Nat
      BY <2>2
    <2> QED
      BY <2>1, <2>2, <2>3
  <1>6. b[x] = c[r] /\ Len(b) = Len(a) + Len(c)
    BY <1>3, <1>5, ConcatProperties
  <1>7. x \in 1..Bytes(Prefix(text, i))
    BY <1>1, <1>5, <1>6 DEF Bytes
  <1>8. x \in 1..Bytes(text) /\ Encoded(text)[x] = b[x]
    BY <1>1, <1>2, <1>7, EncodedBegins
  <1>9. c[r] = IF r = 1 THEN text[i] ELSE 0
    BY <1>1 DEF Char
  <1> QED
    BY <1>1, <1>6, <1>8, <1>9

----------------------------------------------------------------------------
(* Decoding *)

\* What the decoder keeps of byte i after what it kept before.
Kept(bytes, i, before) ==
    IF bytes[i] > 0 /\ i + bytes[i] - 1 <= Len(bytes) THEN Append(before, bytes[i]) ELSE before

\* The decoder reads the bytes one after the other.
LEMMA DecodedSteps ==
    ASSUME NEW bytes \in Seq(Octets), NEW n \in Nat, n = Len(bytes)
    PROVE  \E kept \in [0..n -> Seq(Octets)] :
              /\ kept[0] = <<>> /\ kept[n] = Decoded(bytes)
              /\ \A i \in 1..n : kept[i] = Kept(bytes, i, kept[i - 1])
  <1>. DEFINE step == [i \in 1..n |-> [s \in Seq(Octets) |-> Kept(bytes, i, s)]]
  <1>1. step \in [1..n -> [Seq(Octets) -> Seq(Octets)]]
    <2>. SUFFICES ASSUME NEW i \in 1..n, NEW s \in Seq(Octets)
                  PROVE  Kept(bytes, i, s) \in Seq(Octets)
      OBVIOUS
    <2>1. bytes[i] \in Octets
      OBVIOUS
    <2> QED
      BY <2>1 DEF Kept
  <1>2. PICK w \in [0..n -> Seq(Octets)] :
           w[0] = <<>> /\ \A i \in 1..n : w[i] = step[i][w[i - 1]]
    <2>1. PICK S, base, g : S = Seq(Octets) /\ base = <<>> /\ g = step
      OBVIOUS
    <2>2. base \in S /\ g \in [1..n -> [S -> S]]
      BY <1>1, <2>1
    <2>. HIDE DEF step
    <2>3. \E w \in [0..n -> S] : w[0] = base /\ Follows(w, g, n)
      BY <2>2, Recursion
    <2> QED
      BY <2>1, <2>3 DEF Follows
  <1>3. ASSUME NEW i \in 1..n
        PROVE  i - 1 \in 0..n /\ w[i] = Kept(bytes, i, w[i - 1])
    <2>1. i - 1 \in 0..n
      OBVIOUS
    <2>2. w[i - 1] \in Seq(Octets)
      BY <2>1
    <2>3. step[i][w[i - 1]] = Kept(bytes, i, w[i - 1])
      BY <2>2
    <2> QED
      BY <1>2, <2>1, <2>3
  <1>. DEFINE kept[i \in 0..Len(bytes)] ==
                 IF i = 0 THEN <<>>
                 ELSE IF bytes[i] > 0 /\ i + bytes[i] - 1 <= Len(bytes)
                      THEN Append(kept[i - 1], bytes[i])
                      ELSE kept[i - 1]
  <1>4. w = [i \in 0..Len(bytes) |->
                 IF i = 0 THEN <<>>
                 ELSE IF bytes[i] > 0 /\ i + bytes[i] - 1 <= Len(bytes)
                      THEN Append(w[i - 1], bytes[i])
                      ELSE w[i - 1]]
    <2>1. ASSUME NEW i \in 0..n
          PROVE  w[i] = IF i = 0 THEN <<>>
                        ELSE IF bytes[i] > 0 /\ i + bytes[i] - 1 <= Len(bytes)
                             THEN Append(w[i - 1], bytes[i])
                             ELSE w[i - 1]
      <3>1. CASE i = 0
        BY <1>2, <3>1
      <3>2. CASE i # 0
        <4>1. i \in 1..n
          BY <3>2
        <4> QED
          BY <1>3, <3>2, <4>1 DEF Kept
      <3> QED
        BY <3>1, <3>2
    <2>2. w = [i \in 0..n |-> w[i]]
      OBVIOUS
    <2> QED
      BY <2>1, <2>2
  <1>5. kept = [i \in 0..Len(bytes) |->
                 IF i = 0 THEN <<>>
                 ELSE IF bytes[i] > 0 /\ i + bytes[i] - 1 <= Len(bytes)
                      THEN Append(kept[i - 1], bytes[i])
                      ELSE kept[i - 1]]
    BY <1>4
  <1>6. Decoded(bytes) = kept[n]
    BY DEF Decoded
  <1>. HIDE DEF kept
  <1>7. kept \in [0..n -> Seq(Octets)] /\ kept[0] = <<>>
        /\ \A i \in 1..n : kept[i] = Kept(bytes, i, kept[i - 1])
    <2>1. 0 \in 0..Len(bytes) /\ \A i \in 1..n : i # 0 /\ i \in 0..Len(bytes)
      OBVIOUS
    <2>2. kept[0] = <<>>
      BY <1>5, <2>1
    <2>10. \A i \in 1..n : kept[i] = Kept(bytes, i, kept[i - 1])
      BY <1>5, <2>1 DEF Kept
    <2>. DEFINE G == {i \in 0..n : kept[i] \in Seq(Octets)}
    <2>3. 0 \in G
      <3>1. <<>> \in Seq(Octets) /\ 0 \in 0..n
        OBVIOUS
      <3>2. kept[0] \in Seq(Octets)
        BY <2>2, <3>1
      <3> QED
        BY <3>1, <3>2
    <2>4. ASSUME NEW i \in 0..(n - 1), i \in G PROVE i + 1 \in G
      <3>1. i + 1 \in 1..n /\ (i + 1) - 1 = i /\ i + 1 \in 0..n
        OBVIOUS
      <3>2. kept[i + 1] = Kept(bytes, i + 1, kept[i]) /\ bytes[i + 1] \in Octets
        BY <2>10, <3>1
      <3>3. kept[i + 1] \in Seq(Octets)
        BY <2>4, <3>2 DEF Kept
      <3> QED
        BY <3>1, <3>3
    <2>5. \A i \in 0..n : i \in G
      <3>. HIDE DEF G
      <3> QED
        BY <2>3, <2>4, UpTo
    <2>6. kept = [i \in 0..n |-> kept[i]]
      BY <1>5
    <2> QED
      BY <2>2, <2>5, <2>6, <2>10
  <1> QED
    BY <1>6, <1>7

\* Cut anywhere, the bytes of a text decode to the characters that are whole.
LEMMA DecodedPrefix ==
    ASSUME NEW text \in Seq(Widths), NEW m \in 0..Bytes(text), NEW k \in 0..Len(text),
           Bytes(Prefix(text, k)) <= m,
           k < Len(text) => m < Bytes(Prefix(text, k + 1))
    PROVE  Decoded(SubSeq(Encoded(text), 1, m)) = Prefix(text, k)
  <1>1. PICK bytes : bytes = SubSeq(Encoded(text), 1, m)
    OBVIOUS
  <1>. DEFINE b(i) == Bytes(Prefix(text, i))
  <1>2. /\ \A i \in 0..Len(text) : b(i) \in Nat
        /\ \A i \in 1..Len(text) : b(i) = b(i - 1) + text[i] /\ text[i] \in Widths
        /\ b(0) = 0 /\ Bytes(text) = b(Len(text)) /\ Bytes(text) \in Nat /\ m \in Nat
    BY PrefixBytes
  <1>3. bytes \in Seq(Octets) /\ Len(bytes) = m /\ \A x \in 1..m : bytes[x] = Encoded(text)[x]
    <2>1. Encoded(text) \in Seq(Octets) /\ Len(Encoded(text)) = Bytes(text)
      <3>1. Len(text) \in 0..Len(text) /\ Prefix(text, Len(text)) = text
        BY PrefixIsText
      <3> QED
        BY <3>1, EncodedPrefixes DEF Bytes
    <2>2. \A x \in 1..m : Encoded(text)[x] \in Octets
      BY <1>2, <2>1
    <2>3. /\ 1 \in Int /\ m \in Int /\ (1 <= m <=> m # 0) /\ (m - 1) + 1 = m
          /\ \A x \in 1..m : 1 + x - 1 = x
      BY <1>2
    <2> QED
      BY <1>1, <2>2, <2>3, SubSeqProperties
  <1>4. ASSUME NEW i \in 1..Len(text), NEW r \in 1..text[i], b(i - 1) + r <= m
        PROVE  /\ b(i - 1) + r \in 1..m
               /\ bytes[b(i - 1) + r] = IF r = 1 THEN text[i] ELSE 0
    <2>1. b(i - 1) + r \in 1..Bytes(text)
          /\ Encoded(text)[b(i - 1) + r] = IF r = 1 THEN text[i] ELSE 0
      BY EncodedAt
    <2>. HIDE DEF b
    <2>2. b(i - 1) + r \in 1..m
      BY <1>2, <1>4, <2>1
    <2> QED
      BY <1>3, <2>1, <2>2
  <1>5. PICK kept \in [0..m -> Seq(Octets)] :
           /\ kept[0] = <<>> /\ kept[m] = Decoded(bytes)
           /\ \A x \in 1..m : kept[x] = Kept(bytes, x, kept[x - 1])
    BY <1>2, <1>3, DecodedSteps
  <1>6. \A i \in 1..k : b(i) <= m
    <2>. SUFFICES ASSUME NEW i \in 1..k PROVE b(i) <= m
      OBVIOUS
    <2>1. i \in 0..Len(text) /\ k \in i..Len(text)
      OBVIOUS
    <2>2. b(i) <= b(k)
      BY <2>1, PrefixBytesGrow
    <2>3. b(i) \in Nat /\ b(k) \in Nat /\ b(k) <= m
      BY <1>2, <2>1
    <2>. HIDE DEF b
    <2> QED
      BY <1>2, <2>2, <2>3
  <1>. HIDE DEF b
  \* The bytes inside a character leave things as they are.
  <1>7. ASSUME NEW i \in 1..Len(text), NEW x \in (b(i - 1) + 1)..(b(i - 1) + text[i]), x <= m
        PROVE  kept[x] = kept[b(i - 1) + 1]
    <2>1. PICK h \in Nat, l \in 1..4 : h = b(i - 1) /\ l = text[i]
      <3>1. i - 1 \in 0..Len(text)
        OBVIOUS
      <3> QED
        BY <1>2, <3>1 DEF Widths
    <2>2. x \in (h + 1)..(h + l) /\ x <= m
      BY <1>7, <2>1
    <2>3. ASSUME NEW r \in 2..4, r <= l, h + r <= m
          PROVE  kept[h + r] = kept[h + (r - 1)]
      <3>1. r \in 1..text[i] /\ b(i - 1) + r <= m /\ r # 1
        BY <2>1, <2>3
      <3>2. h + r \in 1..m /\ bytes[h + r] = 0
        BY <1>4, <2>1, <3>1
      <3>3. (h + r) - 1 = h + (r - 1)
        OBVIOUS
      <3>4. kept[h + r] = Kept(bytes, h + r, kept[h + (r - 1)])
        BY <1>5, <3>2, <3>3
      <3> QED
        BY <3>2, <3>4 DEF Kept
    <2>4. l >= 2 /\ h + 2 <= m => kept[h + 2] = kept[h + 1]
      BY <2>3
    <2>5. l >= 3 /\ h + 3 <= m => kept[h + 3] = kept[h + 2]
      BY <2>3
    <2>6. l >= 4 /\ h + 4 <= m => kept[h + 4] = kept[h + 3]
      BY <2>3
    <2>7. x \in {h + 1, h + 2, h + 3, h + 4}
      BY <2>2
    <2>8. /\ x # h + 1 => l >= 2 /\ h + 2 <= m
          /\ x \notin {h + 1, h + 2} => l >= 3 /\ h + 3 <= m
          /\ x \notin {h + 1, h + 2, h + 3} => l >= 4 /\ h + 4 <= m
      BY <1>2, <2>2, <2>7
    <2>9. kept[x] = kept[h + 1]
      BY <2>4, <2>5, <2>6, <2>7, <2>8
    <2> QED
      BY <2>1, <2>9
  \* After the bytes of a prefix the decoder has that prefix.
  <1>. DEFINE G == {i \in 0..k : kept[b(i)] = Prefix(text, i)}
  <1>8. 0 \in G
    <2>1. Prefix(text, 0) = <<>>
      <3>1. Prefix(text, 0) \in Seq(Widths) /\ Len(Prefix(text, 0)) = 0
        BY PrefixIsText
      <3> QED
        BY <3>1
    <2> QED
      BY <1>2, <1>5, <2>1
  <1>9. ASSUME NEW i \in 0..(k - 1), i \in G PROVE i + 1 \in G
    <2>1. i + 1 \in 1..Len(text) /\ (i + 1) - 1 = i /\ i \in 0..Len(text) /\ i + 1 \in 1..k
          /\ i + 1 \in 0..Len(text)
      OBVIOUS
    <2>2. PICK h \in Nat, l \in 1..4 : h = b(i) /\ l = text[i + 1]
      BY <1>2, <2>1 DEF Widths
    <2>3. b(i + 1) = h + l /\ h + l <= m
      BY <1>2, <1>6, <2>1, <2>2
    <2>4. h + 1 \in 1..m /\ bytes[h + 1] = l
      <3>1. b((i + 1) - 1) = h
        BY <2>1, <2>2
      <3>2. 1 \in 1..text[i + 1] /\ h + 1 <= m
        <4>1. 1 \in 1..l /\ h + 1 <= h + l /\ m \in Nat
          BY <1>2
        <4> QED
          BY <2>2, <2>3, <4>1
      <3> QED
        BY <1>4, <2>1, <2>2, <3>1, <3>2
    <2>5. kept[h + 1] = Append(Prefix(text, i), l)
      <3>1. (h + 1) - 1 = h /\ (h + 1) + l - 1 <= Len(bytes) /\ l > 0
        <4>1. (h + 1) - 1 = h /\ (h + 1) + l - 1 = h + l /\ l > 0
          OBVIOUS
        <4> QED
          BY <1>3, <2>3, <4>1
      <3>2. kept[h + 1] = Kept(bytes, h + 1, kept[h])
        BY <1>5, <2>4, <3>1
      <3>3. kept[h] = Prefix(text, i)
        BY <1>9, <2>2
      <3> QED
        BY <2>4, <3>1, <3>2, <3>3 DEF Kept
    <2>6. Prefix(text, i + 1) = Append(Prefix(text, i), l)
      <3>1. PICK p, q : p = Prefix(text, i) /\ q = Prefix(text, i + 1)
        OBVIOUS
      <3>2. /\ p \in Seq(Widths) /\ Len(p) = i /\ \A x \in 1..i : p[x] = text[x]
            /\ q \in Seq(Widths) /\ Len(q) = i + 1 /\ \A x \in 1..(i + 1) : q[x] = text[x]
        BY <2>1, <3>1, PrefixIsText
      <3>3. l \in Widths
        BY DEF Widths
      <3>4. /\ Append(p, l) \in Seq(Widths) /\ Len(Append(p, l)) = i + 1
            /\ \A x \in 1..i : Append(p, l)[x] = p[x]
            /\ Append(p, l)[i + 1] = l
        BY <3>2, <3>3
      <3>5. ASSUME NEW x \in 1..(i + 1) PROVE q[x] = Append(p, l)[x]
        <4>1. CASE x = i + 1
          BY <2>2, <3>2, <3>4, <4>1
        <4>2. CASE x # i + 1
          <5>1. x \in 1..i
            BY <4>2
          <5> QED
            BY <3>2, <3>4, <5>1
        <4> QED
          BY <4>1, <4>2
      <3>6. q = Append(p, l)
        BY <3>2, <3>4, <3>5, SeqEqual
      <3> QED
        BY <3>1, <3>6
    <2>7. kept[h + l] = kept[h + 1]
      <3>1. b((i + 1) - 1) = h
        BY <2>1, <2>2
      <3>2. h + l \in (h + 1)..(h + l) /\ h + l <= m
        BY <2>3
      <3>3. kept[h + l] = kept[b((i + 1) - 1) + 1]
        BY <1>7, <2>1, <2>2, <3>1, <3>2
      <3> QED
        BY <3>1, <3>3
    <2>8. kept[b(i + 1)] = Prefix(text, i + 1)
      BY <2>3, <2>5, <2>6, <2>7
    <2>9. i + 1 \in 0..k
      OBVIOUS
    <2> QED
      BY <2>8, <2>9
  <1>10. kept[b(k)] = Prefix(text, k)
    <2>1. k \in 0..k /\ k \in Nat
      OBVIOUS
    <2>2. k \in G
      <3>. HIDE DEF G
      <3>1. \A i \in 0..k : i \in G
        BY <1>8, <1>9, <2>1, UpTo
      <3> QED
        BY <2>1, <3>1
    <2> QED
      BY <2>2
  \* What is left are bytes of one more character that is not whole.
  <1>11. kept[m] = kept[b(k)]
    <2>1. b(k) \in Nat /\ b(k) <= m /\ m \in Nat
      BY <1>2 DEF b
    <2>2. CASE m = b(k)
      BY <2>2
    <2>3. CASE m # b(k)
      <3>1. k < Len(text)
        <4>1. k = Len(text) => b(k) = Bytes(text)
          BY <1>2
        <4> QED
          BY <1>2, <2>1, <2>3, <4>1
      <3>2. k + 1 \in 1..Len(text) /\ (k + 1) - 1 = k
        BY <3>1
      <3>3. PICK h \in Nat, l \in 1..4 : h = b(k) /\ l = text[k + 1]
        BY <1>2, <2>1, <3>2 DEF Widths
      <3>4. m < h + l /\ h + 1 <= m
        <4>1. m < b(k + 1)
          BY <3>1 DEF b
        <4>2. b(k + 1) = h + l
          BY <1>2, <3>2, <3>3
        <4> QED
          BY <2>1, <2>3, <3>3, <4>1, <4>2
      <3>5. kept[m] = kept[h + 1]
        <4>1. m \in (b((k + 1) - 1) + 1)..(b((k + 1) - 1) + text[k + 1]) /\ m <= m
          BY <2>1, <3>2, <3>3, <3>4
        <4>2. kept[m] = kept[b((k + 1) - 1) + 1]
          BY <1>7, <3>2, <4>1
        <4> QED
          BY <3>2, <3>3, <4>2
      <3>6. h + 1 \in 1..m /\ bytes[h + 1] = l
        <4>1. 1 \in 1..text[k + 1] /\ b((k + 1) - 1) + 1 <= m
          BY <3>2, <3>3, <3>4
        <4> QED
          BY <1>4, <3>2, <3>3, <4>1
      <3>7. kept[h + 1] = kept[h]
        <4>1. (h + 1) - 1 = h /\ ~((h + 1) + l - 1 <= Len(bytes))
          BY <1>2, <1>3, <3>4
        <4>2. kept[h + 1] = Kept(bytes, h + 1, kept[h])
          BY <1>5, <3>6, <4>1
        <4> QED
          BY <3>6, <4>1, <4>2 DEF Kept
      <3> QED
        BY <3>3, <3>5, <3>7
    <2> QED
      BY <2>2, <2>3
  <1> QED
    BY <1>1, <1>5, <1>10, <1>11

----------------------------------------------------------------------------
(* The cut *)

\* Two texts take the bytes of both.
LEMMA BytesConcat ==
    ASSUME NEW s \in Seq(Widths), NEW t \in Seq(Widths)
    PROVE  Bytes(s \o t) = Bytes(s) + Bytes(t)
  <1>1. s \o t \in Seq(Widths) /\ Len(s) \in Nat /\ Len(t) \in Nat
    BY ConcatProperties
  <1>2. PICK u \in Seq(Widths) : u = s \o t
    BY <1>1
  <1>3. PICK m \in Nat : m = Len(s)
    BY <1>1
  <1>4. PICK n \in Nat : n = Len(t)
    BY <1>1
  <1>5. /\ u = s \o t /\ m = Len(s) /\ n = Len(t) /\ Len(u) = m + n
        /\ \A i \in 1..(m + n) : u[i] = IF i <= m THEN s[i] ELSE t[i - m]
    BY <1>2, <1>3, <1>4, ConcatProperties
  <1>6. Prefix(u, m) = s
    <2>1. m \in 0..Len(u)
      BY <1>5
    <2>2. PICK p : p = Prefix(u, m)
      OBVIOUS
    <2>3. p \in Seq(Widths) /\ Len(p) = m /\ \A i \in 1..m : p[i] = u[i]
      BY <2>1, <2>2, PrefixIsText
    <2>4. \A i \in 1..m : p[i] = s[i]
      BY <1>5, <2>3
    <2>5. p = s
      BY <1>5, <2>3, <2>4, SeqEqual
    <2> QED
      BY <2>2, <2>5
  <1>7. Bytes(s) \in Nat
    BY PrefixBytes
  <1>. DEFINE G == {d \in 0..n : Bytes(Prefix(u, m + d)) = Bytes(s) + Bytes(Prefix(t, d))}
  <1>8. 0 \in G
    <2>1. Bytes(Prefix(t, 0)) = 0 /\ m + 0 = m
      BY PrefixBytes
    <2> QED
      BY <1>6, <1>7, <2>1
  <1>9. ASSUME NEW d \in 0..(n - 1), d \in G PROVE d + 1 \in G
    <2>1. /\ m + (d + 1) \in 1..Len(u) /\ (m + (d + 1)) - 1 = m + d
          /\ ~(m + (d + 1) <= m) /\ (m + (d + 1)) - m = d + 1
          /\ d + 1 \in 1..Len(t) /\ (d + 1) - 1 = d /\ d \in 0..Len(t)
      BY <1>5
    <2>2. u[m + (d + 1)] = t[d + 1] /\ t[d + 1] \in Nat
      <3>1. t[d + 1] \in Widths
        BY <2>1
      <3> QED
        BY <1>5, <2>1, <3>1 DEF Widths
    <2>3. Bytes(Prefix(u, m + (d + 1))) = Bytes(Prefix(u, m + d)) + t[d + 1]
      BY <2>1, <2>2, PrefixBytes
    <2>4. Bytes(Prefix(t, d + 1)) = Bytes(Prefix(t, d)) + t[d + 1] /\ Bytes(Prefix(t, d)) \in Nat
      BY <2>1, PrefixBytes
    <2>5. Bytes(Prefix(u, m + d)) = Bytes(s) + Bytes(Prefix(t, d))
      BY <1>9
    <2>6. Bytes(Prefix(u, m + (d + 1))) = Bytes(s) + Bytes(Prefix(t, d + 1))
      BY <1>7, <2>2, <2>3, <2>4, <2>5
    <2>7. d + 1 \in 0..n
      OBVIOUS
    <2> QED
      BY <2>6, <2>7
  <1>10. n \in G
    <2>1. n \in 0..n
      OBVIOUS
    <2>. HIDE DEF G
    <2>2. \A d \in 0..n : d \in G
      BY <1>8, <1>9, UpTo
    <2> QED
      BY <2>1, <2>2
  <1>11. Prefix(u, Len(u)) = u /\ Prefix(t, Len(t)) = t
    <2>1. Len(u) \in 0..Len(u) /\ Len(t) \in 0..Len(t)
      OBVIOUS
    <2> QED
      BY <2>1, PrefixIsText
  <1> QED
    BY <1>5, <1>10, <1>11

\* A text that is too long has a last prefix that fits.
LEMMA CutPoint ==
    ASSUME NEW text \in Seq(Widths), NEW m \in Nat, m < Bytes(text)
    PROVE  \E k \in 0..(Len(text) - 1) :
              Bytes(Prefix(text, k)) <= m /\ m < Bytes(Prefix(text, k + 1))
  <1>. DEFINE T == {i \in 0..Len(text) : m < Bytes(Prefix(text, i))}
  <1>1. Len(text) \in T
    <2>1. Len(text) \in 0..Len(text) /\ Bytes(text) = Bytes(Prefix(text, Len(text)))
      BY PrefixBytes
    <2> QED
      BY <2>1
  <1>2. PICK i \in T : \A j \in T : ~(j < i)
    <2>1. T \subseteq Nat
      OBVIOUS
    <2>. HIDE DEF T
    <2> QED
      BY <1>1, <2>1, LeastNatural
  <1>3. i \in 0..Len(text) /\ m < Bytes(Prefix(text, i))
    BY <1>2
  <1>4. i # 0
    BY <1>3, PrefixBytes
  <1>5. i - 1 \in 0..(Len(text) - 1) /\ (i - 1) + 1 = i /\ i - 1 \in 0..Len(text) /\ i - 1 < i
    BY <1>3, <1>4
  <1>6. Bytes(Prefix(text, i - 1)) <= m
    <2>1. i - 1 \notin T
      BY <1>2, <1>5
    <2>2. Bytes(Prefix(text, i - 1)) \in Nat
      BY <1>5, PrefixBytes
    <2> QED
      BY <1>5, <2>1, <2>2
  <1> QED
    BY <1>3, <1>5, <1>6

\* limit_utf8, for every text, limit and ellipsis: a text that fits is
\* untouched, and one that does not is cut to the longest prefix that fits
\* together with the tail.
LEMMA LimitIsLongestPrefix ==
    ASSUME NEW text \in Seq(Widths), NEW max \in Nat
    PROVE  IF Bytes(text) <= max THEN LimitUtf8(text, max) = text
           ELSE \E k \in 0..(Len(text) - 1) :
                   /\ LimitUtf8(text, max) = SubSeq(text, 1, k) \o CutTail(max)
                   /\ Bytes(SubSeq(text, 1, k) \o CutTail(max)) <= max
                   /\ Bytes(SubSeq(text, 1, k + 1) \o CutTail(max)) > max
  <1>1. CASE Bytes(text) <= max
    BY <1>1 DEF LimitUtf8
  <1>2. CASE ~(Bytes(text) <= max)
    <2>1. Suffix \in Seq(Widths) /\ Bytes(Suffix) \in Nat /\ Bytes(text) \in Nat
      BY PrefixBytes DEF Widths
    <2>2. PICK tail \in Seq(Widths) :
             /\ tail = CutTail(max) /\ Bytes(tail) \in Nat /\ Bytes(tail) <= max
             /\ LimitUtf8(text, max)
                  = Decoded(SubSeq(Encoded(text), 1, max - Bytes(tail))) \o tail
      <3>1. CASE Bytes(Suffix) > max
        <4>1. PICK cut : cut = Decoded(SubSeq(Encoded(text), 1, max))
          OBVIOUS
        <4>2. CutTail(max) = <<>> /\ LimitUtf8(text, max) = cut
          BY <1>2, <3>1, <4>1 DEF CutTail, LimitUtf8
        <4>3. Bytes(<<>>) = 0 /\ <<>> \in Seq(Widths)
          <5>0. <<>> \in Seq(Widths) /\ Len(<<>>) = 0
            BY EmptySeq
          <5>1. PICK e : e \in Seq(Widths) /\ e = <<>> /\ Len(e) = 0
            BY <5>0
          <5>2. 0 \in 0..Len(e) /\ Prefix(e, Len(e)) = e
            BY <5>1, PrefixIsText
          <5> QED
            BY <5>1, <5>2, PrefixBytes
        <4>4. cut \in Seq(Widths)
          <5>1. PICK k \in 0..(Len(text) - 1) :
                   Bytes(Prefix(text, k)) <= max /\ max < Bytes(Prefix(text, k + 1))
            BY <1>2, <2>1, CutPoint
          <5>2. max \in 0..Bytes(text) /\ k \in 0..Len(text)
            BY <1>2, <2>1
          <5>3. cut = Prefix(text, k)
            BY <4>1, <5>1, <5>2, DecodedPrefix
          <5> QED
            BY <5>2, <5>3, PrefixIsText
        <4>5. cut \o <<>> = cut /\ max - 0 = max
          BY <4>4, ConcatEmptySeq
        <4>6. PICK e \in Seq(Widths) : e = <<>> /\ Bytes(e) = 0 /\ cut \o e = cut
          BY <4>3, <4>5
        <4>7. e = CutTail(max) /\ Bytes(e) \in Nat /\ Bytes(e) <= max /\ max - Bytes(e) = max
          BY <4>2, <4>5, <4>6
        <4>8. LimitUtf8(text, max) = Decoded(SubSeq(Encoded(text), 1, max - Bytes(e))) \o e
          BY <4>1, <4>2, <4>6, <4>7
        <4> QED
          BY <4>7, <4>8
      <3>2. CASE ~(Bytes(Suffix) > max)
        BY <1>2, <2>1, <3>2 DEF CutTail, LimitUtf8
      <3> QED
        BY <3>1, <3>2
    <2>3. PICK m \in Nat : m = max - Bytes(tail) /\ m < Bytes(text)
      <3>1. max - Bytes(tail) \in Nat /\ max - Bytes(tail) < Bytes(text)
        BY <1>2, <2>1, <2>2
      <3> QED
        BY <3>1
    <2>4. PICK k \in 0..(Len(text) - 1) :
             Bytes(Prefix(text, k)) <= m /\ m < Bytes(Prefix(text, k + 1))
      BY <2>3, CutPoint
    <2>5. k \in 0..Len(text) /\ k + 1 \in 0..Len(text) /\ m \in 0..Bytes(text)
      BY <2>1, <2>3
    <2>6. LimitUtf8(text, max) = Prefix(text, k) \o tail
      BY <2>2, <2>3, <2>4, <2>5, DecodedPrefix
    <2>7. /\ Bytes(Prefix(text, k) \o tail) = Bytes(Prefix(text, k)) + Bytes(tail)
          /\ Bytes(Prefix(text, k + 1) \o tail) = Bytes(Prefix(text, k + 1)) + Bytes(tail)
          /\ Bytes(Prefix(text, k)) \in Nat /\ Bytes(Prefix(text, k + 1)) \in Nat
      BY <2>5, BytesConcat, PrefixBytes, PrefixIsText
    <2>8. /\ Bytes(Prefix(text, k) \o tail) <= max
          /\ Bytes(Prefix(text, k + 1) \o tail) > max
      BY <2>2, <2>3, <2>4, <2>7
    <2> QED
      BY <1>2, <2>2, <2>6, <2>8 DEF Prefix
  <1> QED
    BY <1>1, <1>2

\* So the result always fits.
LEMMA LimitFits ==
    ASSUME NEW text \in Seq(Widths), NEW max \in Nat
    PROVE  ~(Bytes(LimitUtf8(text, max)) > max)
  <1>1. CASE Bytes(text) <= max
    BY <1>1, LimitIsLongestPrefix, PrefixBytes
  <1>2. CASE ~(Bytes(text) <= max)
    <2>1. PICK k \in 0..(Len(text) - 1) :
             /\ LimitUtf8(text, max) = SubSeq(text, 1, k) \o CutTail(max)
             /\ Bytes(SubSeq(text, 1, k) \o CutTail(max)) <= max
      BY <1>2, LimitIsLongestPrefix
    <2>2. Bytes(LimitUtf8(text, max)) <= max
      BY <2>1
    <2>3. Bytes(LimitUtf8(text, max)) \in Int
      <3>1. k \in 0..Len(text)
        OBVIOUS
      <3>2. Suffix \in Seq(Widths) /\ <<>> \in Seq(Widths)
        BY DEF Widths
      <3>3. CutTail(max) \in Seq(Widths)
        BY <3>2 DEF CutTail
      <3>4. SubSeq(text, 1, k) \in Seq(Widths)
        BY <3>1, PrefixIsText DEF Prefix
      <3>5. SubSeq(text, 1, k) \o CutTail(max) \in Seq(Widths)
        BY <3>3, <3>4, ConcatProperties
      <3>6. PICK u \in Seq(Widths) : u = SubSeq(text, 1, k) \o CutTail(max)
        BY <3>5
      <3>7. Bytes(u) \in Nat /\ u = LimitUtf8(text, max)
        BY <2>1, <3>6, PrefixBytes
      <3> QED
        BY <3>7
    <2> QED
      BY <2>2, <2>3
  <1> QED
    BY <1>1, <1>2

----------------------------------------------------------------------------
(* The reply *)

\* The answers of the provider are texts.
LEMMA AnswersAreTexts ==
    ASSUME NEW text \in Answers
    PROVE  text \in Seq(Widths)
  BY DEF Widths

\* limit_utf8 cuts every answer to the longest prefix that fits.
THEOREM ReplyCutsToLongestPrefix == Spec => []LimitKeepsLongestPrefix
  <1>1. LimitKeepsLongestPrefix
    <2>. SUFFICES ASSUME NEW text \in Answers, NEW max \in 0..SafeBytes
                  PROVE  IF Bytes(text) <= max THEN LimitUtf8(text, max) = text
                         ELSE \E k \in 0..(Len(text) - 1) :
                                 /\ LimitUtf8(text, max) = SubSeq(text, 1, k) \o CutTail(max)
                                 /\ Bytes(SubSeq(text, 1, k) \o CutTail(max)) <= max
                                 /\ Bytes(SubSeq(text, 1, k + 1) \o CutTail(max)) > max
      BY DEF LimitKeepsLongestPrefix
    <2>1. max \in Nat /\ text \in Seq(Widths)
      BY AnswersAreTexts
    <2> QED
      BY <2>1, LimitIsLongestPrefix
  <1> QED
    BY <1>1, PTL

LEMMA InitInv ==
    Init => Inv
  <1>. SUFFICES ASSUME Init PROVE Inv
    OBVIOUS
  <1>1. pc = "chat" /\ answers = <<>> /\ retries = 0
    BY DEF Init
  <1>2. <<>> \in Seq(Answers) /\ Len(<<>>) = 0 /\ DOMAIN <<>> = {}
    OBVIOUS
  <1> QED
    BY <1>1, <1>2 DEF Inv, TypeOK, CountInv, RewrittenInv, ReplyInv

LEMMA NextInv ==
    Inv /\ [Next]_vars => Inv'
  <1>. SUFFICES ASSUME Inv, [Next]_vars PROVE Inv'
    OBVIOUS
  <1>0. TypeOK /\ CountInv /\ RewrittenInv /\ ReplyInv
    BY DEF Inv
  <1>6. answers \in Seq(Answers) /\ Len(answers) \in Nat /\ DOMAIN answers = 1..Len(answers)
         /\ retries \in Nat
    BY <1>0 DEF TypeOK
  <1>1. CASE Chat
    <2>1. pc = "chat" /\ pc' = "measure" /\ retries' = retries /\ reply' = reply
          /\ \E text \in Answers : answers' = Append(answers, text)
      BY <1>1 DEF Chat
    <2>2. PICK text \in Answers : answers' = Append(answers, text)
      BY <2>1
    <2>3. /\ answers' \in Seq(Answers) /\ Len(answers') = Len(answers) + 1
          /\ DOMAIN answers' = 1..(Len(answers) + 1)
          /\ \A i \in 1..Len(answers) : answers'[i] = answers[i]
      BY <1>6, <2>2
    <2>4. TypeOK' /\ CountInv'
      BY <1>0, <2>1, <2>3 DEF TypeOK, CountInv
    <2>5. RewrittenInv'
      <3>. SUFFICES ASSUME NEW i \in 1..(Len(answers) + 1), i < Len(answers')
                    PROVE  TooLong(answers'[i])
        BY <2>1, <2>3 DEF RewrittenInv, TooLong
      <3>1. i \in 1..Len(answers)
        BY <1>6, <2>3
      <3>2. TooLong(answers[i])
        BY <1>0, <1>6, <2>1, <3>1 DEF RewrittenInv
      <3> QED
        BY <2>3, <3>1, <3>2
    <2>6. ReplyInv'
      BY <2>1 DEF ReplyInv
    <2> QED
      BY <2>4, <2>5, <2>6 DEF Inv
  <1>2. CASE ChatFails
    <2>1. pc = "chat" /\ pc' = "error" /\ UNCHANGED <<answers, retries, reply>>
      BY <1>2 DEF ChatFails
    <2> QED
      BY <1>0, <2>1 DEF Inv, TypeOK, CountInv, RewrittenInv, ReplyInv, TooLong
  <1>3. CASE Rewrite
    <2>1. /\ pc = "measure" /\ MayRewrite /\ retries' = retries + 1
          /\ pc' \in {"chat", "error"} /\ UNCHANGED <<answers, reply>>
      BY <1>3 DEF Rewrite
    <2>2. TooLong(Response) /\ retries < MaxConciseRetries
      BY <2>1 DEF MayRewrite
    <2>3. TypeOK' /\ CountInv' /\ ReplyInv'
      BY <1>0, <1>6, <2>1, <2>2 DEF TypeOK, CountInv, ReplyInv
    <2>4. ASSUME NEW i \in DOMAIN answers PROVE TooLong(answers[i])
      <3>1. CASE i < Len(answers)
        BY <1>0, <2>4, <3>1 DEF RewrittenInv
      <3>2. CASE i = Len(answers)
        BY <2>2, <3>2 DEF Response, Last
      <3> QED
        BY <1>6, <2>4, <3>1, <3>2
    <2>5. RewrittenInv'
      BY <2>1, <2>4 DEF RewrittenInv, TooLong
    <2> QED
      BY <2>3, <2>5 DEF Inv
  <1>4. CASE Finish
    <2>1. /\ pc = "measure" /\ ~MayRewrite /\ pc' = "done"
          /\ reply' = LimitUtf8(Response, SafeBytes) /\ UNCHANGED <<answers, retries>>
      BY <1>4 DEF Finish
    <2>2. ~MayRewrite' /\ Response' = Response
      BY <2>1 DEF MayRewrite, Response, TooLong
    <2>3. ReplyInv'
      BY <2>1, <2>2 DEF ReplyInv
    <2>4. TypeOK' /\ CountInv'
      BY <1>0, <2>1 DEF TypeOK, CountInv
    <2>5. RewrittenInv'
      BY <1>0, <2>1 DEF RewrittenInv, TooLong
    <2> QED
      BY <2>3, <2>4, <2>5 DEF Inv
  <1>5. CASE UNCHANGED vars
    <2>1. UNCHANGED <<pc, answers, retries, reply>>
      BY <1>5 DEF vars
    <2> QED
      BY <1>0, <2>1 DEF Inv, TypeOK, CountInv, RewrittenInv, ReplyInv, MayRewrite, Response, TooLong
  <1> QED
    BY <1>1, <1>2, <1>3, <1>4, <1>5 DEF Next

\* One answer per rewrite, all but the last too long, and the last one cut.
THEOREM ReplyInvariant == Spec => []Inv
  BY InitInv, NextInv, PTL DEF Spec

\* The reply fits an IRC line, and is the first answer that does, whole, unless
\* the answer and all its rewrites were too long.
THEOREM ReplyFitsTheLine == Spec => []ReplyIsFirstThatFits
  <1>1. Inv => ReplyIsFirstThatFits
    <2>. SUFFICES ASSUME Inv, pc = "done"
                  PROVE  /\ ~TooLong(reply)
                         /\ \A i \in 1..(Len(answers) - 1) : TooLong(answers[i])
                         /\ IF TooLong(Response)
                            THEN /\ Len(answers) = MaxConciseRetries + 1
                                 /\ reply = LimitUtf8(Response, SafeBytes)
                            ELSE reply = Response
      BY DEF ReplyIsFirstThatFits
    <2>1. /\ answers \in Seq(Answers) /\ retries \in 0..MaxConciseRetries
          /\ Len(answers) = retries + 1
          /\ \A i \in DOMAIN answers : i < Len(answers) => TooLong(answers[i])
          /\ ~MayRewrite /\ reply = LimitUtf8(Response, SafeBytes)
      BY DEF Inv, TypeOK, CountInv, RewrittenInv, ReplyInv
    <2>2. DOMAIN answers = 1..Len(answers) /\ Len(answers) \in 1..Len(answers) /\ Len(answers) \in Nat
      BY <2>1
    <2>3. PICK text \in Seq(Widths) : text = Response
      <3>1. Response \in Answers
        BY <2>1, <2>2 DEF Response, Last
      <3> QED
        BY <3>1, AnswersAreTexts
    <2>4. ~TooLong(reply)
      BY <2>1, <2>3, LimitFits DEF TooLong
    <2>5. \A i \in 1..(Len(answers) - 1) : TooLong(answers[i])
      <3>. SUFFICES ASSUME NEW i \in 1..(Len(answers) - 1) PROVE TooLong(answers[i])
        OBVIOUS
      <3>1. i \in DOMAIN answers /\ i < Len(answers)
        BY <2>2
      <3> QED
        BY <2>1, <3>1
    <2>6. CASE TooLong(Response)
      <3>1. ~(retries < MaxConciseRetries)
        BY <2>1, <2>6 DEF MayRewrite
      <3>2. Len(answers) = MaxConciseRetries + 1
        BY <2>1, <3>1
      <3> QED
        BY <2>1, <2>4, <2>5, <2>6, <3>2
    <2>7. CASE ~TooLong(Response)
      <3>1. Bytes(text) <= SafeBytes
        <4>1. Bytes(text) \in Nat
          BY PrefixBytes
        <4> QED
          BY <2>3, <2>7, <4>1 DEF TooLong
      <3>2. LimitUtf8(text, SafeBytes) = text
        BY <3>1 DEF LimitUtf8
      <3> QED
        BY <2>1, <2>3, <2>4, <2>5, <2>7, <3>2
    <2> QED
      BY <2>6, <2>7
  <1> QED
    BY <1>1, ReplyInvariant, PTL
=============================================================================
