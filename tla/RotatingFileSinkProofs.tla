------------------------ MODULE RotatingFileSinkProofs ------------------------
(***************************************************************************)
(* Safety of RotatingFileSink for all sets of options, sizes and numbers   *)
(* of lines and restarts.  The lines of the earlier processes that reached *)
(* the disk and all those this process has staged stand in one row; disk,  *)
(* stream and staging buffer hold pieces of it (RowInv).  What is in the   *)
(* log file or on its way there fits it (SizeInv).  No file has moved more *)
(* often than rotations have begun (EraInv), so that the last archive goes *)
(* only when a later max_files no longer asks for it (FilesInv).           *)
(***************************************************************************)
EXTENDS RotatingFileSink, SequenceTheorems, WellFoundedInduction, TLAPS

-------------------------------------------------------------------------------
(* Sequences of lines                                                      *)

LineSeq == Seq(Line)

LEMMA Concat ==
    /\ <<>> \in LineSeq
    /\ \A x \in LineSeq : x \o <<>> = x /\ <<>> \o x = x
    /\ \A x, y \in LineSeq : x \o y \in LineSeq /\ Len(x \o y) = Len(x) + Len(y)
    /\ \A x, y, z \in LineSeq : (x \o y) \o z = x \o (y \o z)
BY EmptySeq, ConcatEmptySeq, ConcatProperties, ConcatAssociative DEF LineSeq

\* Where sequences stand in a row, brackets do not matter.
Associate(x, y, z) == (x \o y) \o z = x \o (y \o z)

LEMMA Associativity == \A x, y, z \in LineSeq : Associate(x, y, z)
BY Concat, Zenon DEF Associate

LEMMA ConcatElements ==
    ASSUME NEW x \in LineSeq, NEW y \in LineSeq
    PROVE  \E z \in LineSeq :
              /\ z = x \o y /\ Len(z) = Len(x) + Len(y) /\ Len(x) \in Nat /\ Len(y) \in Nat
              /\ \A i \in 1 .. Len(x) + Len(y) : z[i] = IF i <= Len(x) THEN x[i] ELSE y[i - Len(x)]
<1>1. /\ x \o y \in Seq(Line)
      /\ Len(x \o y) = Len(x) + Len(y)
      /\ \A i \in 1 .. Len(x) + Len(y) :
            (x \o y)[i] = IF i <= Len(x) THEN x[i] ELSE y[i - Len(x)]
  <2>1. x \in Seq(Line) /\ y \in Seq(Line)
    BY DEF LineSeq
  <2> QED
    BY <2>1, ConcatProperties
<1>2. Len(x) \in Nat /\ Len(y) \in Nat
  BY DEF LineSeq
<1> QED
  BY <1>1, <1>2 DEF LineSeq

LEMMA PrefixIs ==
    ASSUME NEW x \in LineSeq, NEW y \in LineSeq
    PROVE  IsPrefix(x, y) <=> Len(x) <= Len(y) /\ \A i \in 1 .. Len(x) : x[i] = y[i]
<1>1. Len(x) \in Nat /\ Len(y) \in Nat /\ SubSeq(x, 1, Len(x)) = x
  BY SubSeqFull DEF LineSeq
<1>2. ASSUME Len(x) <= Len(y)
      PROVE  SubSeq(y, 1, Len(x)) = x <=> \A i \in 1 .. Len(x) : x[i] = y[i]
  <2>1. /\ SubSeq(y, 1, Len(x)) \in LineSeq
        /\ Len(SubSeq(y, 1, Len(x))) = Len(x)
        /\ \A i \in 1 .. Len(x) : SubSeq(y, 1, Len(x))[i] = y[i]
    BY <1>1, <1>2 DEF LineSeq
  <2> QED
    BY <2>1, SeqEqual DEF LineSeq
<1> QED
  BY <1>1, <1>2 DEF IsPrefix

LEMMA PrefixProperties ==
    /\ \A x \in LineSeq : IsPrefix(x, x) /\ IsPrefix(<<>>, x)
    /\ \A x, y \in LineSeq : IsPrefix(x, x \o y)
    /\ \A x, y, z \in LineSeq : IsPrefix(x, y) /\ IsPrefix(y, z) => IsPrefix(x, z)
<1>1. \A x \in LineSeq : IsPrefix(x, x) /\ IsPrefix(<<>>, x)
  BY Concat, PrefixIs
<1>2. ASSUME NEW x \in LineSeq, NEW y \in LineSeq PROVE IsPrefix(x, x \o y)
  <2>1. PICK z \in LineSeq :
           /\ z = x \o y /\ Len(z) = Len(x) + Len(y) /\ Len(x) \in Nat /\ Len(y) \in Nat
           /\ \A i \in 1 .. Len(x) + Len(y) : z[i] = IF i <= Len(x) THEN x[i] ELSE y[i - Len(x)]
    BY ConcatElements
  <2>2. Len(x) <= Len(z) /\ \A i \in 1 .. Len(x) : x[i] = z[i]
    BY <2>1
  <2> QED
    BY <2>1, <2>2, PrefixIs
<1>3. ASSUME NEW x \in LineSeq, NEW y \in LineSeq, NEW z \in LineSeq, IsPrefix(x, y), IsPrefix(y, z)
      PROVE  IsPrefix(x, z)
  <2>1. Len(x) \in Nat /\ Len(y) \in Nat /\ Len(z) \in Nat
    BY DEF LineSeq
  <2> QED
    BY <1>3, <2>1, PrefixIs
<1> QED
  BY <1>1, <1>2, <1>3

LEMMA PassedOnIs ==
    ASSUME NEW x \in LineSeq, NEW p \in PassedOn(x)
    PROVE  p.reached \in LineSeq /\ p.kept \in LineSeq /\ p.reached \o p.kept = x
<1>1. PICK n \in 0 .. Len(x) :
          p = [reached |-> SubSeq(x, 1, n), kept |-> SubSeq(x, n + 1, Len(x))]
  BY DEF PassedOn
<1>2. p.reached = SubSeq(x, 1, n) /\ p.kept = SubSeq(x, n + 1, Len(x))
  BY <1>1
<1>3. x \in Seq(Line) /\ n \in 0 .. Len(x) /\ Len(x) \in Nat
  BY DEF LineSeq
<1>4. SubSeq(x, 1, n) \o SubSeq(x, n + 1, Len(x)) = SubSeq(x, 1, Len(x))
  <2>1. /\ 1 \in 1 .. Len(x) + 1 /\ n \in 1 - 1 .. Len(x) /\ Len(x) \in n .. Len(x)
    BY <1>3
  <2> QED
    BY <1>3, <2>1, ConcatAdjacentSubSeq
<1>5. SubSeq(x, 1, n) \in Seq(Line) /\ SubSeq(x, n + 1, Len(x)) \in Seq(Line)
  BY <1>3
<1> QED
  BY <1>2, <1>3, <1>4, <1>5, SubSeqFull DEF LineSeq

LEMMA ToSetIs ==
    ASSUME NEW x \in LineSeq
    PROVE  /\ ToSet(x) \subseteq Line
           /\ \A l : l \in ToSet(x) <=> \E i \in 1 .. Len(x) : l = x[i]
<1>1. DOMAIN x = 1 .. Len(x) /\ \A i \in 1 .. Len(x) : x[i] \in Line
  BY DEF LineSeq
<1> QED
  BY <1>1 DEF ToSet

LEMMA ToSetConcat ==
    /\ ToSet(<<>>) = {}
    /\ \A x, y \in LineSeq : ToSet(x \o y) = ToSet(x) \cup ToSet(y)
<1>1. ToSet(<<>>) = {}
  BY Concat, ToSetIs
<1>2. ASSUME NEW x \in LineSeq, NEW y \in LineSeq
      PROVE  ToSet(x \o y) = ToSet(x) \cup ToSet(y)
  <2>1. PICK z \in LineSeq :
           /\ z = x \o y /\ Len(z) = Len(x) + Len(y) /\ Len(x) \in Nat /\ Len(y) \in Nat
           /\ \A i \in 1 .. Len(x) + Len(y) : z[i] = IF i <= Len(x) THEN x[i] ELSE y[i - Len(x)]
    BY ConcatElements
  <2>2. ASSUME NEW l \in ToSet(z) PROVE l \in ToSet(x) \cup ToSet(y)
    <3>1. PICK i \in 1 .. Len(z) : l = z[i]
      BY ToSetIs
    <3>2. CASE i <= Len(x)
      BY <2>1, <3>1, <3>2, ToSetIs
    <3>3. CASE ~ (i <= Len(x))
      <4>1. i - Len(x) \in 1 .. Len(y) /\ l = y[i - Len(x)]
        BY <2>1, <3>1, <3>3
      <4> QED
        BY <4>1, ToSetIs
    <3> QED
      BY <3>2, <3>3
  <2>3. ASSUME NEW l \in ToSet(x) PROVE l \in ToSet(z)
    <3>1. PICK i \in 1 .. Len(x) : l = x[i]
      BY ToSetIs
    <3>2. i \in 1 .. Len(z) /\ l = z[i]
      BY <2>1, <3>1
    <3> QED
      BY <3>2, ToSetIs
  <2>4. ASSUME NEW l \in ToSet(y) PROVE l \in ToSet(z)
    <3>1. PICK i \in 1 .. Len(y) : l = y[i]
      BY ToSetIs
    <3>2. Len(x) + i \in 1 .. Len(z) /\ l = z[Len(x) + i]
      BY <2>1, <3>1
    <3> QED
      BY <3>2, ToSetIs
  <2> QED
    BY <2>1, <2>2, <2>3, <2>4
<1> QED
  BY <1>1, <1>2

\* Lines in order, in one sequence and in two that follow each other.
LEMMA RisingConcat ==
    ASSUME NEW x \in LineSeq, NEW y \in LineSeq
    PROVE  Rising(x \o y) <=>
              /\ Rising(x) /\ Rising(y)
              /\ \A l \in ToSet(x), m \in ToSet(y) : l.number < m.number
<1>1. PICK z \in LineSeq :
         /\ z = x \o y /\ Len(z) = Len(x) + Len(y) /\ Len(x) \in Nat /\ Len(y) \in Nat
         /\ \A i \in 1 .. Len(x) + Len(y) : z[i] = IF i <= Len(x) THEN x[i] ELSE y[i - Len(x)]
  BY ConcatElements
<1>2. \A j \in 1 .. Len(y) : Len(x) + j \in 1 .. Len(z) /\ z[Len(x) + j] = y[j]
  BY <1>1
<1>3. \A i \in 1 .. Len(x) : i \in 1 .. Len(z) /\ z[i] = x[i]
  BY <1>1
<1>4. ASSUME Rising(z)
      PROVE  /\ Rising(x) /\ Rising(y)
             /\ \A l \in ToSet(x), m \in ToSet(y) : l.number < m.number
  <2>1. Rising(x)
    BY <1>3, <1>4 DEF Rising
  <2>2. Rising(y)
    <3>1. ASSUME NEW i \in 1 .. Len(y), NEW j \in 1 .. Len(y), i < j
          PROVE  y[i].number < y[j].number
      <4>1. Len(x) + i < Len(x) + j
        BY <1>1, <3>1
      <4> QED
        BY <1>2, <1>4, <4>1 DEF Rising
    <3> QED
      BY <3>1 DEF Rising
  <2>3. ASSUME NEW l \in ToSet(x), NEW m \in ToSet(y) PROVE l.number < m.number
    <3>1. PICK i \in 1 .. Len(x) : l = x[i]
      BY ToSetIs
    <3>2. PICK j \in 1 .. Len(y) : m = y[j]
      BY ToSetIs
    <3>3. i < Len(x) + j
      BY <1>1
    <3> QED
      BY <1>2, <1>3, <1>4, <3>1, <3>2, <3>3 DEF Rising
  <2> QED
    BY <2>1, <2>2, <2>3
<1>5. ASSUME Rising(x), Rising(y),
             \A l \in ToSet(x), m \in ToSet(y) : l.number < m.number,
             NEW i \in 1 .. Len(z), NEW j \in 1 .. Len(z), i < j
      PROVE  z[i].number < z[j].number
  <2>1. CASE j <= Len(x)
    <3>1. i \in 1 .. Len(x) /\ j \in 1 .. Len(x)
      BY <1>1, <1>5, <2>1
    <3> QED
      BY <1>3, <1>5, <3>1 DEF Rising
  <2>2. CASE i <= Len(x) /\ ~ (j <= Len(x))
    <3>1. i \in 1 .. Len(x) /\ j - Len(x) \in 1 .. Len(y) /\ z[j] = y[j - Len(x)]
      BY <1>1, <1>5, <2>2
    <3>2. z[i] \in ToSet(x) /\ z[j] \in ToSet(y)
      BY <1>3, <3>1, ToSetIs
    <3> QED
      BY <1>5, <3>2
  <2>3. CASE ~ (i <= Len(x))
    <3>1. /\ i - Len(x) \in 1 .. Len(y) /\ z[i] = y[i - Len(x)]
          /\ j - Len(x) \in 1 .. Len(y) /\ z[j] = y[j - Len(x)]
          /\ i - Len(x) < j - Len(x)
      BY <1>1, <1>5, <2>3
    <3> QED
      BY <1>5, <3>1 DEF Rising
  <2> QED
    BY <1>1, <2>1, <2>2, <2>3
<1> QED
  BY <1>1, <1>4, <1>5 DEF Rising

\* A prefix is followed by something.
LEMMA PrefixRest ==
    ASSUME NEW x \in LineSeq, NEW y \in LineSeq, IsPrefix(x, y)
    PROVE  \E z \in LineSeq : y = x \o z
<1> DEFINE n == Len(x)
<1>1. /\ n \in 0 .. Len(y) /\ n \in Nat /\ Len(y) \in Nat /\ y \in Seq(Line)
      /\ \A i \in 1 .. n : x[i] = y[i]
  BY PrefixIs DEF LineSeq
<1>2. SubSeq(y, 1, n) \o SubSeq(y, n + 1, Len(y)) = y
  <2>1. SubSeq(y, 1, n) \o SubSeq(y, n + 1, Len(y)) = SubSeq(y, 1, Len(y))
    <3>1. /\ 1 \in 1 .. Len(y) + 1 /\ n \in 1 - 1 .. Len(y) /\ Len(y) \in n .. Len(y)
      BY <1>1
    <3> QED
      BY <1>1, <3>1, ConcatAdjacentSubSeq
  <2> QED
    BY <1>1, <2>1, SubSeqFull
<1>3. SubSeq(y, 1, n) = x
  <2>1. /\ SubSeq(y, 1, n) \in Seq(Line) /\ Len(SubSeq(y, 1, n)) = n
        /\ \A i \in 1 .. n : SubSeq(y, 1, n)[i] = y[i]
    BY <1>1
  <2> QED
    BY <1>1, <2>1, SeqEqual DEF LineSeq
<1>4. SubSeq(y, n + 1, Len(y)) \in LineSeq
  BY <1>1 DEF LineSeq
<1> QED
  BY <1>2, <1>3, <1>4
-------------------------------------------------------------------------------
(* Sizes                                                                   *)

\* Every set of numbers has a least one.
LEMMA LeastNumber ==
    ASSUME NEW S \in SUBSET Nat, S # {}
    PROVE  \E p \in S : \A q \in S : p <= q
<1> DEFINE R == { ss \in Nat \X Nat : ss[1] < ss[2] }
<1>1. IsWellFoundedOn(R, Nat)
  BY NatLessThanWellFounded DEF OpToRel
<1>2. \A p, q \in S : q < p => <<q, p>> \in R
  OBVIOUS
<1> HIDE DEF R
<1>3. PICK p \in S : \A q \in S : ~ (<<q, p>> \in R)
  BY <1>1, WFMin
<1>4. \A q \in S : p \in Nat /\ q \in Nat /\ ~ (q < p)
  <2> TAKE q \in S
  <2>1. ~ (q < p)
    BY <1>2, <1>3, Zenon
  <2> QED
    BY <2>1
<1> QED
  BY <1>4

\* f is the running size of the first n lines.
Sums(lines, n, f) ==
    f = [i \in 0 .. n |-> IF i = 0 THEN 0 ELSE f[i - 1] + lines[i].size]

LEMMA SizeDef == ASSUME NEW lines PROVE
    SizeOf(lines) = (CHOOSE f : Sums(lines, Len(lines), f))[Len(lines)]
BY DEF SizeOf, Sums

LEMMA LineSizes == ASSUME NEW lines \in LineSeq, NEW i \in 1 .. Len(lines)
    PROVE lines[i] \in Line /\ lines[i].size \in Nat \ {0}
<1>1. lines[i] \in Line
  BY DEF LineSeq
<1> QED
  BY <1>1, RotatingAssumption DEF Line

LEMMA SumsSteps ==
    ASSUME NEW lines \in LineSeq, NEW n \in 0 .. Len(lines), NEW f, Sums(lines, n, f)
    PROVE  /\ f[0] = 0
           /\ \A i \in 1 .. n : f[i] = f[i - 1] + lines[i].size
<1>1. \A i \in 0 .. n : f[i] = IF i = 0 THEN 0 ELSE f[i - 1] + lines[i].size
  BY DEF Sums
<1>2. n \in Nat
  BY DEF LineSeq
<1> QED
  BY <1>1, <1>2

\* The running size exists, up to any length.
LEMMA SumsExist ==
    ASSUME NEW lines \in LineSeq
    PROVE  \A n \in 0 .. Len(lines) : \E f \in [0 .. n -> Nat] : Sums(lines, n, f)
<1> DEFINE Has(n) == \E f \in [0 .. n -> Nat] : Sums(lines, n, f)
           Bad == { n \in 0 .. Len(lines) : ~ Has(n) }
<1>1. Len(lines) \in Nat
  BY DEF LineSeq
<1> SUFFICES ASSUME Bad # {} PROVE FALSE
  OBVIOUS
<1>2. PICK n \in Bad : \A q \in Bad : n <= q
  <2>1. Bad \in SUBSET Nat
    BY <1>1
  <2> HIDE DEF Bad
  <2> QED
    BY <2>1, LeastNumber
<1>3. n # 0
  <2> DEFINE z == [i \in 0 .. 0 |-> 0]
  <2>1. z \in [0 .. 0 -> Nat]
    OBVIOUS
  <2>2. z = [i \in 0 .. 0 |-> IF i = 0 THEN 0 ELSE z[i - 1] + lines[i].size]
    OBVIOUS
  <2>3. Has(0)
    BY <2>1, <2>2 DEF Sums
  <2> QED
    BY <2>3
<1>4. n \in 1 .. Len(lines) /\ n - 1 \in 0 .. Len(lines) /\ n \in Nat
  BY <1>1, <1>3
<1>5. Has(n - 1)
  <2> HIDE DEF Has
  <2>1. ~ Has(n - 1) => n - 1 \in Bad
    BY <1>4
  <2> HIDE DEF Bad
  <2> QED
    BY <1>2, <1>4, <2>1
<1>6. PICK g \in [0 .. n - 1 -> Nat] : Sums(lines, n - 1, g)
  BY <1>5
<1> DEFINE h == [i \in 0 .. n |-> IF i = n THEN g[n - 1] + lines[n].size ELSE g[i]]
<1>7. lines[n].size \in Nat
  BY <1>4, LineSizes
<1>8. h \in [0 .. n -> Nat]
  BY <1>4, <1>7
<1>9. ASSUME NEW i \in 0 .. n PROVE h[i] = IF i = 0 THEN 0 ELSE h[i - 1] + lines[i].size
  <2>1. CASE i = n
    <3>1. h[i] = g[n - 1] + lines[n].size
      BY <2>1, <1>4
    <3>2. h[n - 1] = g[n - 1]
      BY <1>4
    <3> QED
      BY <2>1, <3>1, <3>2, <1>4
  <2>2. CASE i # n
    <3>1. i \in 0 .. n - 1 /\ h[i] = g[i]
      BY <2>2, <1>4
    <3>2. g[i] = IF i = 0 THEN 0 ELSE g[i - 1] + lines[i].size
      BY <1>6, <3>1 DEF Sums
    <3>3. i # 0 => h[i - 1] = g[i - 1]
      BY <2>2, <3>1, <1>4
    <3> QED
      BY <3>1, <3>2, <3>3
  <2> QED
    BY <2>1, <2>2
<1>10. Sums(lines, n, h)
  BY <1>9 DEF Sums
<1>11. Has(n)
  <2> HIDE DEF h
  <2> QED
    BY <1>8, <1>10
<1> QED
  BY <1>2, <1>11

\* SizeOf, by its running sums.
LEMMA SizeBySums ==
    ASSUME NEW lines \in LineSeq
    PROVE  \E f : /\ \A i \in 0 .. Len(lines) : f[i] \in Nat
                  /\ f[0] = 0
                  /\ \A i \in 1 .. Len(lines) : f[i] = f[i - 1] + lines[i].size
                  /\ SizeOf(lines) = f[Len(lines)]
<1> DEFINE f == CHOOSE g : Sums(lines, Len(lines), g)
           n == Len(lines)
<1>1. n \in Nat /\ n \in 0 .. n
  BY DEF LineSeq
<1>2. \E g : Sums(lines, n, g)
  BY <1>1, SumsExist
<1>3. Sums(lines, n, f)
  BY <1>2
<1>4. SizeOf(lines) = f[n]
  BY SizeDef
<1> HIDE DEF f
<1>5. f[0] = 0 /\ \A i \in 1 .. n : f[i] = f[i - 1] + lines[i].size
  BY <1>1, <1>3, SumsSteps
<1>6. \A i \in 0 .. n : f[i] \in Nat
  <2> DEFINE Bad == { i \in 0 .. n : f[i] \notin Nat }
  <2> SUFFICES ASSUME Bad # {} PROVE FALSE
    OBVIOUS
  <2>1. PICK i \in Bad : \A q \in Bad : i <= q
    <3>1. Bad \in SUBSET Nat
      BY <1>1
    <3> HIDE DEF Bad
    <3> QED
      BY <3>1, LeastNumber
  <2>2. i \in 1 .. n /\ i - 1 \in 0 .. n
    BY <1>1, <1>5
  <2>3. f[i - 1] \in Nat
    BY <2>1, <2>2
  <2>4. lines[i].size \in Nat
    BY <2>2, LineSizes
  <2> QED
    BY <1>5, <2>2, <2>3, <2>4
<1> QED
  BY <1>4, <1>5, <1>6

LEMMA SizeOfEmpty == SizeOf(<<>>) = 0
<1>1. <<>> \in LineSeq /\ Len(<<>>) = 0
  BY DEF LineSeq
<1> QED
  BY <1>1, SizeBySums

\* The size of two sequences in a row.
LEMMA SizeOfConcatenation ==
    ASSUME NEW s \in LineSeq, NEW t \in LineSeq
    PROVE  SizeOf(s \o t) = SizeOf(s) + SizeOf(t)
<1> DEFINE st == s \o t
           m == Len(s)
           n == Len(t)
<1>1. /\ st \in LineSeq /\ m \in Nat /\ n \in Nat /\ Len(st) = m + n
      /\ \A i \in 1 .. m : st[i] = s[i]
      /\ \A i \in 1 .. n : st[m + i] = t[i]
  BY DEF LineSeq
<1>2. PICK f : /\ \A i \in 0 .. m : f[i] \in Nat
               /\ f[0] = 0 /\ \A i \in 1 .. m : f[i] = f[i - 1] + s[i].size
               /\ SizeOf(s) = f[m]
  BY SizeBySums
<1>3. PICK g : /\ \A i \in 0 .. n : g[i] \in Nat
               /\ g[0] = 0 /\ \A i \in 1 .. n : g[i] = g[i - 1] + t[i].size
               /\ SizeOf(t) = g[n]
  BY SizeBySums
<1> HIDE DEF st
<1>4. PICK h : /\ \A i \in 0 .. Len(st) : h[i] \in Nat
               /\ h[0] = 0 /\ \A i \in 1 .. Len(st) : h[i] = h[i - 1] + st[i].size
               /\ SizeOf(st) = h[Len(st)]
  BY <1>1, SizeBySums
<1>5. \A i \in 0 .. m : h[i] = f[i]
  <2> DEFINE Bad == { i \in 0 .. m : h[i] # f[i] }
  <2> SUFFICES ASSUME Bad # {} PROVE FALSE
    OBVIOUS
  <2>1. PICK i \in Bad : \A q \in Bad : i <= q
    <3>1. Bad \in SUBSET Nat
      BY <1>1
    <3> HIDE DEF Bad
    <3> QED
      BY <3>1, LeastNumber
  <2>2. i \in 1 .. m /\ i - 1 \in 0 .. m /\ i \in 1 .. Len(st)
    BY <1>1, <1>2, <1>4
  <2>3. h[i - 1] = f[i - 1]
    BY <2>1, <2>2
  <2>4. h[i] = h[i - 1] + s[i].size /\ f[i] = f[i - 1] + s[i].size
    BY <1>1, <1>2, <1>4, <2>2
  <2> QED
    BY <2>1, <2>3, <2>4
<1>6. \A i \in 0 .. n : h[m + i] = f[m] + g[i]
  <2> DEFINE Bad == { i \in 0 .. n : h[m + i] # f[m] + g[i] }
  <2> SUFFICES ASSUME Bad # {} PROVE FALSE
    OBVIOUS
  <2>1. PICK i \in Bad : \A q \in Bad : i <= q
    <3>1. Bad \in SUBSET Nat
      BY <1>1
    <3> HIDE DEF Bad
    <3> QED
      BY <3>1, LeastNumber
  <2>2. i # 0
    BY <1>1, <1>2, <1>3, <1>5, <2>1
  <2>3. i \in 1 .. n /\ i - 1 \in 0 .. n /\ m + i \in 1 .. Len(st) /\ (m + i) - 1 = m + (i - 1)
    BY <1>1, <2>2
  <2>4. h[m + (i - 1)] = f[m] + g[i - 1]
    BY <2>1, <2>3
  <2>5. h[m + i] = h[m + (i - 1)] + t[i].size /\ g[i] = g[i - 1] + t[i].size
    <3>1. h[m + i] = h[(m + i) - 1] + st[m + i].size
      BY <1>4, <2>3
    <3> QED
      BY <3>1, <1>1, <1>3, <2>3
  <2>6. t[i].size \in Nat /\ f[m] \in Nat /\ g[i - 1] \in Nat
    BY <1>1, <1>2, <1>3, <2>3, LineSizes
  <2>7. \A a, b, c \in Nat : (a + b) + c = a + (b + c)
    OBVIOUS
  <2>8. (f[m] + g[i - 1]) + t[i].size = f[m] + (g[i - 1] + t[i].size)
    BY <2>6, <2>7
  <2>9. h[m + i] = f[m] + g[i]
    BY <2>4, <2>5, <2>8, Zenon
  <2> QED
    BY <2>1, <2>9, Zenon
<1> QED
  BY <1>1, <1>2, <1>3, <1>4, <1>6 DEF st

\* A size is a number, and 0 only for no lines.
LEMMA SizeOfType ==
    ASSUME NEW lines \in LineSeq
    PROVE  SizeOf(lines) \in Nat /\ (SizeOf(lines) = 0 => lines = <<>>)
<1>1. PICK f : /\ \A i \in 0 .. Len(lines) : f[i] \in Nat
               /\ f[0] = 0 /\ \A i \in 1 .. Len(lines) : f[i] = f[i - 1] + lines[i].size
               /\ SizeOf(lines) = f[Len(lines)]
  BY SizeBySums
<1>2. Len(lines) \in Nat
  BY DEF LineSeq
<1>3. ASSUME lines # <<>> PROVE SizeOf(lines) # 0
  <2>1. Len(lines) \in 1 .. Len(lines) /\ Len(lines) - 1 \in 0 .. Len(lines)
    BY <1>2, <1>3 DEF LineSeq
  <2>2. lines[Len(lines)].size \in Nat \ {0}
    BY <2>1, LineSizes
  <2> QED
    BY <1>1, <2>1, <2>2
<1> QED
  BY <1>1, <1>2, <1>3

LEMMA SizeOfOne ==
    ASSUME NEW l \in Line
    PROVE  <<l>> \in LineSeq /\ SizeOf(<<l>>) = l.size
<1>1. <<l>> \in LineSeq /\ Len(<<l>>) = 1 /\ <<l>>[1] = l
  BY DEF LineSeq
<1>2. l.size \in Nat
  BY RotatingAssumption DEF Line
<1>3. PICK f : /\ f[0] = 0 /\ \A i \in 1 .. 1 : f[i] = f[i - 1] + <<l>>[i].size
               /\ SizeOf(<<l>>) = f[1]
  BY <1>1, SizeBySums
<1> QED
  BY <1>1, <1>2, <1>3

-------------------------------------------------------------------------------
(* The inductive invariant                                                 *)

\* Steps with an open stream, those of a rotation over the archives, those of a start.
Open     == {"idle", "drain", "close", "stage", "drainFlush", "drainOnly"}
Rotating == {"remove", "rename"}
Starting == {"start", "reset", "openApp"}

TypeInv ==
    /\ options \in Options /\ options.maxFiles <= MaxCount /\ fewest <= options.maxFiles
    /\ files \in [Archives -> LineSeq \cup {Absent}]
    /\ stream \in LineSeq /\ staging \in LineSeq /\ staged \in LineSeq /\ disk \in LineSeq
    /\ currentSize \in Nat /\ restarts \in Nat /\ given \in Nat /\ flushed \in Nat
    /\ earlier \in Nat /\ rotations \in Nat /\ fewest \in Nat
    /\ pc \in Open \cup Rotating \cup Starting \cup {"openTrunc", "failed", "down"}
    /\ index \in Archives
    /\ line \in Line \cup {Absent}
    /\ removed \subseteq Line

\* What each step may rely on.
ControlInv ==
    /\ pc \in Rotating \cup {"drain", "close", "stage"} => line # Absent
    /\ pc \in Starting \cup {"idle", "drainFlush", "drainOnly", "down"} => line = Absent
    /\ pc \notin Open \cup {"failed"} \/ pc = "close" => stream = <<>> /\ staging = <<>>
    /\ pc \in Open => files[0] # Absent
    /\ pc = "reset" => /\ index <= options.maxFiles
                       /\ index > 0 => files[0] = Absent
    /\ pc \in Rotating => index \in 1 .. options.maxFiles
    /\ pc = "remove" /\ index < options.maxFiles => files[index] = Absent
    /\ pc = "rename" => files[index] = Absent /\ files[index - 1] # Absent
    /\ pc = "openTrunc" => files[0] = Absent \/ (line # Absent /\ options.maxFiles = 0)

\* The lines of earlier processes that reached the disk, and then all of this one.
Row == SubSeq(disk, 1, earlier) \o staged

\* They stand in order, and the disk has a beginning of the row; the stream has what
\* follows, and while the sink works the staging buffer has the rest.
RowInv ==
    /\ earlier + flushed <= Len(disk)
    /\ Rising(Row)
    /\ \A l \in ToSet(Row) : l.number <= given /\ (line # Absent => l.number < given)
    /\ line # Absent => line.number = given
    /\ IsPrefix(disk, Row)
    /\ pc = "failed" => IsPrefix(disk \o stream, Row)
    /\ pc \notin {"failed", "down"} => disk \o (stream \o staging) = Row

Limit == NormalizeSize(LargestSize)

Fits(lines) == SizeOf(lines) <= Limit \/ Len(lines) <= 1

\* The log file with all that is on its way there.
Filling == Contents(0) \o (stream \o staging)

SizeInv ==
    /\ \A i \in Archives : Fits(Contents(i))
    /\ pc \in Open \cup {"openApp"} => currentSize = SizeOf(Contents(0)) + SizeOf(stream)
    /\ pc = "openTrunc" => currentSize = 0
    /\ pc \notin {"failed", "down"} => Fits(Filling)
    /\ pc = "failed" => Fits(Contents(0) \o stream)
    /\ pc = "stage" => SizeOf(Filling) + line.size <= Limit \/ Filling = <<>>

At(i) == ToSet(Contents(i))

\* A file that the rotation under way has still to move.
Unmoved(i) == \/ pc \in Rotating /\ i <= index
              \/ pc = "openTrunc" /\ line # Absent /\ i = 0

\* No file has moved more often than rotations have begun since its lines were staged.
EraInv ==
    /\ \A l \in ToSet(Row) : l.era <= rotations
    /\ \A i \in Archives : \A l \in At(i) :
          l.era + i + (IF Unmoved(i) THEN 1 ELSE 0) <= rotations

\* The files hold lines of the disk that no start removed, in order; a line is in one of
\* them if a process found an older one, or if it is young enough.
OnDisk == /\ removed \subseteq ToSet(disk)
          /\ \A i \in Archives : At(i) \subseteq ToSet(disk) \ removed

InOrder ==
    \A i \in Archives :
        /\ Rising(Contents(i))
        /\ \A j \in i + 1 .. MaxCount : \A l \in At(i), m \in At(j) : m.number < l.number

IsHeld(l) == \E j \in Archives : l \in At(j)

WithoutGap ==
    \A i \in 0 .. fewest : \A m \in At(i), l \in ToSet(disk) \ removed :
        m.number <= l.number => IsHeld(l)

YoungInv == \A l \in ToSet(disk) \ removed : l.era + fewest >= rotations => IsHeld(l)

FilesInv == OnDisk /\ InOrder /\ WithoutGap /\ YoungInv

\* A truncating start removes lines of earlier processes only.
OwnInv == /\ pc \in Starting => staged = <<>>
          /\ \A k \in 1 .. Len(staged) : staged[k] \notin removed

RotationInv == TypeInv /\ ControlInv /\ RowInv /\ SizeInv /\ EraInv /\ FilesInv /\ OwnInv

-------------------------------------------------------------------------------
(* What the operations do                                                  *)

LEMMA Bounds ==
    /\ MaxCount \in Nat /\ \A n \in FileCounts : n \in Nat /\ n <= MaxCount
    /\ LargestSize \in MaxFileSizes /\ LargestSize \in Nat
    /\ \A n \in MaxFileSizes : n \in Nat /\ n <= LargestSize
    /\ Archives = 0 .. MaxCount /\ 0 \in Archives
<1>1. \E n \in FileCounts : \A m \in FileCounts : m <= n
  BY RotatingAssumption
<1>2. MaxCount \in FileCounts /\ \A m \in FileCounts : m <= MaxCount
  BY <1>1 DEF MaxCount
<1>3. \E n \in MaxFileSizes : \A m \in MaxFileSizes : m <= n
  BY RotatingAssumption
<1>4. LargestSize \in MaxFileSizes /\ \A m \in MaxFileSizes : m <= LargestSize
  BY <1>3 DEF LargestSize
<1>5. FileCounts \subseteq Nat /\ MaxFileSizes \subseteq Nat
  BY RotatingAssumption
<1> QED
  BY <1>2, <1>4, <1>5 DEF Archives

LEMMA Counts ==
    ASSUME TypeInv
    PROVE  /\ fewest \in Nat /\ rotations \in Nat /\ index \in Archives
           /\ Archives \subseteq Nat /\ 0 .. fewest \subseteq Archives
<1>1. /\ options.maxFiles \in FileCounts /\ options.maxFiles <= MaxCount
      /\ fewest <= options.maxFiles /\ fewest \in Nat /\ rotations \in Nat /\ index \in Archives
  BY DEF TypeInv, Options
<1>2. MaxCount \in Nat /\ options.maxFiles \in Nat /\ Archives = 0 .. MaxCount
  BY <1>1, Bounds
<1>3. fewest <= MaxCount
  BY <1>1, <1>2
<1> QED
  BY <1>1, <1>2, <1>3

LEMMA LineIsNotAbsent ==
    /\ Absent \notin LineSeq /\ Absent \notin Line
BY AbsentAssumption DEF LineSeq

LEMMA ContentsIs ==
    ASSUME TypeInv
    PROVE  \A i \in Archives : /\ Contents(i) \in LineSeq
                               /\ files[i] # Absent => /\ Contents(i) = files[i]
                                                      /\ files[i] \in LineSeq
                               /\ files[i] = Absent => Contents(i) = <<>>
BY Concat DEF TypeInv, Contents

\* r reaches the log file and k stays in the stream.
Drained(r, k) ==
    /\ pc \in Open \ {"close", "stage"}
    /\ r \o k = stream \o staging
    /\ files' = [files EXCEPT ![0] = @ \o r] /\ disk' = disk \o r /\ stream' = k
    /\ staging' \in {staging, <<>>} /\ currentSize' \in Nat
    /\ \/ pc' = "failed" /\ flushed' = flushed
       \/ /\ pc' = IF pc = "drain" THEN "close" ELSE "idle"
          /\ staging' = <<>> /\ currentSize' = currentSize + SizeOf(staging)
          /\ pc = "drain" => k = <<>>
          /\ flushed' = flushed \/ (k = <<>> /\ flushed' = Len(staged))
    /\ UNCHANGED <<options, index, line, restarts, given, staged,
                   earlier, removed, rotations, fewest>>

LEMMA DrainIs ==
    ASSUME TypeInv, NEW flushStream \in BOOLEAN, NEW to,
           DrainStagingBuffer(flushStream, to)
    PROVE  \E r, k \in LineSeq :
              /\ r \o k = stream \o staging
              /\ files' = [files EXCEPT ![0] = @ \o r] /\ disk' = disk \o r /\ stream' = k
              /\ staging' \in {staging, <<>>} /\ currentSize' \in Nat
              /\ \/ pc' = "failed"
                 \/ /\ pc' = to
                    /\ staging' = <<>> /\ currentSize' = currentSize + SizeOf(staging)
                    /\ flushStream => k = <<>>
<1>1. stream \in LineSeq /\ staging \in LineSeq /\ currentSize \in Nat
  BY DEF TypeInv
<1>2. stream \o staging \in LineSeq /\ SizeOf(staging) \in Nat
  BY <1>1, Concat, SizeOfType
<1> DEFINE x == stream \o staging
<1>3. PICK p \in PassedOn(x), throws \in {"nowhere", "write", "flush"} :
         /\ throws = "write" => staging # <<>>
         /\ throws = "flush" => flushStream
         /\ flushStream /\ throws = "nowhere" => p.kept = <<>>
         /\ files' = [files EXCEPT ![0] = @ \o p.reached]
         /\ disk' = disk \o p.reached
         /\ stream' = p.kept
         /\ IF throws = "write" THEN UNCHANGED <<staging, currentSize>>
            ELSE staging' = <<>> /\ currentSize' = currentSize + SizeOf(staging)
         /\ pc' = IF throws = "nowhere" THEN to ELSE "failed"
  BY DEF DrainStagingBuffer, Reach
<1> HIDE DEF x
<1>4. p.reached \in LineSeq /\ p.kept \in LineSeq /\ p.reached \o p.kept = x
  BY <1>2, <1>3, PassedOnIs DEF x
<1>5. staging' \in {staging, <<>>} /\ currentSize' \in Nat
  BY <1>1, <1>2, <1>3
<1>6. \/ pc' = "failed"
      \/ /\ pc' = to
         /\ staging' = <<>> /\ currentSize' = currentSize + SizeOf(staging)
         /\ flushStream => p.kept = <<>>
  BY <1>3
<1> QED
  BY <1>3, <1>4, <1>5, <1>6 DEF x

LEMMA Drains ==
    ASSUME TypeInv, DrainToRotate \/ DrainBatch \/ Flush
    PROVE  \E r, k \in LineSeq : Drained(r, k)
<1>1. CASE DrainToRotate
  <2>1. pc = "drain" /\ DrainStagingBuffer(TRUE, "close")
        /\ UNCHANGED <<options, index, line, restarts, given, staged, flushed,
                       earlier, removed, rotations, fewest>>
    BY <1>1 DEF DrainToRotate
  <2>2. PICK r \in LineSeq, k \in LineSeq :
           /\ r \o k = stream \o staging
           /\ files' = [files EXCEPT ![0] = @ \o r] /\ disk' = disk \o r /\ stream' = k
           /\ staging' \in {staging, <<>>} /\ currentSize' \in Nat
           /\ \/ pc' = "failed"
              \/ /\ pc' = "close"
                 /\ staging' = <<>> /\ currentSize' = currentSize + SizeOf(staging)
                 /\ k = <<>>
    BY <2>1, DrainIs
  <2>3. Drained(r, k)
    BY <2>1, <2>2 DEF Drained, Open
  <2> QED
    BY <2>3
<1>2. CASE DrainBatch
  <2>1. pc \in {"drainFlush", "drainOnly"} /\ DrainStagingBuffer(pc = "drainFlush", "idle")
        /\ UNCHANGED <<options, index, line, restarts, given, staged, flushed,
                       earlier, removed, rotations, fewest>>
    BY <1>2 DEF DrainBatch
  <2>2. PICK r \in LineSeq, k \in LineSeq :
           /\ r \o k = stream \o staging
           /\ files' = [files EXCEPT ![0] = @ \o r] /\ disk' = disk \o r /\ stream' = k
           /\ staging' \in {staging, <<>>} /\ currentSize' \in Nat
           /\ \/ pc' = "failed"
              \/ /\ pc' = "idle"
                 /\ staging' = <<>> /\ currentSize' = currentSize + SizeOf(staging)
    <3>1. (pc = "drainFlush") \in BOOLEAN
      OBVIOUS
    <3> QED
      BY <2>1, <3>1, DrainIs
  <2>3. Drained(r, k)
    BY <2>1, <2>2 DEF Drained, Open
  <2> QED
    BY <2>3
<1>3. CASE Flush
  <2>1. pc = "idle" /\ DrainStagingBuffer(TRUE, "idle")
        /\ flushed' = (IF pc' = "idle" THEN Len(staged) ELSE flushed)
        /\ UNCHANGED <<options, index, line, restarts, given, staged,
                       earlier, removed, rotations, fewest>>
    BY <1>3 DEF Flush, FlushesStream
  <2>2. PICK r \in LineSeq, k \in LineSeq :
           /\ r \o k = stream \o staging
           /\ files' = [files EXCEPT ![0] = @ \o r] /\ disk' = disk \o r /\ stream' = k
           /\ staging' \in {staging, <<>>} /\ currentSize' \in Nat
           /\ \/ pc' = "failed"
              \/ /\ pc' = "idle"
                 /\ staging' = <<>> /\ currentSize' = currentSize + SizeOf(staging)
                 /\ k = <<>>
    BY <2>1, DrainIs
  <2>3. Drained(r, k)
    BY <2>1, <2>2 DEF Drained, Open
  <2> QED
    BY <2>3
<1> QED
  BY <1>1, <1>2, <1>3

\* r reaches the log file when the stream is destroyed.
Destroyed(r) ==
    /\ pc \in {"idle", "failed"} /\ files[0] # Absent
    /\ \E k \in LineSeq : r \o k = stream
    /\ files' = [files EXCEPT ![0] = @ \o r] /\ disk' = disk \o r
    /\ Down
    /\ UNCHANGED <<options, currentSize, restarts, given, staged, flushed,
                   earlier, removed, rotations, fewest>>

LEMMA DestroyIs ==
    ASSUME TypeInv, Destroy
    PROVE  \E r \in LineSeq : Destroyed(r)
<1>1. PICK p \in PassedOn(stream) : Reach(p.reached)
  BY DEF Destroy
<1>2. p.reached \in LineSeq /\ p.kept \in LineSeq /\ p.reached \o p.kept = stream
  BY <1>1, PassedOnIs DEF TypeInv
<1>3. Destroyed(p.reached)
  BY <1>1, <1>2 DEF Destroy, Destroyed, Reach
<1> QED
  BY <1>2, <1>3

\* A rotation closes an empty stream.
Closed ==
    /\ pc = "close" /\ UNCHANGED <<files, disk, stream>>
    /\ index' = options.maxFiles
    /\ IF options.maxFiles = 0 THEN pc' = "openTrunc" /\ currentSize' = 0
       ELSE pc' = "remove" /\ UNCHANGED currentSize
    /\ rotations' = rotations + 1
    /\ UNCHANGED <<options, staging, line, restarts, given, staged, flushed,
                   earlier, removed, fewest>>

LEMMA CloseIs ==
    ASSUME TypeInv, ControlInv, RotateClose
    PROVE  Closed
<1>1. stream = <<>> /\ files[0] # Absent
  BY DEF RotateClose, ControlInv, Open
<1>2. PICK p \in PassedOn(stream) : Reach(p.reached)
  BY DEF RotateClose
<1>3. p.reached = <<>>
  <2>1. p.reached \in LineSeq /\ p.kept \in LineSeq /\ p.reached \o p.kept = <<>>
    BY <1>1, <1>2, PassedOnIs, Concat
  <2>2. Len(p.reached) + Len(p.kept) = 0 /\ Len(p.reached) \in Nat /\ Len(p.kept) \in Nat
    BY <2>1, Concat, ConcatElements
  <2> QED
    BY <2>1, <2>2 DEF LineSeq
<1>4. disk' = disk
  BY <1>2, <1>3, Concat DEF Reach, TypeInv
<1>5. files' = files
  <2>1. files[0] \in LineSeq /\ files[0] \o <<>> = files[0]
    BY <1>1, Bounds, ContentsIs, Concat
  <2>2. files' = [files EXCEPT ![0] = files[0]]
    BY <1>2, <1>3, <2>1 DEF Reach
  <2>3. files \in [Archives -> LineSeq \cup {Absent}]
    BY DEF TypeInv
  <2> QED
    BY <2>2, <2>3
<1> QED
  BY <1>1, <1>4, <1>5 DEF RotateClose, Closed, FirstArchive

-------------------------------------------------------------------------------
(* Types and control                                                       *)

\* The log file takes r.
LEMMA FilesTake ==
    ASSUME TypeInv, NEW r \in LineSeq, files[0] # Absent,
           files' = [files EXCEPT ![0] = @ \o r]
    PROVE  /\ files' \in [Archives -> LineSeq \cup {Absent}]
           /\ files'[0] # Absent
           /\ \A i \in Archives : i # 0 => files'[i] = files[i]
           /\ \A i \in Archives :
                 Contents(i)' = IF i = 0 THEN Contents(0) \o r ELSE Contents(i)
<1>1. files \in [Archives -> LineSeq \cup {Absent}] /\ 0 \in Archives
  BY Bounds DEF TypeInv
<1>2. files[0] \in LineSeq /\ files[0] \o r \in LineSeq
  BY <1>1, Concat
<1>3. files' = [files EXCEPT ![0] = files[0] \o r]
  OBVIOUS
<1>4. files'[0] = files[0] \o r /\ \A i \in Archives : i # 0 => files'[i] = files[i]
  BY <1>1, <1>3
<1>5. files'[0] # Absent
  BY <1>2, <1>4, LineIsNotAbsent
<1>6. files' \in [Archives -> LineSeq \cup {Absent}]
  BY <1>1, <1>2, <1>3
<1> QED
  BY <1>1, <1>4, <1>5, <1>6 DEF Contents

LEMMA TypeInit == Init => TypeInv /\ ControlInv
<1> SUFFICES ASSUME Init PROVE TypeInv /\ ControlInv
  OBVIOUS
<1>1. options.maxFiles \in FileCounts
  BY DEF Init, Options
<1> QED
  BY <1>1, Bounds, LineIsNotAbsent, Concat DEF Init, TypeInv, ControlInv, Open, Rotating, Starting

LEMMA TypeNext == TypeInv /\ ControlInv /\ [Next]_vars => TypeInv' /\ ControlInv'
<1> SUFFICES ASSUME TypeInv, ControlInv, [Next]_vars PROVE TypeInv' /\ ControlInv'
  OBVIOUS
<1> USE DEF Open, Rotating, Starting
<1>1. /\ options.maxFiles \in Nat /\ MaxCount \in Nat /\ Archives = 0 .. MaxCount /\ 0 \in Archives
      /\ index \in Nat /\ options.maxFiles \in Archives
  BY Bounds DEF TypeInv, Options
<1>2. CASE FileSystemFails
  BY <1>2 DEF FileSystemFails, Goto, history, TypeInv, ControlInv
<1>3. CASE Start
  <2>1. SizeOf(Contents(0)) \in Nat
    BY <1>1, ContentsIs, SizeOfType
  <2> QED
    BY <1>1, <1>3, <2>1 DEF Start, history, TypeInv, ControlInv
<1>4. CASE ResetRemove
  <2>1. ToSet(Contents(index)) \subseteq Line
    BY ContentsIs, ToSetIs DEF TypeInv
  <2>2. removed' \subseteq Line
    BY <1>4, <2>1 DEF ResetRemove, TypeInv
  <2>3. files' = [files EXCEPT ![index] = Absent] /\ files' \in [Archives -> LineSeq \cup {Absent}]
    BY <1>4 DEF ResetRemove, TypeInv
  <2>4. files'[0] = Absent
    BY <1>1, <1>4, <2>3 DEF ResetRemove, TypeInv, ControlInv
  <2>5. CASE index < options.maxFiles
    BY <1>1, <1>4, <2>2, <2>3, <2>4, <2>5 DEF ResetRemove, TypeInv, ControlInv
  <2>6. CASE ~ (index < options.maxFiles)
    BY <1>1, <1>4, <2>2, <2>3, <2>4, <2>6 DEF ResetRemove, Goto, TypeInv, ControlInv
  <2> QED
    BY <2>5, <2>6
<1>5. CASE OpenAppend
  <2>1. Contents(0) \in LineSeq
    BY <1>1, ContentsIs
  <2>2. /\ files' \in [Archives -> LineSeq \cup {Absent}] /\ files'[0] # Absent
    BY <1>1, <1>5, <2>1, LineIsNotAbsent DEF OpenAppend, TypeInv
  <2> QED
    BY <1>5, <2>2 DEF OpenAppend, Goto, history, TypeInv, ControlInv
<1>6. CASE OpenTruncate
  <2>1. /\ files' \in [Archives -> LineSeq \cup {Absent}] /\ files'[0] # Absent
    BY <1>1, <1>6, Concat, LineIsNotAbsent DEF OpenTruncate, TypeInv
  <2> QED
    BY <1>6, <2>1 DEF OpenTruncate, Goto, history, TypeInv, ControlInv
<1>7. CASE BeginWrite
  <2>1. PICK size \in Sizes : line' = [number |-> given + 1, size |-> size, era |-> 0]
    BY <1>7 DEF BeginWrite
  <2>2. line' \in Line /\ line' # Absent /\ given' \in Nat
    BY <1>7, <2>1, LineIsNotAbsent DEF Line, BeginWrite, TypeInv
  <2>3. pc' \in {"drain", "stage"}
    BY <1>7 DEF BeginWrite
  <2> QED
    BY <1>7, <2>2, <2>3 DEF BeginWrite, TypeInv, ControlInv
<1>8. CASE DrainToRotate \/ DrainBatch \/ Flush
  <2>1. PICK r \in LineSeq, k \in LineSeq : Drained(r, k)
    BY <1>8, Drains
  <2>2. files[0] # Absent
    BY <2>1 DEF Drained, ControlInv
  <2>3. files' \in [Archives -> LineSeq \cup {Absent}] /\ files'[0] # Absent
    BY <2>1, <2>2, FilesTake DEF Drained
  <2>4. disk' \in LineSeq /\ stream' \in LineSeq /\ staging' \in LineSeq
    BY <2>1, Concat DEF Drained, TypeInv
  <2>5. flushed' \in Nat
    BY <2>1 DEF Drained, TypeInv, LineSeq
  <2>6. TypeInv'
    BY <2>1, <2>3, <2>4, <2>5 DEF Drained, TypeInv
  <2>7. ControlInv'
    BY <2>1, <2>2, <2>3 DEF Drained, ControlInv
  <2> QED
    BY <2>6, <2>7
<1>9. CASE RotateClose
  <2>1. Closed
    BY <1>9, CloseIs
  <2>2. rotations' \in Nat /\ index' \in Archives /\ currentSize' \in Nat
    BY <1>1, <2>1 DEF Closed, TypeInv
  <2>3. CASE options.maxFiles = 0
    BY <1>1, <2>1, <2>2, <2>3 DEF Closed, TypeInv, ControlInv
  <2>4. CASE options.maxFiles # 0
    BY <1>1, <2>1, <2>2, <2>4 DEF Closed, TypeInv, ControlInv
  <2> QED
    BY <2>3, <2>4
<1>10. CASE RemoveDestination
  <2>1. index \in 1 .. options.maxFiles /\ index \in Archives /\ index - 1 \in Archives
    BY <1>1, <1>10 DEF RemoveDestination, ControlInv
  <2>2. CASE files[index - 1] = Absent
    <3>1. CASE index = 1
      BY <1>1, <1>10, <2>1, <2>2, <3>1
        DEF RemoveDestination, NextArchive, history, TypeInv, ControlInv
    <3>2. CASE index # 1
      BY <1>1, <1>10, <2>1, <2>2, <3>2
        DEF RemoveDestination, NextArchive, history, TypeInv, ControlInv
    <3> QED
      BY <3>1, <3>2
  <2>3. CASE files[index - 1] # Absent
    <3>1. /\ files' \in [Archives -> LineSeq \cup {Absent}]
          /\ files'[index] = Absent /\ files'[index - 1] # Absent
      BY <1>1, <1>10, <2>1, <2>3 DEF RemoveDestination, TypeInv
    <3> QED
      BY <1>1, <1>10, <2>1, <2>3, <3>1 DEF RemoveDestination, Goto, history, TypeInv, ControlInv
  <2> QED
    BY <2>2, <2>3
<1>11. CASE Rename
  <2>1. index \in 1 .. options.maxFiles /\ index \in Archives /\ index - 1 \in Archives
    BY <1>1, <1>11 DEF Rename, ControlInv
  <2>2. /\ files' \in [Archives -> LineSeq \cup {Absent}] /\ files'[index - 1] = Absent
    BY <1>1, <1>11, <2>1 DEF Rename, TypeInv
  <2>3. CASE index = 1
    BY <1>1, <1>11, <2>1, <2>2, <2>3 DEF Rename, NextArchive, history, TypeInv, ControlInv
  <2>4. CASE index # 1
    BY <1>1, <1>11, <2>1, <2>2, <2>4 DEF Rename, NextArchive, history, TypeInv, ControlInv
  <2> QED
    BY <2>3, <2>4
<1>12. CASE Stage
  <2>1. line \in Line
    BY <1>12 DEF Stage, TypeInv, ControlInv
  <2> DEFINE l == [line EXCEPT !.era = rotations]
  <2>2. l \in Line
    BY <2>1 DEF Line, TypeInv
  <2>3. staging' = Append(staging, l) /\ staged' = Append(staged, l)
    BY <1>12 DEF Stage
  <2>4. staging' \in LineSeq /\ staged' \in LineSeq
    BY <2>2, <2>3 DEF TypeInv, LineSeq
  <2>5. pc' \in {"drainFlush", "drainOnly", "idle"}
    BY <1>12 DEF Stage
  <2> QED
    BY <1>12, <2>4, <2>5 DEF Stage, TypeInv, ControlInv
<1>13. CASE Crash
  BY <1>1, <1>13, Concat DEF Crash, Down, history, TypeInv, ControlInv
<1>14. CASE Destroy
  <2>1. PICK r \in LineSeq : Destroyed(r)
    BY <1>14, DestroyIs
  <2>2. files' \in [Archives -> LineSeq \cup {Absent}] /\ disk' \in LineSeq
    BY <2>1, FilesTake, Concat DEF Destroyed, TypeInv
  <2> QED
    BY <1>1, <2>1, <2>2, Concat DEF Destroyed, Down, TypeInv, ControlInv
<1>15. CASE Restart
  <2>1. options' \in Options /\ options'.maxFiles \in Nat /\ options'.maxFiles <= MaxCount
    BY <1>15, Bounds DEF Restart, Options
  <2>2. fewest' \in Nat /\ fewest' <= options'.maxFiles
    BY <1>15, <2>1 DEF Restart, TypeInv
  <2>3. earlier' \in Nat /\ staged' \in LineSeq /\ restarts' \in Nat
    BY <1>15, Concat DEF Restart, TypeInv, LineSeq
  <2>4. stream = <<>> /\ staging = <<>>
    BY <1>15 DEF Restart, ControlInv
  <2> QED
    BY <1>15, <2>1, <2>2, <2>3, <2>4 DEF Restart, Goto, TypeInv, ControlInv
<1>16. CASE UNCHANGED vars
  BY <1>16 DEF vars, control, history, TypeInv, ControlInv
<1> QED
  BY <1>2, <1>3, <1>4, <1>5, <1>6, <1>7, <1>8, <1>9, <1>10, <1>11, <1>12, <1>13, <1>14,
     <1>15, <1>16 DEF Next

-------------------------------------------------------------------------------
(* The row of lines                                                        *)

LEMMA RowIs ==
    ASSUME TypeInv, earlier <= Len(disk)
    PROVE  /\ Row \in LineSeq /\ SubSeq(disk, 1, earlier) \in LineSeq
           /\ Len(Row) = earlier + Len(staged)
<1>1. disk \in Seq(Line) /\ staged \in LineSeq /\ earlier \in Nat /\ Len(disk) \in Nat
  BY DEF TypeInv, LineSeq
<1>2. SubSeq(disk, 1, earlier) \in LineSeq /\ Len(SubSeq(disk, 1, earlier)) = earlier
  BY <1>1 DEF LineSeq
<1> QED
  BY <1>1, <1>2, Concat DEF Row

LEMMA RowStays ==
    ASSUME TypeInv, earlier <= Len(disk), NEW r \in LineSeq,
           disk' = disk \o r, UNCHANGED <<earlier, staged>>
    PROVE  Row' = Row
<1>1. /\ disk \in Seq(Line) /\ Len(disk) \in Nat /\ earlier \in Nat
      /\ \A i \in 1 .. Len(disk) : disk[i] \in Line
  BY DEF TypeInv, LineSeq
<1>2. PICK d \in LineSeq :
         /\ d = disk \o r /\ Len(d) = Len(disk) + Len(r) /\ Len(r) \in Nat
         /\ \A i \in 1 .. Len(disk) + Len(r) :
               d[i] = IF i <= Len(disk) THEN disk[i] ELSE r[i - Len(disk)]
  BY ConcatElements DEF TypeInv
<1>3. \A i \in 1 .. earlier : d[i] = disk[i] /\ disk[i] \in Line
  BY <1>1, <1>2
<1>4. /\ SubSeq(disk, 1, earlier) \in Seq(Line) /\ Len(SubSeq(disk, 1, earlier)) = earlier
      /\ \A i \in 1 .. earlier : SubSeq(disk, 1, earlier)[i] = disk[i]
  BY <1>1
<1>5. /\ SubSeq(d, 1, earlier) \in Seq(Line) /\ Len(SubSeq(d, 1, earlier)) = earlier
      /\ \A i \in 1 .. earlier : SubSeq(d, 1, earlier)[i] = d[i]
  <2>1. d \in Seq(Line) /\ Len(d) \in Nat /\ earlier <= Len(d)
    BY <1>1, <1>2 DEF LineSeq
  <2> QED
    BY <1>1, <2>1
<1>6. SubSeq(d, 1, earlier) = SubSeq(disk, 1, earlier)
  BY <1>3, <1>4, <1>5, SeqEqual
<1> QED
  BY <1>2, <1>6 DEF Row

\* Steps that do not touch the row.
LEMMA RowQuiet ==
    ASSUME TypeInv, ControlInv, RowInv, pc \notin {"failed", "down"}, pc' # "down",
           pc' = "failed" => stream \o staging = <<>>,
           UNCHANGED <<disk, stream, staging, staged, earlier, flushed, given, line>>
    PROVE  RowInv'
<1>1. earlier <= Len(disk)
  BY DEF RowInv, TypeInv, LineSeq
<1>2. Row' = Row /\ Row \in LineSeq
  BY <1>1, RowIs DEF Row
<1>3. disk \o (stream \o staging) = Row
  BY DEF RowInv
<1>4. pc' = "failed" => IsPrefix(disk \o stream, Row)
  <2>1. SUFFICES ASSUME pc' = "failed" PROVE IsPrefix(disk \o stream, Row)
    OBVIOUS
  <2>2. disk = Row /\ stream = <<>>
    <3>1. /\ stream \in LineSeq /\ staging \in LineSeq
          /\ Len(stream) + Len(staging) = 0 /\ Len(stream) \in Nat /\ Len(staging) \in Nat
      BY <2>1, Concat, ConcatElements DEF TypeInv
    <3>2. stream = <<>>
      BY <3>1 DEF LineSeq
    <3> QED
      BY <1>3, <2>1, <3>2, Concat DEF TypeInv
  <2> QED
    BY <1>2, <2>2, Concat, PrefixProperties
<1> QED
  BY <1>2, <1>3, <1>4 DEF RowInv

LEMMA RowInit == Init => RowInv
<1> SUFFICES ASSUME Init PROVE RowInv
  OBVIOUS
<1>1. TypeInv /\ Len(<<>>) = 0 /\ <<>> \in LineSeq
  BY TypeInit, Concat
<1>2. SubSeq(<<>>, 1, 0) = <<>>
  BY SubSeqEmpty
<1>3. Row = <<>>
  BY <1>1, <1>2, Concat DEF Init, Row
<1>4. ToSet(Row) = {} /\ Rising(Row) /\ IsPrefix(disk, Row) /\ disk \o (stream \o staging) = Row
  BY <1>1, <1>3, ToSetConcat, PrefixProperties, Concat DEF Init, Rising
<1> QED
  BY <1>1, <1>4 DEF Init, RowInv

LEMMA RowNext ==
    TypeInv /\ ControlInv /\ RowInv /\ [Next]_vars => RowInv'
<1> SUFFICES ASSUME TypeInv, ControlInv, RowInv, [Next]_vars PROVE RowInv'
  OBVIOUS
<1> USE DEF Open, Rotating, Starting
<1>1. /\ disk \in LineSeq /\ stream \in LineSeq /\ staging \in LineSeq /\ staged \in LineSeq
      /\ earlier \in Nat /\ flushed \in Nat /\ given \in Nat
      /\ Len(disk) \in Nat /\ earlier <= Len(disk) /\ earlier + flushed <= Len(disk)
  BY DEF TypeInv, RowInv, LineSeq
<1>2. Row \in LineSeq /\ Len(Row) = earlier + Len(staged) /\ SubSeq(disk, 1, earlier) \in LineSeq
  BY <1>1, RowIs
<1>3. CASE FileSystemFails
  <2>1. stream \o staging = <<>>
    BY <1>3, Concat DEF FileSystemFails, ControlInv
  <2> QED
    BY <1>3, <2>1, RowQuiet DEF FileSystemFails, Goto, history
<1>4. CASE Start
  BY <1>4, RowQuiet DEF Start, history, ControlInv
<1>5. CASE ResetRemove
  BY <1>5, RowQuiet DEF ResetRemove, Goto
<1>6. CASE OpenAppend
  BY <1>6, RowQuiet DEF OpenAppend, Goto, history
<1>7. CASE OpenTruncate
  BY <1>7, RowQuiet DEF OpenTruncate, Goto, history
<1>8. CASE BeginWrite
  <2>1. /\ line = Absent /\ pc = "idle" /\ pc' \in {"drain", "stage"} /\ given' = given + 1
        /\ UNCHANGED <<disk, stream, staging, staged, earlier, flushed>>
    BY <1>8 DEF BeginWrite, ControlInv
  <2>2. line'.number = given'
    BY <1>8, <2>1 DEF BeginWrite
  <2>3. Row' = Row
    BY <2>1 DEF Row
  <2>4. \A l \in ToSet(Row) : l.number \in Nat /\ l.number <= given
    BY <1>2, ToSetIs DEF RowInv, Line
  <2>5. \A l \in ToSet(Row') : l.number <= given' /\ (line' # Absent => l.number < given')
    BY <1>1, <2>1, <2>3, <2>4
  <2> QED
    BY <2>1, <2>2, <2>3, <2>5 DEF RowInv
<1>9. CASE DrainToRotate \/ DrainBatch \/ Flush
  <2>1. PICK r \in LineSeq, k \in LineSeq : Drained(r, k)
    BY <1>9, Drains
  <2>2. Row' = Row
    BY <1>1, <2>1, RowStays DEF Drained
  <2>3. disk' \in LineSeq /\ disk' \o k = Row
    <3>1. (disk \o r) \o k = disk \o (r \o k)
      <4>1. Associate(disk, r, k)
        BY <1>1, Associativity
      <4> QED
        BY <4>1 DEF Associate
    <3>2. disk \o (stream \o staging) = Row
      <4>1. pc \notin {"failed", "down"}
        BY <2>1 DEF Drained
      <4> QED
        BY <4>1 DEF RowInv
    <3> QED
      BY <1>1, <2>1, <3>1, <3>2, Concat DEF Drained
  <2>4. IsPrefix(disk', Row) /\ IsPrefix(disk' \o k, Row)
    BY <1>2, <2>3, PrefixProperties
  <2>5. earlier + flushed' <= Len(disk')
    <3>1. Len(disk') = Len(disk) + Len(r) /\ Len(r) \in Nat
      BY <1>1, <2>1, Concat DEF Drained, LineSeq
    <3>2. CASE flushed' = flushed
      BY <1>1, <3>1, <3>2
    <3>3. CASE k = <<>> /\ flushed' = Len(staged)
      <4>1. disk' = Row
        BY <2>3, <3>3, Concat
      <4>2. Len(staged) \in Nat
        BY <1>1 DEF LineSeq
      <4> QED
        BY <1>1, <1>2, <3>3, <4>1, <4>2
    <3> QED
      BY <2>1, <3>2, <3>3 DEF Drained
  <2>6. pc' \notin {"failed", "down"} => disk' \o (stream' \o staging') = Row
    <3>1. pc' # "failed" => staging' = <<>>
      BY <2>1 DEF Drained
    <3>2. stream' = k /\ k \o <<>> = k
      BY <2>1, Concat DEF Drained
    <3> QED
      BY <2>3, <3>1, <3>2
  <2>7. stream' = k /\ UNCHANGED <<line, given, earlier, staged>>
    BY <2>1 DEF Drained
  <2> QED
    BY <2>2, <2>4, <2>5, <2>6, <2>7 DEF RowInv
<1>10. CASE RotateClose
  <2>1. Closed
    BY <1>10, CloseIs
  <2> QED
    BY <2>1, RowQuiet DEF Closed
<1>11. CASE RemoveDestination
  BY <1>11, RowQuiet DEF RemoveDestination, NextArchive, Goto, history
<1>12. CASE Rename
  BY <1>12, RowQuiet DEF Rename, NextArchive, history
<1>13. CASE Stage
  <2> DEFINE l == [line EXCEPT !.era = rotations]
  <2>1. line \in Line /\ line # Absent /\ line.number = given
    BY <1>13 DEF Stage, TypeInv, ControlInv, RowInv
  <2>2. l \in Line /\ l.number = given
    BY <2>1 DEF Line, TypeInv
  <2>3. /\ staging' = Append(staging, l) /\ staged' = Append(staged, l)
        /\ pc' \notin {"failed", "down"} /\ line' = Absent
        /\ UNCHANGED <<disk, stream, earlier, flushed, given>>
    BY <1>13 DEF Stage
  <2> HIDE DEF l
  <2>4. <<l>> \in LineSeq /\ staging' = staging \o <<l>> /\ staged' = staged \o <<l>>
    BY <1>1, <2>2, <2>3 DEF LineSeq
  <2>5. Row' = Row \o <<l>>
    <3>1. \A x \in LineSeq : (x \o staged) \o <<l>> = x \o (staged \o <<l>>)
      <4>1. \A x \in LineSeq : Associate(x, staged, <<l>>)
        BY <1>1, <2>4, Associativity
      <4> QED
        BY <4>1 DEF Associate
    <3>2. Row' = SubSeq(disk, 1, earlier) \o (staged \o <<l>>)
      BY <2>3, <2>4 DEF Row
    <3> QED
      BY <1>2, <3>1, <3>2 DEF Row
  <2>6. disk \o (stream \o staging) = Row
    BY <1>13 DEF Stage, RowInv
  <2>7. disk' \o (stream' \o staging') = Row'
    <3>1. stream \o (staging \o <<l>>) = (stream \o staging) \o <<l>>
      <4>1. Associate(stream, staging, <<l>>)
        BY <1>1, <2>4, Associativity
      <4> QED
        BY <4>1 DEF Associate
    <3>2. disk \o ((stream \o staging) \o <<l>>) = (disk \o (stream \o staging)) \o <<l>>
      <4>1. stream \o staging \in LineSeq
        BY <1>1, Concat
      <4>2. Associate(disk, stream \o staging, <<l>>)
        BY <1>1, <2>4, <4>1, Associativity
      <4> QED
        BY <4>2 DEF Associate
    <3> QED
      BY <2>3, <2>4, <2>5, <2>6, <3>1, <3>2
  <2>8. ToSet(<<l>>) = {l} /\ Rising(<<l>>)
    <3>1. Len(<<l>>) = 1 /\ <<l>>[1] = l
      OBVIOUS
    <3> QED
      BY <2>4, <3>1, ToSetIs DEF Rising
  <2>9. \A m \in ToSet(Row) : m.number \in Nat /\ m.number < given
    BY <1>2, <2>1, ToSetIs DEF RowInv, Line
  <2>10. Rising(Row')
    BY <1>2, <2>2, <2>4, <2>5, <2>8, <2>9, RisingConcat DEF RowInv
  <2>11. \A m \in ToSet(Row') : m.number <= given
    BY <1>1, <1>2, <2>2, <2>4, <2>5, <2>8, <2>9, ToSetConcat
  <2>12. IsPrefix(disk, Row')
    <3>1. IsPrefix(disk, Row) /\ IsPrefix(Row, Row')
      BY <1>2, <2>4, <2>5, PrefixProperties DEF RowInv
    <3>2. Row' \in LineSeq
      BY <1>2, <2>4, <2>5, Concat
    <3> QED
      BY <1>1, <1>2, <3>1, <3>2, PrefixProperties
  <2> QED
    BY <1>1, <2>3, <2>7, <2>10, <2>11, <2>12 DEF RowInv
<1>14. CASE Crash
  <2>1. /\ pc' = "down" /\ line' = Absent
        /\ UNCHANGED <<disk, staged, earlier, flushed, given>>
    BY <1>14 DEF Crash, Down, history
  <2>2. Row' = Row
    BY <2>1 DEF Row
  <2> QED
    BY <2>1, <2>2 DEF RowInv
<1>15. CASE Destroy
  <2>1. PICK r \in LineSeq : Destroyed(r)
    BY <1>15, DestroyIs
  <2>2. PICK k \in LineSeq : r \o k = stream
    BY <2>1 DEF Destroyed
  <2>3. /\ pc' = "down" /\ line' = Absent /\ disk' = disk \o r
        /\ UNCHANGED <<staged, earlier, flushed, given>>
    BY <2>1 DEF Destroyed, Down
  <2>4. Row' = Row
    BY <1>1, <2>3, RowStays
  <2>5. IsPrefix(disk \o stream, Row)
    <3>1. CASE pc = "failed"
      BY <3>1 DEF RowInv
    <3>2. CASE pc = "idle"
      <4>1. (disk \o stream) \o staging = Row
        BY <1>1, <3>2, Concat DEF RowInv
      <4> QED
        BY <1>1, <4>1, Concat, PrefixProperties
    <3> QED
      BY <2>1, <3>1, <3>2 DEF Destroyed
  <2>6. IsPrefix(disk', disk \o stream)
    <3>1. (disk \o r) \o k = disk \o stream
      <4>1. Associate(disk, r, k)
        BY <1>1, Associativity
      <4> QED
        BY <2>2, <4>1 DEF Associate
    <3> QED
      BY <1>1, <2>3, <3>1, Concat, PrefixProperties
  <2>7. IsPrefix(disk', Row)
    <3>1. disk' \in LineSeq /\ disk \o stream \in LineSeq
      BY <1>1, <2>3, Concat
    <3> QED
      BY <1>2, <2>5, <2>6, <3>1, PrefixProperties
  <2>8. earlier + flushed <= Len(disk')
    <3>1. Len(disk') = Len(disk) + Len(r) /\ Len(r) \in Nat
      BY <1>1, <2>3, Concat DEF LineSeq
    <3> QED
      BY <1>1, <3>1
  <2> QED
    BY <2>3, <2>4, <2>7, <2>8 DEF RowInv
<1>16. CASE Restart
  <2>1. /\ staged' = <<>> /\ flushed' = 0 /\ earlier' = Len(disk) /\ pc' = "start"
        /\ UNCHANGED <<disk, stream, staging, given, line>>
        /\ stream = <<>> /\ staging = <<>> /\ line = Absent
    BY <1>16 DEF Restart, Goto, ControlInv
  <2>2. Row' = disk
    <3>1. SubSeq(disk, 1, Len(disk)) = disk
      BY <1>1, SubSeqFull DEF LineSeq
    <3> QED
      BY <1>1, <2>1, <3>1, Concat DEF Row
  <2>3. PICK z \in LineSeq : Row = disk \o z
    BY <1>1, <1>2, PrefixRest DEF RowInv
  <2>4. Rising(disk) /\ ToSet(disk) \subseteq ToSet(Row)
    BY <1>1, <2>3, RisingConcat, ToSetConcat DEF RowInv
  <2>5. disk' \o (stream' \o staging') = disk /\ IsPrefix(disk, disk)
    BY <1>1, <2>1, Concat, PrefixProperties
  <2> QED
    BY <1>1, <2>1, <2>2, <2>4, <2>5 DEF RowInv
<1>17. CASE UNCHANGED vars
  <2>1. /\ UNCHANGED <<disk, stream, staging, staged, earlier, flushed, given, line, pc>>
    BY <1>17 DEF vars, control, history
  <2>2. Row' = Row
    BY <2>1 DEF Row
  <2> QED
    BY <2>1, <2>2 DEF RowInv
<1> QED
  BY <1>3, <1>4, <1>5, <1>6, <1>7, <1>8, <1>9, <1>10, <1>11, <1>12, <1>13, <1>14,
     <1>15, <1>16, <1>17 DEF Next

-------------------------------------------------------------------------------
(* What the steps do to the files                                          *)

FilesKept  == \A j \in Archives : Contents(j)' = Contents(j)
Emptied(i) == \A j \in Archives : Contents(j)' = IF j = i THEN <<>> ELSE Contents(j)
Takes(r)   == \A j \in Archives : Contents(j)' = IF j = 0 THEN Contents(0) \o r ELSE Contents(j)

\* The archive below moves up to a place that is free.
Moved == /\ Contents(index) = <<>>
         /\ \A j \in Archives : Contents(j)' = IF j = index THEN Contents(index - 1)
                                               ELSE IF j = index - 1 THEN <<>> ELSE Contents(j)

LEMMA StepsThatKeep ==
    ASSUME TypeInv, ControlInv,
           \/ FileSystemFails \/ Start \/ OpenAppend \/ BeginWrite \/ RotateClose
           \/ Stage \/ Crash \/ Restart \/ UNCHANGED vars
    PROVE  FilesKept
<1>1. CASE OpenAppend
  <2>1. files' = [files EXCEPT ![0] = Contents(0)] /\ files \in [Archives -> LineSeq \cup {Absent}]
    BY <1>1 DEF OpenAppend, TypeInv
  <2>2. Contents(0) \in LineSeq /\ Contents(0) # Absent /\ 0 \in Archives
    BY Bounds, ContentsIs, LineIsNotAbsent
  <2>3. files'[0] = Contents(0) /\ \A j \in Archives \ {0} : files'[j] = files[j]
    BY <2>1, <2>2
  <2>4. Contents(0)' = Contents(0)
    BY <2>2, <2>3 DEF Contents
  <2>5. \A j \in Archives \ {0} : Contents(j)' = Contents(j)
    BY <2>3 DEF Contents
  <2> QED
    BY <2>4, <2>5 DEF FilesKept
<1>2. CASE RotateClose
  <2>1. files' = files
    BY <1>2, CloseIs DEF Closed
  <2> QED
    BY <2>1 DEF FilesKept, Contents
<1>3. CASE FileSystemFails \/ Start \/ BeginWrite \/ Stage \/ Crash \/ Restart \/ UNCHANGED vars
  <2>1. files' = files
    BY <1>3 DEF FileSystemFails, Start, BeginWrite, Stage, Crash, Restart, vars
  <2> QED
    BY <2>1 DEF FilesKept, Contents
<1> QED
  BY <1>1, <1>2, <1>3

LEMMA FileEmptied ==
    ASSUME TypeInv, NEW i \in Archives, NEW v \in {<<>>, Absent}, files' = [files EXCEPT ![i] = v]
    PROVE  Emptied(i)
<1>1. files \in [Archives -> LineSeq \cup {Absent}]
  BY DEF TypeInv
<1>2. files'[i] = v /\ \A j \in Archives \ {i} : files'[j] = files[j]
  BY <1>1
<1> QED
  BY <1>2 DEF Emptied, Contents

LEMMA StepsThatEmpty ==
    ASSUME TypeInv, ControlInv
    PROVE  /\ ResetRemove => Emptied(index)
           /\ OpenTruncate => Emptied(0)
           /\ RemoveDestination => \/ FilesKept /\ Contents(index - 1) = <<>>
                                   \/ Emptied(index) /\ pc' = "rename"
<1>1. index \in Archives /\ 0 \in Archives
  BY Bounds DEF TypeInv
<1>2. ASSUME ResetRemove PROVE Emptied(index)
  BY <1>1, <1>2, FileEmptied DEF ResetRemove
<1>3. ASSUME OpenTruncate PROVE Emptied(0)
  BY <1>1, <1>3, FileEmptied DEF OpenTruncate
<1>4. ASSUME RemoveDestination
      PROVE  \/ FilesKept /\ Contents(index - 1) = <<>>
             \/ Emptied(index) /\ pc' = "rename"
  <2>1. CASE files[index - 1] = Absent
    BY <1>4, <2>1 DEF RemoveDestination, FilesKept, Contents
  <2>2. CASE files[index - 1] # Absent
    BY <1>1, <1>4, <2>2, FileEmptied DEF RemoveDestination, Goto
  <2> QED
    BY <2>1, <2>2
<1> QED
  BY <1>2, <1>3, <1>4

LEMMA RenameMoves ==
    ASSUME TypeInv, ControlInv, Rename
    PROVE  /\ Moved /\ index \in 1 .. options.maxFiles
           /\ index - 1 \in Archives /\ index \in Archives
<1>1. /\ index \in 1 .. options.maxFiles /\ options.maxFiles \in Nat /\ options.maxFiles <= MaxCount
      /\ files[index] = Absent
  BY Bounds DEF Rename, ControlInv, TypeInv, Options, Rotating
<1>2. index \in Archives /\ index - 1 \in Archives /\ index # index - 1
  BY <1>1, Bounds
<1>3. /\ files \in [Archives -> LineSeq \cup {Absent}]
      /\ files' = [files EXCEPT ![index] = files[index - 1], ![index - 1] = Absent]
  BY DEF Rename, TypeInv
<1>4. /\ files'[index] = files[index - 1] /\ files'[index - 1] = Absent
      /\ \A j \in Archives \ {index, index - 1} : files'[j] = files[j]
  BY <1>2, <1>3
<1>5. Contents(index) = <<>>
  BY <1>1 DEF Contents
<1>6. \A j \in Archives : Contents(j)' = IF j = index THEN Contents(index - 1)
                                               ELSE IF j = index - 1 THEN <<>> ELSE Contents(j)
  <2> TAKE j \in Archives
  <2>1. CASE j = index
    <3>1. files'[j] = files[index - 1]
      BY <1>4, <2>1
    <3> QED
      BY <2>1, <3>1 DEF Contents
  <2>2. CASE j # index
    BY <1>2, <1>4, <2>2 DEF Contents
  <2> QED
    BY <2>1, <2>2
<1> QED
  BY <1>1, <1>2, <1>5, <1>6 DEF Moved

LEMMA StepsThatTake ==
    ASSUME TypeInv, ControlInv
    PROVE  /\ \A r, k \in LineSeq : Drained(r, k) => Takes(r)
           /\ \A r \in LineSeq : Destroyed(r) => Takes(r)
<1>1. ASSUME NEW r \in LineSeq, NEW k \in LineSeq, Drained(r, k) PROVE Takes(r)
  <2>1. files[0] # Absent
    BY <1>1 DEF Drained, ControlInv, Open
  <2> QED
    BY <1>1, <2>1, FilesTake DEF Drained, Takes
<1>2. ASSUME NEW r \in LineSeq, Destroyed(r) PROVE Takes(r)
  BY <1>2, FilesTake DEF Destroyed, Takes
<1> QED
  BY <1>1, <1>2

-------------------------------------------------------------------------------
(* File sizes                                                              *)

LEMMA LimitIs ==
    /\ Limit \in Nat \ {0}
    /\ \A m \in MaxFileSizes : NormalizeSize(m) \in Nat \ {0} /\ NormalizeSize(m) <= Limit
BY Bounds DEF Limit, NormalizeSize

LEMMA FitsIs ==
    /\ Fits(<<>>)
    /\ \A x, y \in LineSeq : Fits(x \o y) => Fits(x)
<1>1. Fits(<<>>)
  BY SizeOfEmpty, LimitIs DEF Fits
<1>2. ASSUME NEW x \in LineSeq, NEW y \in LineSeq, Fits(x \o y) PROVE Fits(x)
  <2>1. /\ SizeOf(x \o y) = SizeOf(x) + SizeOf(y) /\ SizeOf(x) \in Nat /\ SizeOf(y) \in Nat
    BY SizeOfConcatenation, SizeOfType
  <2>2. Len(x \o y) = Len(x) + Len(y) /\ Len(x) \in Nat /\ Len(y) \in Nat
    BY Concat DEF LineSeq
  <2> QED
    BY <1>2, <2>1, <2>2, LimitIs DEF Fits
<1> QED
  BY <1>1, <1>2

\* Steps with nothing in the stream and the staging buffer, before and after.
LEMMA SizeQuiet ==
    ASSUME TypeInv, SizeInv, stream = <<>>, staging = <<>>, stream' = <<>>,
           staging' = <<>> \/ pc' \in {"failed", "down"},
           \A i \in Archives : Fits(Contents(i)'), Contents(0)' \in LineSeq,
           pc' \in Open \cup {"openApp"} => currentSize' = SizeOf(Contents(0)'),
           pc' = "openTrunc" => currentSize' = 0,
           pc' = "stage" => Contents(0)' = <<>>
    PROVE  SizeInv'
<1>1. Contents(0)' \o <<>> = Contents(0)' /\ Contents(0)' \o (<<>> \o <<>>) = Contents(0)'
  BY Concat
<1>2. Fits(Contents(0)')
  BY Bounds
<1>3. staging' = <<>> => Filling' = Contents(0)'
  BY <1>1 DEF Filling
<1>4. SizeOf(stream') = 0
  BY SizeOfEmpty
<1>5. pc' \in Open \cup {"openApp"} => currentSize' = SizeOf(Contents(0)') + SizeOf(stream')
  <2>1. SizeOf(Contents(0)') \in Nat
    BY SizeOfType
  <2> QED
    BY <1>4, <2>1
<1>6. pc' \notin {"failed", "down"} => Fits(Filling)'
  BY <1>2, <1>3 DEF Fits
<1>7. pc' = "failed" => Fits(Contents(0)' \o stream')
  BY <1>1, <1>2
<1>8. pc' = "stage" => Filling' = <<>>
  BY <1>3
<1> QED
  BY <1>5, <1>6, <1>7, <1>8 DEF SizeInv, Fits

LEMMA SizeInit == Init => SizeInv
<1> SUFFICES ASSUME Init PROVE SizeInv
  OBVIOUS
<1>1. Contents(0) = <<>> /\ \A i \in Archives : Contents(i) = <<>>
  BY Bounds DEF Init, Contents
<1>2. Filling = <<>>
  BY <1>1, Concat DEF Init, Filling
<1> QED
  BY <1>1, <1>2, FitsIs DEF Init, SizeInv, Open

\* What is on its way to the log file, in two groupings.
LEMMA FillingIs ==
    ASSUME TypeInv
    PROVE  /\ Contents(0) \in LineSeq /\ stream \in LineSeq /\ staging \in LineSeq
           /\ Filling \in LineSeq
           /\ Filling = (Contents(0) \o stream) \o staging
           /\ SizeOf(Filling) = SizeOf(Contents(0)) + SizeOf(stream) + SizeOf(staging)
           /\ SizeOf(Contents(0)) \in Nat /\ SizeOf(stream) \in Nat /\ SizeOf(staging) \in Nat
<1>1. Contents(0) \in LineSeq /\ stream \in LineSeq /\ staging \in LineSeq
  BY Bounds, ContentsIs DEF TypeInv
<1>2. SizeOf(Contents(0)) \in Nat /\ SizeOf(stream) \in Nat /\ SizeOf(staging) \in Nat
  BY <1>1, SizeOfType
<1>3. Contents(0) \o stream \in LineSeq /\ Filling \in LineSeq
      /\ Filling = (Contents(0) \o stream) \o staging
  BY <1>1, Concat DEF Filling
<1>4. /\ SizeOf((Contents(0) \o stream) \o staging)
            = SizeOf(Contents(0) \o stream) + SizeOf(staging)
      /\ SizeOf(Contents(0) \o stream) = SizeOf(Contents(0)) + SizeOf(stream)
  BY <1>1, <1>3, SizeOfConcatenation
<1> QED
  BY <1>1, <1>2, <1>3, <1>4

LEMMA DrainedSize ==
    ASSUME TypeInv, ControlInv, SizeInv, NEW r \in LineSeq, NEW k \in LineSeq, Drained(r, k)
    PROVE  SizeInv'
<1>1. /\ pc \in Open /\ pc \notin {"failed", "down"}
      /\ stream' = k /\ r \o k = stream \o staging
  BY DEF Drained, Open
<1>2. Contents(0)' = Contents(0) \o r /\ \A j \in Archives \ {0} : Contents(j)' = Contents(j)
  BY Bounds, StepsThatTake DEF Takes
<1>3. Contents(0) \in LineSeq /\ Contents(0) \o r \in LineSeq /\ k \o <<>> = k
  BY FillingIs, Concat
<1>4. (Contents(0) \o r) \o k = Filling
  <2>1. (Contents(0) \o r) \o k = Contents(0) \o (r \o k)
    BY <1>3, Concat
  <2> QED
    BY <1>1, <2>1 DEF Filling
<1>5. Fits(Filling) /\ Fits(Contents(0) \o r)
  BY <1>1, <1>3, <1>4, FitsIs DEF SizeInv
<1>6. \A i \in Archives : Fits(Contents(i)')
  BY <1>2, <1>5 DEF SizeInv
<1>7. CASE pc' = "failed"
  <2>1. Fits(Contents(0)' \o stream')
    BY <1>1, <1>2, <1>4, <1>5
  <2> QED
    BY <1>6, <1>7, <2>1 DEF SizeInv, Open, Fits, Limit
<1>8. CASE pc' # "failed"
  <2>1. /\ pc' \in {"close", "idle"} /\ staging' = <<>>
        /\ currentSize' = currentSize + SizeOf(staging)
    BY <1>8 DEF Drained
  <2>2. Filling' = Filling
    BY <1>1, <1>2, <1>3, <1>4, <2>1 DEF Filling
  <2>3. currentSize' = SizeOf(Contents(0)') + SizeOf(stream')
    <3>1. currentSize = SizeOf(Contents(0)) + SizeOf(stream)
      BY <1>1 DEF SizeInv
    <3>2. SizeOf(Filling) = SizeOf(Contents(0) \o r) + SizeOf(k)
      BY <1>3, <1>4, SizeOfConcatenation
    <3> QED
      BY <1>1, <1>2, <2>1, <3>1, <3>2, FillingIs
  <2> QED
    BY <1>5, <1>6, <2>1, <2>2, <2>3 DEF SizeInv, Open, Fits, Limit
<1> QED
  BY <1>7, <1>8

LEMMA SizeNext ==
    TypeInv /\ TypeInv' /\ ControlInv /\ ControlInv' /\ SizeInv /\ [Next]_vars => SizeInv'
<1> SUFFICES ASSUME TypeInv, TypeInv', ControlInv, ControlInv', SizeInv, [Next]_vars
             PROVE  SizeInv'
  OBVIOUS
<1>1. /\ Contents(0) \in LineSeq /\ stream \in LineSeq /\ staging \in LineSeq
      /\ Filling \in LineSeq /\ 0 \in Archives /\ index \in Archives
      /\ \A i \in Archives : Fits(Contents(i)) /\ Contents(i) \in LineSeq
      /\ <<>> \in LineSeq /\ Fits(<<>>)
  BY FillingIs, Bounds, ContentsIs, Concat, FitsIs DEF SizeInv, TypeInv
<1>2. CASE FileSystemFails
  <2>1. /\ stream = <<>> /\ staging = <<>> /\ UNCHANGED <<stream, staging>>
        /\ pc' = "failed" /\ FilesKept
    BY <1>2, StepsThatKeep DEF FileSystemFails, Goto, ControlInv, Open
  <2> QED
    BY <1>1, <2>1, SizeQuiet DEF FilesKept, Open
<1>3. CASE Start
  <2>1. /\ stream = <<>> /\ staging = <<>> /\ UNCHANGED <<stream, staging>> /\ FilesKept
        /\ \/ pc' = "reset"
           \/ pc' = "openApp" /\ currentSize' = SizeOf(Contents(0))
    BY <1>3, StepsThatKeep DEF Start, ControlInv, Open, Starting
  <2> QED
    BY <1>1, <2>1, SizeQuiet DEF FilesKept, Open
<1>4. CASE ResetRemove
  <2>1. /\ stream = <<>> /\ staging = <<>> /\ UNCHANGED <<stream, staging>> /\ Emptied(index)
        /\ pc' \in {"reset", "openTrunc"} /\ (pc' = "openTrunc" => currentSize' = 0)
    BY <1>4, StepsThatEmpty DEF ResetRemove, Goto, ControlInv, Open, Starting
  <2>2. \A i \in Archives : Contents(i)' = Contents(i) \/ Contents(i)' = <<>>
    BY <2>1 DEF Emptied
  <2>3. \A i \in Archives : Fits(Contents(i)') /\ Contents(i)' \in LineSeq
    BY <1>1, <2>2
  <2> QED
    BY <1>1, <2>1, <2>3, SizeQuiet DEF Open
<1>5. CASE OpenAppend
  <2>1. /\ stream = <<>> /\ staging = <<>> /\ UNCHANGED <<stream, staging, currentSize>>
        /\ FilesKept /\ pc = "openApp" /\ pc' = "idle"
    BY <1>5, StepsThatKeep DEF OpenAppend, Goto, ControlInv, Open, Starting
  <2>2. currentSize' = SizeOf(Contents(0))
    <3>1. currentSize = SizeOf(Contents(0)) + SizeOf(stream)
      BY <2>1 DEF SizeInv
    <3> QED
      BY <2>1, <3>1, SizeOfEmpty, FillingIs
  <2> QED
    BY <1>1, <2>1, <2>2, SizeQuiet DEF FilesKept, Open
<1>6. CASE OpenTruncate
  <2>1. /\ stream = <<>> /\ staging = <<>> /\ UNCHANGED <<stream, staging, currentSize>>
        /\ Emptied(0) /\ pc = "openTrunc" /\ pc' \in {"idle", "stage"}
    BY <1>6, StepsThatEmpty DEF OpenTruncate, Goto, ControlInv, Open
  <2>2. /\ currentSize' = 0 /\ Contents(0)' = <<>>
    BY <1>1, <2>1 DEF SizeInv, Emptied
  <2>3. \A i \in Archives : Contents(i)' = Contents(i) \/ Contents(i)' = <<>>
    BY <2>1 DEF Emptied
  <2>4. \A i \in Archives : Fits(Contents(i)') /\ Contents(i)' \in LineSeq
    BY <1>1, <2>3
  <2> QED
    BY <1>1, <2>1, <2>2, <2>4, SizeOfEmpty, SizeQuiet DEF Open
<1>7. CASE BeginWrite
  <2>1. PICK size \in Sizes :
           /\ line' = [number |-> given + 1, size |-> size, era |-> 0]
           /\ pc' = IF MustRotate(size) THEN "drain" ELSE "stage"
    BY <1>7 DEF BeginWrite
  <2>2. /\ pc = "idle" /\ FilesKept /\ UNCHANGED <<options, stream, staging, currentSize>>
    BY <1>7, StepsThatKeep DEF BeginWrite
  <2>3. Filling' = Filling /\ Contents(0)' = Contents(0)
    BY <1>1, <2>2 DEF FilesKept, Filling
  <2>4. /\ currentSize = SizeOf(Contents(0)) + SizeOf(stream) /\ Fits(Filling)
    BY <2>2 DEF SizeInv, Open
  <2>5. pc' = "stage" => SizeOf(Filling) + line'.size <= Limit \/ Filling = <<>>
    <3>1. SUFFICES ASSUME ~ MustRotate(size)
                   PROVE  SizeOf(Filling) + line'.size <= Limit \/ Filling = <<>>
      BY <2>1
    <3>2. line'.size = size /\ size \in Nat
      BY <2>1, RotatingAssumption
    <3>3. SizeOf(Filling) = currentSize + SizeOf(staging) /\ SizeOf(Filling) \in Nat
      BY <2>4, FillingIs
    <3>4. NormalizeSize(options.maxFileSize) \in Nat /\ NormalizeSize(options.maxFileSize) <= Limit
      BY LimitIs DEF TypeInv, Options
    <3>5. \/ SizeOf(Filling) + size <= NormalizeSize(options.maxFileSize)
          \/ SizeOf(Filling) = 0
      BY <3>1, <3>2, <3>3, <3>4 DEF MustRotate
    <3>6. SizeOf(Filling) = 0 => Filling = <<>>
      BY <1>1, SizeOfType
    <3> QED
      BY <3>2, <3>3, <3>4, <3>5, <3>6, LimitIs
  <2>6. pc' \in {"drain", "stage"}
    BY <2>1
  <2> QED
    BY <1>1, <2>2, <2>3, <2>4, <2>5, <2>6 DEF SizeInv, Open, FilesKept, Fits, Limit
<1>8. CASE DrainToRotate \/ DrainBatch \/ Flush
  BY <1>8, Drains, DrainedSize
<1>9. CASE RotateClose
  <2>1. /\ stream = <<>> /\ staging = <<>> /\ UNCHANGED <<stream, staging>> /\ FilesKept
        /\ pc' \in {"openTrunc", "remove"} /\ (pc' = "openTrunc" => currentSize' = 0)
    BY <1>9, CloseIs, StepsThatKeep DEF Closed, ControlInv, Open
  <2> QED
    BY <1>1, <2>1, SizeQuiet DEF FilesKept, Open
<1>10. CASE RemoveDestination
  <2>1. /\ stream = <<>> /\ staging = <<>> /\ UNCHANGED <<stream, staging>>
        /\ FilesKept \/ Emptied(index)
        /\ pc' \in {"openTrunc", "remove", "rename"} /\ (pc' = "openTrunc" => currentSize' = 0)
    <3>1. stream = <<>> /\ staging = <<>>
      BY <1>10 DEF RemoveDestination, ControlInv, Open
    <3>2. FilesKept \/ Emptied(index)
      BY <1>10, StepsThatEmpty
    <3> QED
      BY <1>10, <3>1, <3>2 DEF RemoveDestination, NextArchive, Goto
  <2>2. \A i \in Archives : Contents(i)' = Contents(i) \/ Contents(i)' = <<>>
    BY <2>1 DEF Emptied, FilesKept
  <2>3. \A i \in Archives : Fits(Contents(i)') /\ Contents(i)' \in LineSeq
    BY <1>1, <2>2
  <2> QED
    BY <1>1, <2>1, <2>3, SizeQuiet DEF Open
<1>11. CASE Rename
  <2>1. /\ stream = <<>> /\ staging = <<>> /\ UNCHANGED <<stream, staging>>
        /\ pc' \in {"openTrunc", "remove"} /\ (pc' = "openTrunc" => currentSize' = 0)
    BY <1>11 DEF Rename, NextArchive, ControlInv, Open
  <2>2. Moved /\ index - 1 \in Archives
    BY <1>11, RenameMoves
  <2>3. \A i \in Archives : \/ Contents(i)' = Contents(i)
                             \/ Contents(i)' = Contents(index - 1)
                             \/ Contents(i)' = <<>>
    BY <2>2 DEF Moved
  <2>4. \A i \in Archives : Fits(Contents(i)') /\ Contents(i)' \in LineSeq
    BY <1>1, <2>2, <2>3
  <2> QED
    BY <1>1, <2>1, <2>4, SizeQuiet DEF Open
<1>12. CASE Stage
  <2> DEFINE l == [line EXCEPT !.era = rotations]
  <2>1. /\ pc = "stage" /\ line \in Line /\ staging' = Append(staging, l) /\ FilesKept
        /\ pc' \in {"idle", "drainFlush", "drainOnly"} /\ UNCHANGED <<stream, currentSize>>
    BY <1>12, StepsThatKeep DEF Stage, TypeInv, ControlInv
  <2>2. l \in Line /\ l.size = line.size
    BY <2>1 DEF Line, TypeInv
  <2> HIDE DEF l
  <2>3. /\ <<l>> \in LineSeq /\ SizeOf(<<l>>) = l.size /\ Len(<<l>>) = 1
        /\ staging' = staging \o <<l>>
    <3>1. <<l>> \in LineSeq /\ SizeOf(<<l>>) = l.size
      BY <2>2, SizeOfOne
    <3>2. Len(<<l>>) = 1
      OBVIOUS
    <3>3. staging' = staging \o <<l>>
      <4>1. staging' = Append(staging, l) /\ staging \in Seq(Line) /\ l \in Line
        BY <1>1, <2>1, <2>2 DEF LineSeq
      <4> QED
        BY <4>1
    <3> QED
      BY <3>1, <3>2, <3>3
  <2>4. Filling' = Filling \o <<l>>
    <3>1. Contents(0)' = Contents(0) /\ stream' = stream
      BY <1>1, <2>1 DEF FilesKept
    <3>2. Filling' = Contents(0) \o (stream \o (staging \o <<l>>))
      BY <2>3, <3>1 DEF Filling
    <3>3. stream \o staging \in LineSeq
      BY <1>1, Concat
    <3>4. stream \o (staging \o <<l>>) = (stream \o staging) \o <<l>>
      <4>1. Associate(stream, staging, <<l>>)
        BY <1>1, <2>3, Associativity
      <4> QED
        BY <4>1 DEF Associate
    <3>5. Contents(0) \o ((stream \o staging) \o <<l>>)
            = (Contents(0) \o (stream \o staging)) \o <<l>>
      <4>1. Associate(Contents(0), stream \o staging, <<l>>)
        BY <1>1, <2>3, <3>3, Associativity
      <4> QED
        BY <4>1 DEF Associate
    <3> QED
      BY <3>2, <3>4, <3>5 DEF Filling
  <2>5. Fits(Filling')
    <3>1. CASE SizeOf(Filling) + line.size <= Limit
      <4>1. SizeOf(Filling \o <<l>>) = SizeOf(Filling) + line.size
        BY <1>1, <2>2, <2>3, SizeOfConcatenation
      <4> QED
        BY <2>4, <3>1, <4>1 DEF Fits
    <3>2. CASE Filling = <<>>
      <4>1. Filling' = <<l>>
        BY <2>3, <2>4, <3>2, Concat
      <4> QED
        BY <2>3, <4>1 DEF Fits
    <3> QED
      BY <2>1, <3>1, <3>2 DEF SizeInv
  <2>6. currentSize' = SizeOf(Contents(0)') + SizeOf(stream')
    BY <1>1, <2>1 DEF FilesKept, SizeInv, Open
  <2> QED
    BY <1>1, <2>1, <2>5, <2>6 DEF SizeInv, Open, FilesKept, Fits, Limit
<1>13. CASE Crash
  <2>1. pc' = "down" /\ FilesKept
    BY <1>13, StepsThatKeep DEF Crash, Down
  <2> QED
    BY <1>1, <2>1 DEF SizeInv, Open, FilesKept, Fits, Limit
<1>14. CASE Destroy
  <2>1. PICK r \in LineSeq : Destroyed(r)
    BY <1>14, DestroyIs
  <2>2. Takes(r) /\ pc' = "down"
    BY <2>1, StepsThatTake DEF Destroyed, Down
  <2>3. PICK k \in LineSeq : r \o k = stream
    BY <2>1 DEF Destroyed
  <2>4. Fits(Contents(0) \o stream)
    <3>1. CASE pc = "failed"
      BY <3>1 DEF SizeInv
    <3>2. CASE pc = "idle"
      <4>1. Fits((Contents(0) \o stream) \o staging) /\ Contents(0) \o stream \in LineSeq
        BY <3>2, FillingIs, Concat DEF SizeInv
      <4> QED
        BY <1>1, <4>1, FitsIs
    <3> QED
      BY <2>1, <3>1, <3>2 DEF Destroyed
  <2>5. Fits(Contents(0) \o r)
    <3>1. (Contents(0) \o r) \o k = Contents(0) \o stream /\ Contents(0) \o r \in LineSeq
      <4>1. Associate(Contents(0), r, k)
        BY <1>1, Associativity
      <4>2. Contents(0) \o r \in LineSeq
        BY <1>1, Concat
      <4> QED
        BY <2>3, <4>1, <4>2 DEF Associate
    <3> QED
      BY <2>3, <2>4, <3>1, FitsIs
  <2>6. \A i \in Archives : Fits(Contents(i)')
    BY <1>1, <2>2, <2>5 DEF Takes
  <2> QED
    BY <2>2, <2>6 DEF SizeInv, Open, Fits, Limit
<1>15. CASE Restart
  <2>1. /\ stream = <<>> /\ staging = <<>> /\ UNCHANGED <<stream, staging>> /\ FilesKept
        /\ pc' = "start"
    BY <1>15, StepsThatKeep DEF Restart, Goto, ControlInv, Open
  <2> QED
    BY <1>1, <2>1, SizeQuiet DEF FilesKept, Open
<1>16. CASE UNCHANGED vars
  <2>1. FilesKept /\ UNCHANGED <<stream, staging, currentSize, pc, line>>
    BY <1>16, StepsThatKeep DEF vars, control
  <2>2. Filling' = Filling /\ Contents(0)' = Contents(0)
    BY <1>1, <2>1 DEF Filling, FilesKept
  <2> QED
    BY <1>1, <2>1, <2>2 DEF SizeInv, Open, FilesKept, Fits, Limit
<1> QED
  BY <1>2, <1>3, <1>4, <1>5, <1>6, <1>7, <1>8, <1>9, <1>10, <1>11, <1>12, <1>13, <1>14,
     <1>15, <1>16 DEF Next

-------------------------------------------------------------------------------
(* Eras                                                                    *)

\* A step leaves the row alone, adds the line it stages, or forgets what was lost.
LEMMA RowGrows ==
    ASSUME TypeInv, ControlInv, RowInv, [Next]_vars
    PROVE  \A l \in ToSet(Row') : l \in ToSet(Row) \/ l.era = rotations
<1>1. /\ disk \in LineSeq /\ staged \in LineSeq /\ earlier \in Nat
      /\ Len(disk) \in Nat /\ earlier <= Len(disk) /\ Row \in LineSeq
      /\ SubSeq(disk, 1, earlier) \in LineSeq
  <2>1. earlier <= Len(disk)
    BY DEF TypeInv, RowInv, LineSeq
  <2> QED
    BY <2>1, RowIs DEF TypeInv, LineSeq
<1>2. ASSUME NEW r \in LineSeq, disk' = disk \o r, UNCHANGED <<earlier, staged>>
      PROVE  Row' = Row
  BY <1>1, <1>2, RowStays
<1>3. CASE UNCHANGED <<disk, earlier, staged>>
  BY <1>3 DEF Row
<1>4. CASE DrainToRotate \/ DrainBatch \/ Flush
  <2>1. PICK r \in LineSeq, k \in LineSeq : Drained(r, k)
    BY <1>4, Drains
  <2> QED
    BY <1>2, <2>1 DEF Drained
<1>5. CASE RotateClose
  BY <1>3, <1>5, CloseIs DEF Closed
<1>6. CASE Stage
  <2> DEFINE l == [line EXCEPT !.era = rotations]
  <2>1. /\ line \in Line /\ staged' = Append(staged, l) /\ UNCHANGED <<disk, earlier>>
    BY <1>6 DEF Stage, TypeInv, ControlInv
  <2>2. l \in Line /\ l.era = rotations
    BY <2>1 DEF Line, TypeInv
  <2> HIDE DEF l
  <2>3. <<l>> \in LineSeq /\ staged' = staged \o <<l>>
    <3>1. staged' = Append(staged, l) /\ staged \in Seq(Line) /\ l \in Line
      BY <1>1, <2>1, <2>2 DEF LineSeq
    <3> QED
      BY <3>1 DEF LineSeq
  <2>4. staged \o <<l>> \in LineSeq /\ ToSet(staged \o <<l>>) = ToSet(staged) \cup ToSet(<<l>>)
    BY <1>1, <2>3, Concat, ToSetConcat
  <2>5. ToSet(Row') = ToSet(SubSeq(disk, 1, earlier)) \cup ToSet(staged \o <<l>>)
    BY <1>1, <2>1, <2>3, <2>4, ToSetConcat DEF Row
  <2>6. ToSet(Row) = ToSet(SubSeq(disk, 1, earlier)) \cup ToSet(staged)
    BY <1>1, ToSetConcat DEF Row
  <2>7. ToSet(<<l>>) = {l}
    <3>1. Len(<<l>>) = 1 /\ <<l>>[1] = l
      OBVIOUS
    <3> QED
      BY <2>3, <3>1, ToSetIs
  <2> QED
    BY <2>2, <2>4, <2>5, <2>6, <2>7
<1>7. CASE Destroy
  <2>1. PICK r \in LineSeq : Destroyed(r)
    BY <1>7, DestroyIs
  <2> QED
    BY <1>2, <2>1 DEF Destroyed
<1>8. CASE Restart
  <2>1. staged' = <<>> /\ earlier' = Len(disk) /\ disk' = disk
    BY <1>8 DEF Restart
  <2>2. Row' = disk
    <3>1. SubSeq(disk, 1, Len(disk)) = disk
      BY <1>1, SubSeqFull DEF LineSeq
    <3> QED
      BY <1>1, <2>1, <3>1, Concat DEF Row
  <2>3. PICK z \in LineSeq : Row = disk \o z
    BY <1>1, PrefixRest DEF RowInv
  <2> QED
    BY <1>1, <2>2, <2>3, ToSetConcat
<1>9. CASE FileSystemFails \/ Start \/ ResetRemove \/ OpenAppend \/ OpenTruncate \/ BeginWrite
           \/ RemoveDestination \/ Rename \/ Crash \/ UNCHANGED vars
  <2>1. UNCHANGED <<disk, earlier, staged>>
    BY <1>9 DEF FileSystemFails, Start, ResetRemove, OpenAppend, OpenTruncate, BeginWrite,
                RemoveDestination, Rename, Crash, vars, history
  <2> QED
    BY <1>3, <2>1
<1> QED
  BY <1>4, <1>5, <1>6, <1>7, <1>8, <1>9 DEF Next

LEMMA LineFields ==
    \A l \in Line : l.number \in Nat /\ l.era \in Nat
BY DEF Line

LEMMA AtIs ==
    ASSUME TypeInv
    PROVE  \A i \in Archives : /\ At(i) \subseteq Line
                               /\ Contents(i) = <<>> => At(i) = {}
<1>1. \A i \in Archives : Contents(i) \in LineSeq
  BY ContentsIs
<1> QED
  BY <1>1, ToSetIs, ToSetConcat DEF At

\* What the disk has is in the row.
LEMMA DiskInRow ==
    TypeInv /\ RowInv => ToSet(disk) \subseteq ToSet(Row) /\ Rising(disk)
<1> SUFFICES ASSUME TypeInv, RowInv PROVE ToSet(disk) \subseteq ToSet(Row) /\ Rising(disk)
  OBVIOUS
<1>1. earlier <= Len(disk) /\ disk \in LineSeq
  BY DEF TypeInv, RowInv, LineSeq
<1>2. Row \in LineSeq
  BY <1>1, RowIs
<1>3. PICK z \in LineSeq : Row = disk \o z
  BY <1>1, <1>2, PrefixRest DEF RowInv
<1> QED
  BY <1>1, <1>3, ToSetConcat, RisingConcat DEF RowInv

LEMMA EraInit == Init => EraInv
<1> SUFFICES ASSUME Init PROVE EraInv
  OBVIOUS
<1>1. SubSeq(<<>>, 1, 0) = <<>>
  BY SubSeqEmpty
<1>2. ToSet(Row) = {}
  BY <1>1, Concat, ToSetConcat DEF Init, Row
<1>3. \A i \in Archives : At(i) = {}
  BY ToSetConcat DEF Init, At, Contents
<1> QED
  BY <1>2, <1>3 DEF EraInv

\* Steps by which no file gets a line, and none that had moved has still to move.
LEMMA EraQuiet ==
    ASSUME TypeInv, EraInv, \A l \in ToSet(Row') : l.era <= rotations',
           rotations' = rotations, \A i \in Archives : At(i)' \subseteq At(i),
           \A i \in Archives : Unmoved(i)' => Unmoved(i)
    PROVE  EraInv'
<1>1. ASSUME NEW i \in Archives, NEW l \in At(i)'
      PROVE  l.era + i + (IF Unmoved(i)' THEN 1 ELSE 0) <= rotations'
  <2>1. l \in At(i) /\ l \in Line
    BY <1>1, AtIs
  <2>2. l.era + i + (IF Unmoved(i) THEN 1 ELSE 0) <= rotations
    BY <2>1 DEF EraInv
  <2>3. l.era \in Nat /\ i \in Nat /\ rotations \in Nat
    BY <2>1, LineFields, Bounds DEF TypeInv
  <2>4. CASE Unmoved(i)'
    BY <2>2, <2>4
  <2>5. CASE ~ Unmoved(i)'
    BY <2>2, <2>3, <2>5
  <2> QED
    BY <2>4, <2>5
<1> QED
  BY <1>1 DEF EraInv

LEMMA NobodyUnmoved ==
    ASSUME pc \notin Rotating, pc = "openTrunc" => line = Absent
    PROVE  \A i : ~ Unmoved(i)
BY DEF Unmoved

\* Lines that reach the log file.
LEMMA EraTakes ==
    ASSUME TypeInv, TypeInv', EraInv, RowInv', NEW r \in LineSeq, Takes(r), disk' = disk \o r,
           \A l \in ToSet(Row') : l.era <= rotations',
           rotations' = rotations, pc' \notin Rotating \cup {"openTrunc"}
    PROVE  EraInv'
<1>1. \A i \in Archives : ~ Unmoved(i)'
  BY DEF Unmoved
<1>2. ToSet(disk') \subseteq ToSet(Row')
  <2>1. (TypeInv /\ RowInv => ToSet(disk) \subseteq ToSet(Row) /\ Rising(disk))'
    BY DiskInRow, PTL
  <2> QED
    BY <2>1
<1>3. ToSet(r) \subseteq ToSet(Row')
  BY <1>2, ToSetConcat DEF TypeInv
<1>4. /\ At(0)' = At(0) \cup ToSet(r)
      /\ \A i \in Archives \ {0} : At(i)' = At(i)
  BY Bounds, ContentsIs, ToSetConcat DEF Takes, At
<1>5. ASSUME NEW i \in Archives, NEW l \in At(i)' PROVE l.era + i + 0 <= rotations'
  <2>1. CASE l \in At(i)
    <3>1. l.era + i + (IF Unmoved(i) THEN 1 ELSE 0) <= rotations
      BY <2>1 DEF EraInv
    <3>2. l.era \in Nat /\ i \in Nat /\ rotations \in Nat
      <4>1. l \in Line
        BY <2>1, AtIs
      <4> QED
        BY <4>1, LineFields, Counts
    <3> QED
      BY <3>1, <3>2
  <2>2. CASE i = 0 /\ l \in ToSet(r)
    <3>1. l.era \in Nat
      BY <2>2, ToSetIs, LineFields
    <3> QED
      BY <1>3, <2>2, <3>1
  <2> QED
    BY <1>4, <1>5, <2>1, <2>2, Bounds
<1> QED
  BY <1>1, <1>5 DEF EraInv

LEMMA EraNext ==
    ASSUME TypeInv, TypeInv', ControlInv, ControlInv', RowInv, RowInv', EraInv, [Next]_vars
    PROVE  EraInv'
<1> USE DEF Rotating, Starting
<1>1. /\ index \in Archives /\ 0 \in Archives /\ Archives = 0 .. MaxCount /\ MaxCount \in Nat
      /\ rotations \in Nat
  BY Bounds DEF TypeInv
<1>2. /\ rotations' \in Nat /\ rotations <= rotations'
      /\ rotations' = rotations \/ RotateClose
  <2>1. rotations' = rotations \/ RotateClose
    <3>1. CASE DrainToRotate \/ DrainBatch \/ Flush
      BY <3>1, Drains DEF Drained
    <3> QED
      BY <3>1 DEF Next, FileSystemFails, Start, ResetRemove, OpenAppend, OpenTruncate, BeginWrite,
             RemoveDestination, Rename, Stage, Crash, Destroy, Restart, vars, history
  <2>2. RotateClose => rotations' = rotations + 1
    BY DEF RotateClose
  <2> QED
    BY <1>1, <2>1, <2>2
<1>3. \A l \in ToSet(Row') : l.era <= rotations'
  <2>1. ASSUME NEW l \in ToSet(Row) PROVE l.era <= rotations'
    <3>1. l.era <= rotations
      BY DEF EraInv
    <3>2. Row \in LineSeq
      <4>1. earlier <= Len(disk)
        BY DEF TypeInv, RowInv, LineSeq
      <4> QED
        BY <4>1, RowIs
    <3>3. l.era \in Nat
      BY <3>2, ToSetIs, LineFields
    <3> QED
      BY <1>1, <1>2, <3>1, <3>3
  <2> QED
    BY <1>1, <1>2, <2>1, RowGrows
<1>4. ASSUME FilesKept PROVE \A i \in Archives : At(i)' \subseteq At(i)
  BY <1>4 DEF FilesKept, At
<1>5. CASE FileSystemFails \/ Start \/ OpenAppend \/ BeginWrite \/ Stage \/ Crash \/ Restart
  <2>1. FilesKept /\ pc' \notin Rotating \cup {"openTrunc"}
    BY <1>5, StepsThatKeep DEF FileSystemFails, Start, OpenAppend, BeginWrite, Stage, Crash,
                               Restart, Down, Goto
  <2>2. \A i \in Archives : ~ Unmoved(i)'
    BY <2>1 DEF Unmoved
  <2>3. rotations' = rotations
    BY <1>5, <1>2 DEF FileSystemFails, Start, OpenAppend, BeginWrite, Stage, Crash, Restart,
                      history
  <2> QED
    BY <1>3, <1>4, <2>1, <2>2, <2>3, EraQuiet
<1>6. CASE ResetRemove
  <2>1. /\ pc = "reset" /\ line = Absent /\ line' = line /\ pc' \in {"reset", "openTrunc"}
        /\ rotations' = rotations
    BY <1>6 DEF ResetRemove, Goto, ControlInv
  <2>2. \A i \in Archives : ~ Unmoved(i)'
    BY <2>1 DEF Unmoved
  <2>3. \A i \in Archives : At(i)' \subseteq At(i)
    BY <1>6, StepsThatEmpty, ToSetConcat DEF Emptied, At
  <2> QED
    BY <1>3, <2>1, <2>2, <2>3, EraQuiet
<1>7. CASE OpenTruncate
  <2>1. pc' \in {"idle", "stage"} /\ rotations' = rotations
    BY <1>7 DEF OpenTruncate, Goto, history
  <2>2. \A i \in Archives : ~ Unmoved(i)'
    BY <2>1 DEF Unmoved
  <2>3. \A i \in Archives : At(i)' \subseteq At(i)
    BY <1>7, StepsThatEmpty, ToSetConcat DEF Emptied, At
  <2> QED
    BY <1>3, <2>1, <2>2, <2>3, EraQuiet
<1>8. CASE DrainToRotate \/ DrainBatch \/ Flush
  <2>1. PICK r \in LineSeq, k \in LineSeq : Drained(r, k)
    BY <1>8, Drains
  <2>2. Takes(r) /\ disk' = disk \o r /\ rotations' = rotations
        /\ pc' \in {"failed", "close", "idle"}
    BY <2>1, StepsThatTake DEF Drained
  <2> QED
    BY <1>3, <2>2, EraTakes
<1>9. CASE RotateClose
  <2>1. FilesKept /\ rotations' = rotations + 1
    BY <1>9, StepsThatKeep DEF RotateClose
  <2>2. ASSUME NEW i \in Archives, NEW l \in At(i)'
        PROVE  l.era + i + (IF Unmoved(i)' THEN 1 ELSE 0) <= rotations'
    <3>1. l \in At(i) /\ l.era \in Nat
      BY <1>4, <2>1, <2>2, AtIs, LineFields
    <3>2. l.era + i + (IF Unmoved(i) THEN 1 ELSE 0) <= rotations
      BY <3>1 DEF EraInv
    <3>3. pc = "close"
      BY <1>9 DEF RotateClose
    <3>4. l.era + i <= rotations
      BY <1>1, <3>1, <3>2, <3>3 DEF Unmoved
    <3> QED
      BY <1>1, <2>1, <3>1, <3>4
  <2> QED
    BY <1>3, <2>2 DEF EraInv
<1>10. CASE RemoveDestination
  <2>1. /\ pc = "remove" /\ rotations' = rotations /\ index \in Nat
        /\ \/ index = 1 /\ pc' = "openTrunc" /\ index' = index
           \/ pc' = "remove" /\ index' = index - 1
           \/ pc' = "rename" /\ index' = index
    BY <1>1, <1>10 DEF RemoveDestination, NextArchive, Goto, history
  <2>2. \A i \in Archives : Unmoved(i)' => Unmoved(i)
    BY <1>1, <2>1 DEF Unmoved
  <2>3. \A i \in Archives : At(i)' \subseteq At(i)
    BY <1>4, <1>10, StepsThatEmpty, ToSetConcat DEF Emptied, At
  <2> QED
    BY <1>3, <2>1, <2>2, <2>3, EraQuiet
<1>11. CASE Rename
  <2>1. Moved /\ index - 1 \in Archives /\ index \in Nat /\ index >= 1
    <3>1. Moved /\ index \in 1 .. options.maxFiles /\ index - 1 \in Archives
      BY <1>11, RenameMoves
    <3>2. options.maxFiles \in Nat
      BY Bounds DEF TypeInv, Options
    <3> QED
      BY <3>1, <3>2
  <2>2. /\ pc = "rename" /\ rotations' = rotations
        /\ \/ index = 1 /\ pc' = "openTrunc" /\ index' = index
           \/ pc' = "remove" /\ index' = index - 1
    BY <1>11 DEF Rename, NextArchive, history
  <2>3. ASSUME NEW i \in Archives, NEW l \in At(i)'
        PROVE  l.era + i + (IF Unmoved(i)' THEN 1 ELSE 0) <= rotations'
    <3>1. CASE i = index
      <4>1. l \in At(index - 1)
        BY <2>1, <2>3, <3>1 DEF Moved, At
      <4>2. l.era + (index - 1) + (IF Unmoved(index - 1) THEN 1 ELSE 0) <= rotations
        BY <2>1, <4>1 DEF EraInv
      <4>3. Unmoved(index - 1)
        BY <2>1, <2>2 DEF Unmoved
      <4>4. ~ Unmoved(i)'
        BY <2>1, <2>2, <3>1 DEF Unmoved
      <4>5. l.era \in Nat
        BY <2>1, <4>1, AtIs, LineFields
      <4> QED
        BY <1>1, <2>1, <2>2, <3>1, <4>2, <4>3, <4>4, <4>5
    <3>2. CASE i = index - 1
      BY <2>1, <2>3, <3>2, ToSetConcat DEF Moved, At
    <3>3. CASE i # index /\ i # index - 1
      <4>1. l \in At(i) /\ l.era \in Nat
        BY <2>1, <2>3, <3>3, AtIs, LineFields DEF Moved, At
      <4>2. l.era + i + (IF Unmoved(i) THEN 1 ELSE 0) <= rotations
        BY <4>1 DEF EraInv
      <4>3. Unmoved(i)' => Unmoved(i)
        BY <1>1, <2>1, <2>2 DEF Unmoved
      <4>4. CASE Unmoved(i)'
        BY <2>2, <4>2, <4>3, <4>4
      <4>5. CASE ~ Unmoved(i)'
        BY <1>1, <2>2, <4>1, <4>2, <4>5
      <4> QED
        BY <4>4, <4>5
    <3> QED
      BY <3>1, <3>2, <3>3
  <2> QED
    BY <1>3, <2>3 DEF EraInv
<1>12. CASE Destroy
  <2>1. PICK r \in LineSeq : Destroyed(r)
    BY <1>12, DestroyIs
  <2>2. Takes(r) /\ disk' = disk \o r /\ rotations' = rotations /\ pc' = "down"
    BY <2>1, StepsThatTake DEF Destroyed, Down
  <2> QED
    BY <1>3, <2>2, EraTakes
<1>13. CASE UNCHANGED vars
  <2>1. FilesKept /\ UNCHANGED <<pc, index, line, rotations>>
    BY <1>13, StepsThatKeep DEF vars, control, history
  <2>2. \A i \in Archives : Unmoved(i)' => Unmoved(i)
    BY <2>1 DEF Unmoved
  <2> QED
    BY <1>3, <1>4, <2>1, <2>2, EraQuiet
<1> QED
  BY <1>5, <1>6, <1>7, <1>8, <1>9, <1>10, <1>11, <1>12, <1>13 DEF Next

-------------------------------------------------------------------------------
(* What the files hold                                                     *)

LEMMA FilesInit == Init => FilesInv
<1> SUFFICES ASSUME Init PROVE FilesInv
  OBVIOUS
<1>1. \A i \in Archives : Contents(i) = <<>> /\ At(i) = {}
  BY ToSetConcat DEF Init, At, Contents
<1>2. ToSet(disk) = {} /\ removed = {} /\ Rising(<<>>)
  BY ToSetConcat DEF Init, Rising
<1>3. 0 .. fewest \subseteq Archives
  BY TypeInit, Bounds DEF Init, TypeInv
<1>4. OnDisk /\ WithoutGap /\ YoungInv
  BY <1>1, <1>2, <1>3 DEF OnDisk, WithoutGap, YoungInv
<1>5. InOrder
  BY <1>1, <1>2 DEF InOrder
<1> QED
  BY <1>4, <1>5 DEF FilesInv

\* Older lines are in later files.
LEMMA OlderFiles ==
    ASSUME TypeInv, InOrder,
           NEW i \in Archives, NEW j \in Archives, NEW m \in At(i), NEW l \in At(j),
           m.number <= l.number
    PROVE  j <= i
<1>1. m.number \in Nat /\ l.number \in Nat
  BY AtIs, LineFields
<1>2. i < j => l.number < m.number
  BY Bounds DEF InOrder
<1> QED
  BY <1>1, <1>2, Bounds

\* No file changes; the time of promised rotations may pass.
LEMMA FilesStay ==
    ASSUME TypeInv, TypeInv', FilesInv, FilesKept, UNCHANGED <<disk, removed>>,
           fewest' <= fewest, rotations <= rotations'
    PROVE  FilesInv'
<1>1. \A i \in Archives : Contents(i)' = Contents(i) /\ At(i)' = At(i)
  BY DEF FilesKept, At
<1>2. /\ fewest \in Nat /\ fewest' \in Nat /\ rotations \in Nat /\ rotations' \in Nat
      /\ 0 .. fewest \subseteq Archives
  BY Counts DEF TypeInv
<1>3. \A l : IsHeld(l)' <=> IsHeld(l)
  BY <1>1 DEF IsHeld
<1>4. OnDisk'
  BY <1>1 DEF FilesInv, OnDisk
<1>5. InOrder'
  BY <1>1, Bounds DEF FilesInv, InOrder
<1>6. WithoutGap'
  <2>1. 0 .. fewest' \subseteq 0 .. fewest
    BY <1>2
  <2> QED
    BY <1>1, <1>2, <1>3, <2>1 DEF FilesInv, WithoutGap
<1>7. YoungInv'
  <2>1. ASSUME NEW l \in ToSet(disk) \ removed, l.era + fewest' >= rotations'
        PROVE  IsHeld(l)
    <3>1. l.era \in Nat
      BY ToSetIs, LineFields DEF TypeInv
    <3>2. l.era + fewest >= rotations
      BY <1>2, <2>1, <3>1
    <3> QED
      BY <3>2 DEF FilesInv, YoungInv
  <2> QED
    BY <1>3, <2>1 DEF YoungInv
<1> QED
  BY <1>4, <1>5, <1>6, <1>7 DEF FilesInv

\* One file goes: its lines were reset, there were none, or they were the oldest and had
\* been promised no longer.
LEMMA FilesGo ==
    ASSUME TypeInv, TypeInv', FilesInv, NEW i \in Archives, Emptied(i),
           UNCHANGED <<disk, fewest, rotations>>,
           \/ removed' = removed \cup At(i)
           \/ removed' = removed /\ At(i) = {}
           \/ /\ removed' = removed /\ fewest <= i
              /\ \A l \in At(i) : l.era + fewest < rotations
    PROVE  FilesInv'
<1>1. /\ At(i)' = {} /\ Contents(i)' = <<>>
      /\ \A j \in Archives \ {i} : Contents(j)' = Contents(j) /\ At(j)' = At(j)
  BY ToSetConcat DEF Emptied, At
<1>2. fewest \in Nat /\ rotations \in Nat /\ 0 .. fewest \subseteq Archives /\ i \in Nat
  BY Bounds DEF TypeInv, Options
<1>3. ASSUME NEW j \in Archives, j # i PROVE At(j) \cap At(i) = {}
  <2>1. ASSUME NEW l \in At(j), l \in At(i) PROVE FALSE
    <3>1. l.number \in Nat
      BY AtIs, LineFields
    <3> QED
      BY <1>3, <2>1, <3>1, OlderFiles, Bounds DEF FilesInv
  <2> QED
    BY <2>1
<1>4. OnDisk'
  <2>1. removed' \subseteq ToSet(disk)
    BY DEF FilesInv, OnDisk
  <2>2. ASSUME NEW j \in Archives PROVE At(j)' \subseteq ToSet(disk) \ removed'
    BY <1>1, <1>3 DEF FilesInv, OnDisk
  <2> QED
    BY <2>1, <2>2 DEF OnDisk
<1>5. InOrder'
  <2>1. Rising(<<>>)
    BY DEF Rising
  <2>2. ASSUME NEW j \in Archives PROVE Rising(Contents(j)')
    BY <1>1, <2>1 DEF FilesInv, InOrder
  <2>3. ASSUME NEW j \in Archives, NEW k \in j + 1 .. MaxCount, NEW l \in At(j)', NEW m \in At(k)'
        PROVE  m.number < l.number
    <3>1. k \in Archives /\ k # i /\ j # i /\ l \in At(j) /\ m \in At(k)
      BY <1>1, <2>3, Bounds
    <3> QED
      BY <3>1 DEF FilesInv, InOrder
  <2> QED
    BY <2>2, <2>3 DEF InOrder
<1>6. ASSUME NEW l \in ToSet(disk) \ removed', IsHeld(l), ~ IsHeld(l)'
      PROVE  /\ l \in At(i) /\ fewest <= i /\ l.era + fewest < rotations
  <2>1. PICK j \in Archives : l \in At(j)
    BY <1>6 DEF IsHeld
  <2>2. j = i
    BY <1>1, <1>6, <2>1 DEF IsHeld
  <2> QED
    BY <1>6, <2>1, <2>2
<1>7. WithoutGap'
  <2>1. ASSUME NEW j \in 0 .. fewest, NEW m \in At(j)', NEW l \in ToSet(disk) \ removed',
               m.number <= l.number
        PROVE  IsHeld(l)'
    <3>1. j # i /\ m \in At(j) /\ j \in Archives
      BY <1>1, <1>2, <2>1
    <3>2. IsHeld(l)
      <4>1. l \in ToSet(disk) \ removed
        OBVIOUS
      <4> QED
        BY <2>1, <3>1, <4>1 DEF FilesInv, WithoutGap
    <3>3. SUFFICES ASSUME ~ IsHeld(l)' PROVE FALSE
      OBVIOUS
    <3>4. l \in At(i) /\ fewest <= i
      BY <1>6, <3>2, <3>3
    <3>5. i <= j
      BY <2>1, <3>1, <3>4, OlderFiles DEF FilesInv
    <3> QED
      BY <1>2, <3>1, <3>4, <3>5
  <2> QED
    BY <2>1 DEF WithoutGap
<1>8. YoungInv'
  <2>1. ASSUME NEW l \in ToSet(disk) \ removed', l.era + fewest >= rotations
        PROVE  IsHeld(l)'
    <3>1. IsHeld(l)
      BY <2>1 DEF FilesInv, YoungInv
    <3>2. l.era \in Nat
      BY ToSetIs, LineFields DEF TypeInv
    <3> QED
      BY <1>2, <1>6, <2>1, <3>1, <3>2
  <2> QED
    BY <2>1 DEF YoungInv
<1> QED
  BY <1>4, <1>5, <1>7, <1>8 DEF FilesInv

\* An archive moves up.
LEMMA FilesMove ==
    ASSUME TypeInv, TypeInv', FilesInv, Moved, index \in Archives, index - 1 \in Archives,
           UNCHANGED <<disk, removed, fewest, rotations>>
    PROVE  FilesInv'
<1>1. /\ At(index) = {}
      /\ \A j \in Archives : /\ j = index => /\ Contents(j)' = Contents(index - 1)
                                             /\ At(j)' = At(index - 1)
                             /\ j = index - 1 => Contents(j)' = <<>> /\ At(j)' = {}
                             /\ j # index /\ j # index - 1 => /\ Contents(j)' = Contents(j)
                                                              /\ At(j)' = At(j)
  <2>1. index # index - 1
    BY Bounds
  <2> QED
    BY <2>1, ToSetConcat DEF Moved, At
<1>2. fewest \in Nat /\ 0 .. fewest \subseteq Archives /\ index \in Nat /\ index - 1 \in Nat
  BY Bounds DEF TypeInv, Options
<1>3. ASSUME NEW l, IsHeld(l) PROVE IsHeld(l)'
  <2>1. PICK j \in Archives : l \in At(j)
    BY <1>3 DEF IsHeld
  <2>2. CASE j = index - 1
    BY <1>1, <2>1, <2>2 DEF IsHeld
  <2>3. CASE j # index - 1
    BY <1>1, <2>1, <2>3 DEF IsHeld
  <2> QED
    BY <2>2, <2>3
<1>4. OnDisk'
  <2>1. ASSUME NEW j \in Archives PROVE At(j)' \subseteq ToSet(disk) \ removed
    BY <1>1 DEF FilesInv, OnDisk
  <2> QED
    BY <2>1 DEF FilesInv, OnDisk
<1>5. InOrder'
  <2>1. Rising(<<>>)
    BY DEF Rising
  <2>2. ASSUME NEW j \in Archives PROVE Rising(Contents(j)')
    BY <1>1, <2>1 DEF FilesInv, InOrder
  <2>3. ASSUME NEW j \in Archives, NEW k \in j + 1 .. MaxCount, NEW l \in At(j)', NEW m \in At(k)'
        PROVE  m.number < l.number
    <3>1. k \in Archives /\ j # index - 1 /\ k # index - 1 /\ j < k /\ j \in Nat /\ k \in Nat
      BY <1>1, <2>3, Bounds
    <3>2. CASE j = index
      <4>1. l \in At(index - 1) /\ m \in At(k) /\ k \in (index - 1) + 1 .. MaxCount
        BY <1>1, <1>2, <3>1, <3>2, Bounds
      <4> QED
        BY <4>1 DEF FilesInv, InOrder
    <3>3. CASE k = index
      <4>1. l \in At(j) /\ m \in At(index - 1) /\ index - 1 \in j + 1 .. MaxCount
        BY <1>1, <1>2, <3>1, <3>3, Bounds
      <4> QED
        BY <4>1 DEF FilesInv, InOrder
    <3>4. CASE j # index /\ k # index
      <4>1. l \in At(j) /\ m \in At(k)
        BY <1>1, <3>1, <3>4
      <4> QED
        BY <4>1 DEF FilesInv, InOrder
    <3> QED
      BY <3>2, <3>3, <3>4
  <2> QED
    BY <2>2, <2>3 DEF InOrder
<1>6. WithoutGap'
  <2>1. ASSUME NEW j \in 0 .. fewest, NEW m \in At(j)', NEW l \in ToSet(disk) \ removed,
               m.number <= l.number
        PROVE  IsHeld(l)
    <3>1. \E i \in 0 .. fewest : m \in At(i)
      <4>1. j \in Archives
        BY <1>2
      <4>2. CASE j = index
        <5>1. index - 1 \in 0 .. fewest /\ m \in At(index - 1)
          BY <1>1, <1>2, <2>1, <4>1, <4>2
        <5> QED
          BY <5>1
      <4>3. CASE j # index
        BY <1>1, <2>1, <4>1, <4>3
      <4> QED
        BY <4>2, <4>3
    <3> QED
      BY <2>1, <3>1 DEF FilesInv, WithoutGap
  <2> QED
    BY <1>3, <2>1 DEF WithoutGap
<1>7. YoungInv'
  BY <1>3 DEF FilesInv, YoungInv
<1> QED
  BY <1>4, <1>5, <1>6, <1>7 DEF FilesInv

\* The log file gets the next lines.
LEMMA FilesGrow ==
    ASSUME TypeInv, TypeInv', RowInv', FilesInv, NEW r \in LineSeq, Takes(r), disk' = disk \o r,
           UNCHANGED <<removed, fewest, rotations>>
    PROVE  FilesInv'
<1>1. /\ Contents(0)' = Contents(0) \o r /\ At(0)' = At(0) \cup ToSet(r)
      /\ \A i \in Archives \ {0} : Contents(i)' = Contents(i) /\ At(i)' = At(i)
  BY Bounds, ContentsIs, ToSetConcat DEF Takes, At
<1>2. /\ ToSet(disk') = ToSet(disk) \cup ToSet(r) /\ ToSet(r) \subseteq Line
      /\ disk \in LineSeq /\ 0 \in Archives /\ Contents(0) \in LineSeq
  BY Bounds, ContentsIs, ToSetConcat, ToSetIs DEF TypeInv
<1>3. Rising(disk \o r)
  <2>1. (TypeInv /\ RowInv => ToSet(disk) \subseteq ToSet(Row) /\ Rising(disk))'
    BY DiskInRow, PTL
  <2> QED
    BY <2>1
<1>4. Rising(r) /\ \A l \in ToSet(disk), m \in ToSet(r) : l.number < m.number
  BY <1>2, <1>3, RisingConcat
<1>5. \A l \in ToSet(r) : l \notin ToSet(disk) /\ l \notin removed
  <2>1. ASSUME NEW l \in ToSet(r), l \in ToSet(disk) PROVE FALSE
    <3>1. l.number \in Nat /\ l.number < l.number
      BY <1>2, <1>4, <2>1, LineFields
    <3> QED
      BY <3>1
  <2> QED
    BY <2>1 DEF FilesInv, OnDisk
<1>6. \A i \in Archives : \A l \in At(i) : l \in ToSet(disk)
  BY DEF FilesInv, OnDisk
<1>7. ASSUME NEW l, IsHeld(l) \/ l \in ToSet(r) PROVE IsHeld(l)'
  <2>1. CASE l \in ToSet(r)
    BY <1>1, <1>2, <2>1 DEF IsHeld
  <2>2. CASE IsHeld(l)
    <3>1. PICK j \in Archives : l \in At(j)
      BY <2>2 DEF IsHeld
    <3>2. l \in At(j)'
      BY <1>1, <3>1
    <3> QED
      BY <3>2 DEF IsHeld
  <2> QED
    BY <1>7, <2>1, <2>2
<1>8. OnDisk'
  <2>1. ASSUME NEW i \in Archives, NEW l \in At(i)' PROVE l \in ToSet(disk') \ removed
    <3>1. CASE l \in At(i)
      BY <1>2, <3>1 DEF FilesInv, OnDisk
    <3>2. CASE l \in ToSet(r)
      BY <1>2, <1>5, <3>2
    <3> QED
      BY <1>1, <2>1, <3>1, <3>2
  <2>2. removed \subseteq ToSet(disk')
    BY <1>2 DEF FilesInv, OnDisk
  <2> QED
    BY <2>1, <2>2 DEF OnDisk
<1>9. InOrder'
  <2>1. Rising(Contents(0)')
    <3>1. Rising(Contents(0)) /\ \A l \in ToSet(Contents(0)), m \in ToSet(r) : l.number < m.number
      BY <1>2, <1>4, <1>6 DEF FilesInv, InOrder, At
    <3> QED
      BY <1>1, <1>2, <1>4, <3>1, RisingConcat
  <2>2. ASSUME NEW i \in Archives PROVE Rising(Contents(i)')
    <3>1. CASE i = 0
      BY <2>1, <3>1
    <3>2. CASE i # 0
      BY <1>1, <3>2 DEF FilesInv, InOrder
    <3> QED
      BY <3>1, <3>2
  <2>3. ASSUME NEW i \in Archives, NEW j \in i + 1 .. MaxCount, NEW l \in At(i)', NEW m \in At(j)'
        PROVE  m.number < l.number
    <3>1. j \in Archives \ {0} /\ m \in At(j)
      BY <1>1, <2>3, Bounds
    <3>2. CASE l \in At(i)
      BY <3>1, <3>2 DEF FilesInv, InOrder
    <3>3. CASE l \in ToSet(r)
      BY <1>4, <1>6, <3>1, <3>3
    <3> QED
      BY <1>1, <2>3, <3>2, <3>3
  <2> QED
    BY <2>2, <2>3 DEF InOrder
<1>10. WithoutGap'
  <2>1. ASSUME NEW i \in 0 .. fewest, NEW m \in At(i)', NEW l \in ToSet(disk') \ removed,
               m.number <= l.number
        PROVE  IsHeld(l) \/ l \in ToSet(r)
    <3>1. SUFFICES ASSUME l \in ToSet(disk) PROVE IsHeld(l)
      BY <1>2
    <3>2. l.number \in Nat /\ i \in Archives
      <4>1. l \in Line
        BY <1>2, <3>1, ToSetIs
      <4>2. i \in Archives
        BY Counts
      <4> QED
        BY <4>1, <4>2, LineFields
    <3>3. CASE m \in At(i)
      <4>1. l \in ToSet(disk) \ removed
        BY <3>1
      <4> QED
        BY <2>1, <3>3, <4>1 DEF FilesInv, WithoutGap
    <3>4. CASE m \in ToSet(r)
      <4>1. l.number < m.number /\ m.number \in Nat
        BY <1>2, <1>4, <3>1, <3>4, LineFields
      <4> QED
        BY <2>1, <3>2, <4>1
    <3> QED
      BY <1>1, <2>1, <3>2, <3>3, <3>4
  <2> QED
    BY <1>7, <2>1 DEF WithoutGap
<1>11. YoungInv'
  <2>1. ASSUME NEW l \in ToSet(disk') \ removed, l.era + fewest >= rotations
        PROVE  IsHeld(l) \/ l \in ToSet(r)
    BY <1>2, <2>1 DEF FilesInv, YoungInv
  <2> QED
    BY <1>7, <2>1 DEF YoungInv
<1> QED
  BY <1>8, <1>9, <1>10, <1>11 DEF FilesInv

LEMMA FilesNext ==
    ASSUME TypeInv, TypeInv', ControlInv, ControlInv', RowInv, RowInv', EraInv, FilesInv,
           [Next]_vars
    PROVE  FilesInv'
<1> USE DEF Rotating, Starting
<1>1. /\ index \in Archives /\ 0 \in Archives /\ rotations \in Nat /\ fewest \in Nat
      /\ fewest <= options.maxFiles /\ options.maxFiles \in Nat
      /\ \A i \in Archives : i \in Nat
  BY Bounds DEF TypeInv, Options
<1>2. CASE FileSystemFails \/ Start \/ OpenAppend \/ BeginWrite \/ RotateClose \/ Stage \/ Crash
           \/ Restart \/ UNCHANGED vars
  <2>1. FilesKept
    BY <1>2, StepsThatKeep
  <2>2. UNCHANGED <<disk, removed>>
    BY <1>2, CloseIs DEF Closed, FileSystemFails, Start, OpenAppend, BeginWrite, Stage, Crash,
                         Restart, vars, history
  <2>3. fewest' <= fewest
    <3>1. CASE Restart
      <4>1. options'.maxFiles \in Nat
        BY Bounds DEF TypeInv, Options
      <4> QED
        BY <1>1, <3>1, <4>1 DEF Restart
    <3>2. CASE ~ Restart
      <4>1. fewest' = fewest
        BY <1>2, <3>2 DEF FileSystemFails, Start, OpenAppend, BeginWrite, RotateClose, Stage,
                          Crash, vars, history
      <4> QED
        BY <1>1, <4>1
    <3> QED
      BY <3>1, <3>2
  <2>4. rotations <= rotations'
    <3>1. CASE RotateClose
      BY <1>1, <3>1 DEF RotateClose
    <3>2. CASE ~ RotateClose
      <4>1. rotations' = rotations
        BY <1>2, <3>2 DEF FileSystemFails, Start, OpenAppend, BeginWrite, Stage, Crash, Restart,
                          vars, history
      <4> QED
        BY <1>1, <4>1
    <3> QED
      BY <3>1, <3>2
  <2> QED
    BY <2>1, <2>2, <2>3, <2>4, FilesStay
<1>3. CASE ResetRemove
  <2>1. /\ Emptied(index) /\ UNCHANGED <<disk, fewest, rotations>>
        /\ removed' = removed \cup At(index)
    BY <1>3, StepsThatEmpty DEF ResetRemove, At
  <2> QED
    BY <1>1, <2>1, FilesGo
<1>4. CASE OpenTruncate
  <2>1. /\ Emptied(0) /\ UNCHANGED <<disk, fewest, rotations, removed>> /\ pc = "openTrunc"
    BY <1>4, StepsThatEmpty DEF OpenTruncate, history
  <2>2. \/ At(0) = {}
        \/ fewest <= 0 /\ \A l \in At(0) : l.era + fewest < rotations
    <3>1. CASE files[0] = Absent
      BY <1>1, <3>1, ContentsIs, AtIs
    <3>2. CASE line # Absent /\ options.maxFiles = 0
      <4>1. Unmoved(0) /\ fewest = 0
        BY <1>1, <2>1, <3>2 DEF Unmoved
      <4>2. \A l \in At(0) : l.era \in Nat /\ l.era + 0 + 1 <= rotations
        BY <1>1, <4>1, AtIs, LineFields DEF EraInv
      <4> QED
        BY <1>1, <4>1, <4>2
    <3> QED
      BY <2>1, <3>1, <3>2 DEF ControlInv
  <2> QED
    BY <1>1, <2>1, <2>2, FilesGo
<1>5. CASE DrainToRotate \/ DrainBatch \/ Flush
  <2>1. PICK r \in LineSeq, k \in LineSeq : Drained(r, k)
    BY <1>5, Drains
  <2>2. Takes(r) /\ disk' = disk \o r /\ UNCHANGED <<removed, fewest, rotations>>
    BY <2>1, StepsThatTake DEF Drained
  <2> QED
    BY <2>2, FilesGrow
<1>6. CASE RemoveDestination
  <2>1. /\ pc = "remove" /\ UNCHANGED <<disk, fewest, rotations, removed>>
        /\ FilesKept \/ Emptied(index)
    BY <1>6, StepsThatEmpty DEF RemoveDestination, history
  <2>2. \/ At(index) = {}
        \/ fewest <= index /\ \A l \in At(index) : l.era + fewest < rotations
    <3>1. CASE index < options.maxFiles
      <4>1. files[index] = Absent
        BY <2>1, <3>1 DEF ControlInv
      <4> QED
        BY <1>1, <4>1, ContentsIs, AtIs
    <3>2. CASE ~ (index < options.maxFiles)
      <4>1. Unmoved(index) /\ fewest <= index
        BY <1>1, <2>1, <3>2 DEF Unmoved
      <4>2. \A l \in At(index) : l.era \in Nat /\ l.era + index + 1 <= rotations
        BY <1>1, <4>1, AtIs, LineFields DEF EraInv
      <4> QED
        BY <1>1, <4>1, <4>2
    <3> QED
      BY <3>1, <3>2
  <2>3. CASE FilesKept
    <3>1. fewest' <= fewest /\ rotations <= rotations'
      BY <1>1, <2>1
    <3> QED
      BY <2>1, <2>3, <3>1, FilesStay
  <2>4. CASE Emptied(index)
    BY <1>1, <2>1, <2>2, <2>4, FilesGo
  <2> QED
    BY <2>1, <2>3, <2>4
<1>7. CASE Rename
  <2>1. Moved /\ index - 1 \in Archives /\ UNCHANGED <<disk, removed, fewest, rotations>>
    BY <1>7, RenameMoves DEF Rename, history
  <2> QED
    BY <1>1, <2>1, FilesMove
<1>8. CASE Destroy
  <2>1. PICK r \in LineSeq : Destroyed(r)
    BY <1>8, DestroyIs
  <2>2. Takes(r) /\ disk' = disk \o r /\ UNCHANGED <<removed, fewest, rotations>>
    BY <2>1, StepsThatTake DEF Destroyed
  <2> QED
    BY <2>2, FilesGrow
<1> QED
  BY <1>2, <1>3, <1>4, <1>5, <1>6, <1>7, <1>8 DEF Next

\* Nothing is staged before the start is over; a line staged later is newer than any that
\* was removed.
LEMMA OwnNext ==
    ASSUME TypeInv, ControlInv, RowInv, FilesInv, OwnInv, [Next]_vars
    PROVE  OwnInv'
<1>1. CASE Stage
  <2>1. PICK l : l = [line EXCEPT !.era = rotations] /\ staged' = Append(staged, l)
    BY <1>1 DEF Stage
  <2>2. line \in Line /\ line # Absent /\ staged \in Seq(Line) /\ pc = "stage"
    BY <1>1, LineIsNotAbsent DEF Stage, ControlInv, TypeInv, LineSeq
  <2>3. l.number = given
    BY <2>1, <2>2 DEF RowInv, Line
  <2>4. ASSUME l \in removed PROVE FALSE
    <3>1. l \in ToSet(Row)
      BY <2>4, DiskInRow DEF FilesInv, OnDisk
    <3>2. l.number < given /\ given \in Nat
      BY <2>2, <3>1 DEF RowInv, TypeInv
    <3> QED
      BY <2>3, <3>2
  <2>5. /\ Len(staged) \in Nat /\ Len(staged') = Len(staged) + 1
        /\ \A k \in 1 .. Len(staged) : staged'[k] = staged[k]
        /\ staged'[Len(staged) + 1] = l
    BY <2>1, <2>2
  <2>6. removed' = removed /\ pc' \notin Starting
    BY <1>1 DEF Stage, Starting
  <2>7. ASSUME NEW k \in 1 .. Len(staged') PROVE staged'[k] \notin removed
    <3>1. k \in 1 .. Len(staged) \/ k = Len(staged) + 1
      BY <2>5
    <3> QED
      BY <2>4, <2>5, <3>1 DEF OwnInv
  <2> QED
    BY <2>6, <2>7 DEF OwnInv
<1>2. CASE Restart
  <2>1. staged' = <<>> /\ Len(<<>>) = 0
    BY <1>2 DEF Restart
  <2> QED
    BY <2>1 DEF OwnInv
<1>3. CASE ResetRemove
  <2>1. staged = <<>> /\ staged' = <<>> /\ Len(<<>>) = 0
    BY <1>3 DEF ResetRemove, OwnInv, Starting
  <2> QED
    BY <2>1 DEF OwnInv
<1>4. ASSUME staged' = staged, removed' = removed, pc' \in Starting => pc \in Starting
      PROVE  OwnInv'
  BY <1>4 DEF OwnInv
<1>5. CASE FileSystemFails \/ Start \/ OpenAppend \/ OpenTruncate \/ BeginWrite \/ RotateClose
           \/ RemoveDestination \/ Rename \/ Crash \/ UNCHANGED vars
  <2>1. staged' = staged /\ removed' = removed
    BY <1>5 DEF FileSystemFails, Start, OpenAppend, OpenTruncate, BeginWrite, RotateClose,
                RemoveDestination, Rename, Crash, vars, history
  <2>2. pc' \in Starting => pc \in Starting
    BY <1>5 DEF FileSystemFails, Start, OpenAppend, OpenTruncate, BeginWrite, RotateClose,
                RemoveDestination, Rename, NextArchive, Crash, Down, vars, control, Goto,
                Starting
  <2> QED
    BY <1>4, <2>1, <2>2
<1>6. CASE DrainToRotate \/ DrainBatch \/ Flush \/ Destroy
  <2>1. staged' = staged /\ removed' = removed
    BY <1>6 DEF DrainToRotate, DrainBatch, Flush, Destroy
  <2>2. pc' \notin Starting
    BY <1>6 DEF DrainToRotate, DrainBatch, Flush, Destroy, DrainStagingBuffer, Down, Starting
  <2> QED
    BY <1>4, <2>1, <2>2
<1> QED
  BY <1>1, <1>2, <1>3, <1>5, <1>6 DEF Next

-------------------------------------------------------------------------------
(* The theorems                                                            *)

\* The inductive invariant of the sink, its files and the process, for every choice of
\* options, any sizes of lines, any number of lines, failures, crashes and restarts.
THEOREM RotationInvariant == Spec => []RotationInv
<1>1. Init => RotationInv
  <2>1. Init => OwnInv
    BY DEF Init, OwnInv
  <2> QED
    BY <2>1, TypeInit, RowInit, SizeInit, EraInit, FilesInit DEF RotationInv
<1>2. RotationInv /\ [Next]_vars => RotationInv'
  <2> SUFFICES ASSUME RotationInv, [Next]_vars PROVE RotationInv'
    OBVIOUS
  <2>1. TypeInv /\ ControlInv /\ RowInv /\ SizeInv /\ EraInv /\ FilesInv /\ OwnInv
    BY DEF RotationInv
  <2>2. TypeInv' /\ ControlInv'
    BY <2>1, TypeNext
  <2>3. RowInv' /\ SizeInv'
    BY <2>1, <2>2, RowNext, SizeNext
  <2>4. EraInv' /\ FilesInv'
    BY <2>1, <2>2, <2>3, EraNext, FilesNext
  <2>5. OwnInv'
    BY <2>1, OwnNext
  <2> QED
    BY <2>2, <2>3, <2>4, <2>5 DEF RotationInv
<1> QED
  BY <1>1, <1>2, PTL DEF Spec

\* Crashes and failures in the middle of a rotation leave no gap in what the files hold,
\* whatever the options of the processes were.
THEOREM RetainedIsNewestTheorem == Spec => []RetainedIsNewest
<1>1. RotationInv => RetainedIsNewest
  <2> SUFFICES ASSUME RotationInv PROVE RetainedIsNewest
    OBVIOUS
  <2>1. TypeInv /\ RowInv /\ OnDisk /\ InOrder /\ WithoutGap
    BY DEF RotationInv, FilesInv
  <2>2. /\ Archives = 0 .. MaxCount /\ MaxCount \in Nat /\ fewest \in Nat
        /\ 0 .. fewest \subseteq Archives
    BY <2>1, Bounds DEF TypeInv, Options
  <2>3. Held(MaxCount) \subseteq ToSet(disk) \ removed
    BY <2>1, <2>2 DEF Held, At, OnDisk
  <2>4. ASSUME NEW m \in Held(fewest), NEW l \in ToSet(disk) \ removed, m.number <= l.number
        PROVE  l \in Held(fewest)
    <3>1. PICK i \in 0 .. fewest : m \in At(i)
      BY <2>4 DEF Held, At
    <3>2. PICK j \in Archives : l \in At(j)
      BY <2>1, <2>4, <3>1 DEF WithoutGap, IsHeld
    <3>3. j <= i
      BY <2>1, <2>2, <2>4, <3>1, <3>2, OlderFiles
    <3>4. j \in 0 .. fewest
      BY <2>2, <3>2, <3>3
    <3> QED
      BY <3>2, <3>4 DEF Held, At
  <2>5. Rising(disk)
    BY <2>1, DiskInRow
  <2>6. \A i \in Archives : /\ Rising(Contents(i))
                            /\ \A j \in i + 1 .. MaxCount :
                                  \A l \in ToSet(Contents(i)), m \in ToSet(Contents(j)) :
                                     m.number < l.number
    BY <2>1 DEF InOrder, At
  <2> QED
    BY <2>3, <2>4, <2>5, <2>6 DEF RetainedIsNewest
<1> QED
  BY <1>1, RotationInvariant, PTL

\* No crash and no failure costs an archive before its time.
THEOREM ArchivesAreKeptTheorem == Spec => []ArchivesAreKept
<1>1. RotationInv => ArchivesAreKept
  BY Bounds DEF RotationInv, FilesInv, YoungInv, IsHeld, At, Held, ArchivesAreKept
<1> QED
  BY <1>1, RotationInvariant, PTL

\* The byte count of the sink never drifts so far that a file would outgrow its limit.
THEOREM FilesRespectMaxSizeTheorem == Spec => []FilesRespectMaxSize
<1>1. RotationInv => FilesRespectMaxSize
  <2> SUFFICES ASSUME RotationInv, NEW i \in Archives, SizeOf(Contents(i)) > Limit
               PROVE  Len(files[i]) = 1
    BY DEF FilesRespectMaxSize, Limit
  <2>1. TypeInv /\ Fits(Contents(i)) /\ Contents(i) \in LineSeq
    BY ContentsIs DEF RotationInv, SizeInv
  <2>2. SizeOf(Contents(i)) \in Nat /\ Limit \in Nat
    BY <2>1, SizeOfType, LimitIs
  <2>3. Len(Contents(i)) <= 1 /\ Len(Contents(i)) \in Nat
    BY <2>1, <2>2 DEF Fits, LineSeq
  <2>4. Contents(i) # <<>>
    BY <2>2, SizeOfEmpty
  <2>5. Len(Contents(i)) # 0
    BY <2>1, <2>4 DEF LineSeq
  <2>6. Contents(i) = files[i]
    BY <2>1, <2>4, ContentsIs
  <2>7. Len(Contents(i)) = 1
    BY <2>3, <2>5
  <2> QED
    BY <2>6, <2>7
<1> QED
  BY <1>1, RotationInvariant, PTL

\* In a state of the invariant the lines of this process lie in order over the three tiers,
\* and the young ones that a Flush covers are held by a file.
LEMMA RotationKeepsLines == RotationInv => NoLineIsLostInRotation
<1> SUFFICES ASSUME RotationInv PROVE NoLineIsLostInRotation
  OBVIOUS
<1>1. TypeInv /\ RowInv
  BY DEF RotationInv
<1>2. /\ disk \in LineSeq /\ stream \in LineSeq /\ staging \in LineSeq /\ staged \in LineSeq
      /\ earlier \in Nat /\ flushed \in Nat /\ Len(disk) \in Nat /\ earlier + flushed <= Len(disk)
  BY <1>1 DEF TypeInv, RowInv, LineSeq
<1> DEFINE before  == SubSeq(disk, 1, earlier)
           reached == SubSeq(disk, earlier + 1, Len(disk))
<1>3. /\ before \in LineSeq /\ reached \in LineSeq /\ before \o reached = disk
      /\ Len(reached) = Len(disk) - earlier
  <2>1. before \o reached = SubSeq(disk, 1, Len(disk))
    <3>1. /\ 1 \in 1 .. Len(disk) + 1 /\ earlier \in 1 - 1 .. Len(disk)
          /\ Len(disk) \in earlier .. Len(disk) /\ disk \in Seq(Line)
      BY <1>2 DEF LineSeq
    <3> QED
      BY <3>1, ConcatAdjacentSubSeq
  <2>2. SubSeq(disk, 1, Len(disk)) = disk
    BY <1>2, SubSeqFull DEF LineSeq
  <2>3. before \in LineSeq /\ reached \in LineSeq /\ Len(reached) = Len(disk) - earlier
    BY <1>2 DEF LineSeq
  <2> QED
    BY <2>1, <2>2, <2>3
<1>4. Row = before \o staged
  BY DEF Row
<1> HIDE DEF before, reached
<1>5. \A x, y \in LineSeq : before \o x = before \o y => x = y
  <2>1. before \in Seq(Line)
    BY <1>3 DEF LineSeq
  <2> QED
    BY <2>1, ConcatSimplifications DEF LineSeq
<1>6. \A x, y \in LineSeq : x \o y \in LineSeq
  BY Concat
<1>7. \A x, y, z \in LineSeq : x \o (y \o z) = (x \o y) \o z
  BY Concat
<1>8. ASSUME pc \notin {"failed", "down"} PROVE reached \o stream \o staging = staged
  <2>1. (before \o reached) \o (stream \o staging) = before \o staged
    BY <1>1, <1>3, <1>4, <1>8 DEF RowInv
  <2>2. stream \o staging \in LineSeq /\ reached \o (stream \o staging) \in LineSeq
    BY <1>2, <1>3, <1>6
  <2>3. before \o (reached \o (stream \o staging))
          = (before \o reached) \o (stream \o staging)
    BY <1>3, <1>7, <2>2
  <2>4. before \o (reached \o (stream \o staging)) = before \o staged
    BY <2>1, <2>3
  <2>5. reached \o (stream \o staging) = staged
    BY <1>2, <1>5, <2>2, <2>4
  <2>6. reached \o (stream \o staging) = (reached \o stream) \o staging
    <3>1. Associate(reached, stream, staging)
      BY <1>2, <1>3, Associativity
    <3> QED
      BY <3>1 DEF Associate
  <2> QED
    BY <2>5, <2>6
<1>9. IsPrefix(reached, staged)
  <2>1. PICK z \in LineSeq : Row = disk \o z
    <3>1. Row \in LineSeq /\ IsPrefix(disk, Row)
      BY <1>1, <1>2, <1>3, <1>4, <1>6 DEF RowInv
    <3> QED
      BY <1>2, <3>1, PrefixRest
  <2>2. before \o (reached \o z) = (before \o reached) \o z
    BY <1>3, <1>7
  <2>3. before \o (reached \o z) = before \o staged
    BY <1>3, <1>4, <2>1, <2>2
  <2>4. reached \o z \in LineSeq
    BY <1>3, <1>6
  <2>5. reached \o z = staged
    BY <1>2, <1>5, <2>3, <2>4
  <2> QED
    BY <1>3, <2>5, PrefixProperties
<1>10. ASSUME NEW k \in 1 .. flushed, staged[k].era + fewest >= rotations
      PROVE  staged[k] \in Held(MaxCount)
  <2>1. k \in 1 .. Len(reached) /\ reached[k] = staged[k] /\ k \in 1 .. Len(staged)
    <3>1. k \in 1 .. Len(reached)
      BY <1>2, <1>3
    <3>2. Len(reached) <= Len(staged) /\ Len(staged) \in Nat /\ reached[k] = staged[k]
      BY <1>2, <1>3, <1>9, <3>1, PrefixIs DEF LineSeq
    <3> QED
      BY <1>2, <1>3, <3>1, <3>2
  <2>2. staged[k] \in ToSet(reached)
    BY <1>3, <2>1, ToSetIs
  <2>3. staged[k] \in ToSet(disk)
    BY <1>3, <2>2, ToSetConcat
  <2>4. staged[k] \notin removed
    BY <2>1 DEF RotationInv, OwnInv
  <2>5. IsHeld(staged[k])
    BY <1>10, <2>3, <2>4 DEF RotationInv, FilesInv, YoungInv
  <2> QED
    BY <2>5, Bounds DEF IsHeld, At, Held
<1> QED
  BY <1>8, <1>9, <1>10 DEF NoLineIsLostInRotation, reached

\* A process that goes on writing has each of its lines once and in order: they have reached
\* path_, or are in the stream or the staging buffer.  What a returned Flush covered is in
\* the log file or an archive until max_files more rotations than the one that archives it
\* have begun.
THEOREM NoLineIsLostInRotationTheorem == Spec => []NoLineIsLostInRotation
BY RotationKeepsLines, RotationInvariant, PTL

-------------------------------------------------------------------------------
(* The promise of a sink                                                   *)

\* Of this process's lines, those that reached the disk; and how it goes with the process.
Reached == SubSeq(disk, earlier + 1, Len(disk))

State == CASE pc = "failed" -> "failed"
           [] pc = "down"   -> "gone"
           [] OTHER         -> "running"

\* A beginning, in the words of the promise.
LEMMA SamePrefix == \A x, y : Promise!IsPrefix(x, y) <=> IsPrefix(x, y)
BY DEF Promise!IsPrefix, IsPrefix

LEMMA NextKeepsLines == RotationInv' => NoLineIsLostInRotation'
<1>1. (RotationInv => NoLineIsLostInRotation)'
  BY RotationKeepsLines, PTL
<1> QED
  BY <1>1

LEMMA ReachedGrows ==
    ASSUME RotationInv, NEW r \in LineSeq, disk' = disk \o r, UNCHANGED <<earlier, staged>>
    PROVE  Reached \in LineSeq /\ Reached' = Reached \o r
<1>1. /\ disk \in LineSeq /\ earlier \in Nat /\ flushed \in Nat
      /\ Len(disk) \in Nat /\ earlier <= Len(disk)
      /\ \A i \in 1 .. Len(disk) : disk[i] \in Line
  BY DEF RotationInv, TypeInv, RowInv, LineSeq
<1>2. PICK d \in LineSeq :
         /\ d = disk \o r /\ Len(d) = Len(disk) + Len(r) /\ Len(r) \in Nat
         /\ \A i \in 1 .. Len(disk) + Len(r) :
               d[i] = IF i <= Len(disk) THEN disk[i] ELSE r[i - Len(disk)]
  BY <1>1, ConcatElements
<1>3. PICK x \in LineSeq :
         /\ x = Reached /\ Len(x) = Len(disk) - earlier
         /\ \A i \in 1 .. Len(x) : x[i] = disk[earlier + i]
  <2>1. /\ Reached \in Seq(Line) /\ Len(Reached) = Len(disk) - earlier
        /\ \A i \in 1 .. Len(disk) - earlier : Reached[i] = disk[earlier + i]
    BY <1>1 DEF Reached, LineSeq
  <2> QED
    BY <2>1 DEF LineSeq
<1>4. PICK z \in LineSeq :
         /\ z = Reached' /\ Len(z) = Len(d) - earlier
         /\ \A i \in 1 .. Len(z) : z[i] = d[earlier + i]
  <2>1. d \in Seq(Line) /\ Len(d) \in Nat /\ earlier <= Len(d)
    BY <1>1, <1>2 DEF LineSeq
  <2>2. Reached' = SubSeq(d, earlier + 1, Len(d))
    BY <1>2 DEF Reached
  <2>3. /\ Reached' \in Seq(Line) /\ Len(Reached') = Len(d) - earlier
        /\ \A i \in 1 .. Len(d) - earlier : Reached'[i] = d[earlier + i]
    BY <1>1, <2>1, <2>2
  <2> QED
    BY <2>3 DEF LineSeq
<1>5. PICK y \in LineSeq :
         /\ y = x \o r /\ Len(y) = Len(x) + Len(r) /\ Len(x) \in Nat
         /\ \A i \in 1 .. Len(x) + Len(r) : y[i] = IF i <= Len(x) THEN x[i] ELSE r[i - Len(x)]
  BY ConcatElements
<1>6. Len(z) = Len(y) /\ Len(y) \in Nat
  BY <1>1, <1>2, <1>3, <1>4, <1>5
<1>7. ASSUME NEW i \in 1 .. Len(y) PROVE z[i] = y[i]
  <2>1. /\ earlier + i \in 1 .. Len(disk) + Len(r)
        /\ earlier + i <= Len(disk) <=> i <= Len(x)
        /\ (earlier + i) - Len(disk) = i - Len(x)
    BY <1>1, <1>2, <1>3, <1>5
  <2>2. z[i] = IF earlier + i <= Len(disk) THEN disk[earlier + i] ELSE r[(earlier + i) - Len(disk)]
    BY <1>2, <1>4, <1>6, <2>1
  <2>3. CASE i <= Len(x)
    BY <1>3, <1>5, <2>1, <2>2, <2>3
  <2>4. CASE ~ i <= Len(x)
    BY <1>5, <2>1, <2>2, <2>4
  <2> QED
    BY <2>3, <2>4
<1>8. z = y
  BY <1>6, <1>7, SeqEqual DEF LineSeq
<1> QED
  BY <1>3, <1>4, <1>5, <1>8

\* What the disk gains is progress.
LEMMA ProgressStep ==
    ASSUME RotationInv, RotationInv', NEW r \in LineSeq, disk' = disk \o r,
           UNCHANGED <<earlier, staged>>
    PROVE  Promise!Progress
<1>1. Reached \in LineSeq /\ Reached' = Reached \o r
  BY ReachedGrows
<1>2. IsPrefix(Reached, Reached') /\ IsPrefix(Reached', staged)
  <2>1. IsPrefix(Reached, Reached')
    BY <1>1, PrefixProperties
  <2>2. IsPrefix(Reached', staged)
    BY NextKeepsLines DEF NoLineIsLostInRotation, Reached
  <2> QED
    BY <2>1, <2>2
<1>3. /\ DOMAIN <<Reached>>' = DOMAIN <<Reached>>
      /\ \A o \in DOMAIN <<Reached>> : /\ IsPrefix(<<Reached>>[o], <<Reached>>'[o])
                                        /\ IsPrefix(<<Reached>>'[o], staged)
  BY <1>2
<1> QED
  BY <1>3, SamePrefix DEF Promise!Progress, Reached

\* Steps that move no line, fail or end the process.
LEMMA QuietPromise ==
    ASSUME RotationInv, RotationInv', UNCHANGED <<disk, earlier, staged, flushed>>,
           pc \in Open \cup Rotating \cup Starting \cup {"openTrunc"} \/ pc = pc'
    PROVE  \/ UNCHANGED <<staged, <<Reached>>, flushed, State>>
           \/ Promise!Fail \/ Promise!End
<1>1. Promise!Progress
  <2>1. disk \in LineSeq /\ disk' = disk \o <<>> /\ <<>> \in LineSeq
    BY Concat DEF RotationInv, TypeInv
  <2> QED
    BY <2>1, ProgressStep
<1>2. Reached' = Reached
  BY DEF Reached
<1>3. CASE pc = pc'
  BY <1>2, <1>3 DEF State
<1>4. CASE pc \in Open \cup Rotating \cup Starting \cup {"openTrunc"}
  <2>1. State = "running"
    BY <1>4 DEF State, Open, Rotating, Starting
  <2>2. CASE pc' = "failed"
    BY <1>1, <2>1, <2>2 DEF State, Promise!Fail
  <2>3. CASE pc' = "down"
    BY <1>1, <2>1, <2>3 DEF State, Promise!End
  <2>4. CASE pc' \notin {"failed", "down"}
    BY <1>2, <2>1, <2>4 DEF State
  <2> QED
    BY <2>2, <2>3, <2>4
<1> QED
  BY <1>3, <1>4

\* What a drain writes is progress; it may throw, and the one of a Flush that returns has
\* left no line behind.
LEMMA DrainPromise ==
    ASSUME RotationInv, RotationInv', DrainToRotate \/ DrainBatch \/ Flush
    PROVE  Promise!Reach \/ Promise!Harden \/ Promise!Fail
<1>1. PICK r \in LineSeq, k \in LineSeq : Drained(r, k)
  BY Drains DEF RotationInv
<1>2. /\ disk' = disk \o r /\ UNCHANGED <<earlier, staged>> /\ State = "running"
      /\ pc' \in {"failed", "close", "idle"}
  BY <1>1 DEF Drained, State, Open
<1>3. Promise!Progress
  BY <1>2, ProgressStep
<1>4. CASE pc' = "failed"
  BY <1>1, <1>2, <1>3, <1>4 DEF Drained, State, Promise!Fail
<1>5. CASE pc' # "failed" /\ flushed' = flushed
  BY <1>2, <1>3, <1>5 DEF State, Promise!Reach
<1>6. CASE pc' # "failed" /\ flushed' # flushed
  <2>1. flushed' = Len(staged) /\ stream' = <<>> /\ staging' = <<>>
    BY <1>1, <1>6 DEF Drained
  <2>2. Reached' = staged
    <3>1. Reached' \o stream' \o staging' = staged
      BY <1>2, <1>6, NextKeepsLines DEF NoLineIsLostInRotation, Reached
    <3>2. Reached' \o <<>> = Reached'
      BY <1>2, ReachedGrows, Concat
    <3> QED
      BY <2>1, <3>1, <3>2
  <2>3. State' = "running"
    BY <1>2, <1>6 DEF State
  <2>4. \A o \in DOMAIN <<Reached>> : <<Reached>>'[o] = staged
    BY <2>2
  <2> QED
    BY <1>2, <1>3, <2>1, <2>3, <2>4 DEF Reached, State, Promise!Harden
<1> QED
  BY <1>4, <1>5, <1>6

\* To its caller the rotating sink is a sink like any other: it takes lines, they reach the
\* disk in order, and a Flush that returns has left none behind, for all options, sizes
\* and any crashes and failures in the middle of a rotation.
THEOREM KeepsSinkPromiseTheorem == Spec => KeepsSinkPromise
<1>1. Init => Promise!Init
  <2> SUFFICES ASSUME Init PROVE Promise!Init
    OBVIOUS
  <2>1. SubSeq(<<>>, 0 + 1, Len(<<>>)) = <<>>
    BY SubSeqEmpty
  <2>2. \A o \in DOMAIN <<Reached>> : <<Reached>>[o] = <<>>
    BY <2>1 DEF Init, Reached
  <2> QED
    BY <2>2 DEF Init, Reached, Promise!Init
<1>2. RotationInv /\ RotationInv' /\ [Next]_vars
          => [Promise!Next]_<<staged, <<Reached>>, flushed, State>>
  <2> SUFFICES ASSUME RotationInv, RotationInv', [Next]_vars
               PROVE  Promise!Next \/ UNCHANGED <<staged, <<Reached>>, flushed, State>>
    OBVIOUS
  <2>1. CASE FileSystemFails \/ Start \/ ResetRemove \/ OpenAppend \/ OpenTruncate
             \/ BeginWrite \/ RemoveDestination \/ Rename
    <3>1. /\ UNCHANGED <<disk, earlier, staged, flushed>>
          /\ pc \in Open \cup Rotating \cup Starting \cup {"openTrunc"}
      BY <2>1 DEF FileSystemFails, Start, ResetRemove, OpenAppend, OpenTruncate, BeginWrite,
                  RemoveDestination, Rename, history, Open, Rotating, Starting
    <3> QED
      BY <3>1, QuietPromise DEF Promise!Next
  <2>2. CASE RotateClose
    <3>1. Closed
      BY <2>2, CloseIs DEF RotationInv
    <3>2. /\ UNCHANGED <<disk, earlier, staged, flushed>>
          /\ pc \in Open
      BY <3>1 DEF Closed, Open
    <3> QED
      BY <3>2, QuietPromise DEF Promise!Next
  <2>3. CASE DrainToRotate \/ DrainBatch \/ Flush
    BY <2>3, DrainPromise DEF Promise!Next
  <2>4. CASE Stage
    <3>1. PICK l : staged' = Append(staged, l)
      BY <2>4 DEF Stage
    <3>2. /\ UNCHANGED <<disk, earlier, flushed>>
          /\ pc = "stage" /\ pc' \in {"drainFlush", "drainOnly", "idle"}
      BY <2>4 DEF Stage
    <3>3. Reached' = Reached /\ State = "running" /\ State' = "running"
      BY <3>2 DEF Reached, State
    <3>4. staged \in Seq(Line) /\ staged' \in Seq(Line)
      BY DEF RotationInv, TypeInv, LineSeq
    <3>5. /\ Len(staged) \in Nat /\ Len(staged') = Len(staged) + 1
          /\ \A i \in 1 .. Len(staged) : staged'[i] = staged[i]
      BY <3>1, <3>4
    <3>6. IsPrefix(staged, staged')
      BY <3>4, <3>5, PrefixIs DEF LineSeq
    <3> QED
      BY <3>2, <3>3, <3>5, <3>6, SamePrefix DEF Reached, State, Promise!Take, Promise!Next
  <2>5. CASE Crash
    <3>1. /\ UNCHANGED <<disk, earlier, staged, flushed>>
          /\ pc # "down" /\ pc' = "down"
      BY <2>5 DEF Crash, Down, history
    <3>2. disk \in LineSeq /\ disk' = disk \o <<>> /\ <<>> \in LineSeq
      BY <3>1, Concat DEF RotationInv, TypeInv
    <3>3. Promise!Progress
      BY <3>1, <3>2, ProgressStep
    <3> QED
      BY <3>1, <3>3 DEF Promise!End, Promise!Next
  <2>6. CASE Destroy
    <3>1. PICK r \in LineSeq : Destroyed(r)
      BY <2>6, DestroyIs DEF RotationInv
    <3>2. /\ disk' = disk \o r /\ UNCHANGED <<earlier, staged, flushed>>
          /\ pc # "down" /\ pc' = "down"
      BY <3>1 DEF Destroyed, Down
    <3>3. Promise!Progress
      BY <3>2, ProgressStep
    <3> QED
      BY <3>2, <3>3 DEF Promise!End, Promise!Next
  <2>7. CASE Restart
    <3>1. /\ pc = "down" /\ pc' = "start" /\ disk' = disk
          /\ staged' = <<>> /\ flushed' = 0 /\ earlier' = Len(disk)
      BY <2>7 DEF Restart, Goto
    <3>2. Reached' = <<>>
      <4>1. disk \in Seq(Line) /\ Len(disk) \in Nat
        BY DEF RotationInv, TypeInv, LineSeq
      <4> QED
        BY <3>1, <4>1 DEF Reached
    <3>3. /\ DOMAIN <<Reached>>' = DOMAIN <<Reached>>
          /\ \A o \in DOMAIN <<Reached>> : <<Reached>>'[o] = <<>>
      BY <3>2
    <3> QED
      BY <3>1, <3>3 DEF Reached, Promise!Reopen, Promise!Next
  <2>8. CASE UNCHANGED vars
    BY <2>8 DEF vars, control, history, Reached, State
  <2> QED
    BY <2>1, <2>2, <2>3, <2>4, <2>5, <2>6, <2>7, <2>8 DEF Next
<1> QED
  BY <1>1, <1>2, RotationInvariant, PTL
     DEF Spec, KeepsSinkPromise, Promise!Spec, Reached, State
===============================================================================
