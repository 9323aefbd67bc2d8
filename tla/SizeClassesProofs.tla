--------------------------- MODULE SizeClassesProofs ---------------------------
(***************************************************************************)
(* The size classes are a ladder for every width of a usize.  A class size *)
(* in granules is q * bit[k] with q from 4 to 8 (its rank is 3 + 4k +      *)
(* (q - 4), and eight at one k is four at the next), or less than four.    *)
(* Rounding takes a count between 4 * bit[k] and 8 * bit[k] to the next    *)
(* multiple of bit[k] (Spaced), and that one has the rank of its q         *)
(* (Ranked); what is said of every request follows by arithmetic.          *)
(***************************************************************************)
EXTENDS HeapClasses, FiniteSetTheorems, TLAPS

USE ClassAssumption

-----------------------------------------------------------------------------
(* Numbers                                                                 *)

\* What holds at 0, and after every place it holds at, holds up to top.
LEMMA Forwards ==
    ASSUME NEW top \in Nat, NEW S \in SUBSET (0..top), 0 \in S,
           \A k \in S : k < top => k + 1 \in S
    PROVE  top \in S
<1> DEFINE All == {k..top : k \in S}
           R == StrictSubsetOrdering(Nat)
<1>1. IsWellFoundedOn(R, FiniteSubsetsOf(Nat))
  BY FS_StrictSubsetOrderingWellFounded
<1>2. All \subseteq FiniteSubsetsOf(Nat)
  <2> SUFFICES ASSUME NEW k \in S PROVE k..top \in FiniteSubsetsOf(Nat)
    OBVIOUS
  <2>1. k \in Int /\ top \in Int /\ k..top \in SUBSET Nat
    OBVIOUS
  <2>2. IsFiniteSet(k..top)
    BY <2>1, FS_Interval
  <2>3. QED
    BY <2>1, <2>2 DEF FiniteSubsetsOf
<1>3. All # {}
  OBVIOUS
<1> HIDE DEF All, R
<1>4. PICK least \in All : \A other \in All : ~ (<<other, least>> \in R)
  BY <1>1, <1>2, <1>3, WFMin
<1>5. PICK m \in S : least = m..top
  BY <1>4 DEF All
<1>6. ASSUME m # top PROVE FALSE
  <2>1. PICK j \in Nat : j = m + 1 /\ j \in S
    BY <1>6
  <2>2. j..top \in All
    BY <2>1 DEF All
  <2>3. j..top \subseteq m..top /\ m \in m..top /\ m \notin j..top
    BY <2>1
  <2>4. <<j..top, m..top>> \in R
    BY <2>3 DEF R, StrictSubsetOrdering
  <2>5. QED
    BY <1>4, <1>5, <2>2, <2>4
<1>7. QED
  BY <1>6

LEMMA Quotient ==
    ASSUME NEW c \in Nat, NEW s \in Nat \ {0}, NEW q \in Nat, q * s <= c, c < q * s + s
    PROVE  c \div s = q
OBVIOUS

\* div_ceil is the least number of pieces of length s that cover c.
LEMMA CeilFacts ==
    ASSUME NEW c \in Nat, NEW s \in Nat \ {0}
    PROVE  /\ div_ceil(c, s) \in Nat
           /\ c <= div_ceil(c, s) * s /\ div_ceil(c, s) * s < c + s
<1> DEFINE d == c + s - 1
           q == d \div s
<1>1. d \in Nat
  OBVIOUS
<1> HIDE DEF d
<1>2. q \in Nat /\ d = (q * s) + (d % s) /\ d % s \in 0..s - 1
  BY <1>1
<1>3. q * s \in Nat
  BY <1>2
<1> HIDE DEF q
<1>4. c <= q * s /\ q * s < c + s
  BY <1>1, <1>2, <1>3 DEF d
<1>5. QED
  BY <1>2, <1>4 DEF d, q, div_ceil

\* And the only one.
LEMMA CeilIs ==
    ASSUME NEW c \in Nat, NEW s \in Nat \ {0}, NEW q \in Nat, c <= q * s, q * s < c + s
    PROVE  div_ceil(c, s) = q
<1>1. PICK d \in Nat : d = c + s - 1
  OBVIOUS
<1>2. q * s \in Nat
  OBVIOUS
<1>3. q * s <= d /\ d < q * s + s
  BY <1>1, <1>2
<1>4. d \div s = q
  BY <1>3, Quotient
<1>5. QED
  BY <1>1, <1>4 DEF div_ceil

-----------------------------------------------------------------------------
(* Powers of two                                                           *)

LEMMA Bits ==
    /\ bit[0] = 1
    /\ \A k \in 0..BITS : bit[k] \in Nat \ {0}
    /\ \A k \in 0..BITS - 1 : bit[k + 1] = 2 * bit[k]
<1> DEFINE Doubles(k, f) == f = [j \in 0..k |-> IF j = 0 THEN 1 ELSE 2 * f[j - 1]]
           S == {k \in 0..BITS : \E f : Doubles(k, f)}
<1>1. 0 \in S
  <2>1. Doubles(0, [j \in 0..0 |-> 1])
    OBVIOUS
  <2> HIDE DEF Doubles
  <2>2. QED
    BY <2>1
<1>2. ASSUME NEW k \in S, k < BITS PROVE k + 1 \in S
  <2>1. PICK f : Doubles(k, f)
    OBVIOUS
  <2>2. PICK m \in 1..BITS : m = k + 1 /\ k = m - 1 /\ k \in Nat
    BY <1>2
  <2> DEFINE g == [j \in 0..m |-> IF j = m THEN 2 * f[k] ELSE f[j]]
  <2>3. \A j \in 0..k : g[j] = f[j]
    BY <2>2
  <2>4. ASSUME NEW j \in 0..m PROVE g[j] = IF j = 0 THEN 1 ELSE 2 * g[j - 1]
    <3>1. CASE j = m
      <4>1. g[j] = 2 * f[k] /\ j # 0 /\ j - 1 = k /\ k \in 0..k
        BY <2>2, <3>1
      <4> HIDE DEF g
      <4>2. QED
        BY <2>3, <4>1
    <3>2. CASE j # m
      <4>1. j \in 0..k /\ (j # 0 => j - 1 \in 0..k)
        BY <2>2, <3>2
      <4> HIDE DEF g
      <4>2. f[j] = IF j = 0 THEN 1 ELSE 2 * f[j - 1]
        BY <2>1, <4>1
      <4>3. QED
        BY <2>3, <4>1, <4>2
    <3>3. QED
      BY <3>1, <3>2
  <2>5. Doubles(m, g)
    <3> DEFINE e(j) == IF j = 0 THEN 1 ELSE 2 * g[j - 1]
    <3>1. \A j \in 0..m : g[j] = e(j)
      BY <2>4
    <3>2. g = [j \in 0..m |-> g[j]]
      OBVIOUS
    <3> HIDE DEF g
    <3>3. [j \in 0..m |-> g[j]] = [j \in 0..m |-> e(j)]
      BY <3>1
    <3>4. QED
      BY <3>2, <3>3
  <2> HIDE DEF Doubles, g
  <2>6. \E f2 : Doubles(m, f2)
    BY <2>5
  <2>7. QED
    BY <2>2, <2>6
<1>3. BITS \in S
  <2> HIDE DEF S
  <2>1. S \in SUBSET (0..BITS) /\ BITS \in Nat
    BY DEF S
  <2>2. QED
    BY <1>1, <1>2, <2>1, Forwards
<1>4. Doubles(BITS, bit)
  <2>1. PICK f : Doubles(BITS, f)
    BY <1>3
  <2>2. bit = CHOOSE g : g = [j \in 0..BITS |-> IF j = 0 THEN 1 ELSE 2 * g[j - 1]]
    BY Zenon DEF bit
  <2>3. QED
    BY <2>1, <2>2
<1> HIDE DEF S
<1>5. \A j \in 0..BITS : bit[j] = IF j = 0 THEN 1 ELSE 2 * bit[j - 1]
  BY <1>4
<1> HIDE DEF Doubles
<1>6. 0 \in 0..BITS /\ \A k \in 0..BITS - 1 : k + 1 \in 0..BITS /\ k + 1 # 0 /\ (k + 1) - 1 = k
  OBVIOUS
<1>7. bit[0] = 1 /\ \A k \in 0..BITS - 1 : bit[k + 1] = 2 * bit[k]
  BY <1>5, <1>6
<1> DEFINE N == {k \in 0..BITS : \A j \in 0..k : bit[j] \in Nat \ {0}}
<1>8. 0 \in N
  BY <1>7
<1>9. ASSUME NEW k \in N, k < BITS PROVE k + 1 \in N
  <2>1. bit[k] \in Nat \ {0} /\ k \in 0..BITS - 1
    BY <1>9
  <2>2. bit[k + 1] = 2 * bit[k]
    BY <1>7, <2>1
  <2>3. bit[k + 1] \in Nat \ {0}
    BY <2>1, <2>2
  <2>4. \A j \in 0..k + 1 : j \in 0..k \/ j = k + 1
    BY <2>1
  <2>5. QED
    BY <2>1, <2>3, <2>4
<1>10. BITS \in N
  <2> HIDE DEF N
  <2>1. N \in SUBSET (0..BITS) /\ BITS \in Nat
    BY DEF N
  <2>2. QED
    BY <1>8, <1>9, <2>1, Forwards
<1>11. QED
  BY <1>7, <1>10

\* Each is at least twice as large as the ones before it.
LEMMA BitsGrow ==
    ASSUME NEW j \in 0..BITS, NEW k \in 0..BITS, j < k
    PROVE  2 * bit[j] <= bit[k]
<1> DEFINE S == {i \in 0..k : i > j => 2 * bit[j] <= bit[i]}
<1>1. 0 \in S /\ S \in SUBSET (0..k) /\ k \in Nat
  OBVIOUS
<1>2. ASSUME NEW i \in S, i < k PROVE i + 1 \in S
  <2>1. i \in 0..BITS - 1 /\ i + 1 \in 0..k
    BY <1>2
  <2>2. bit[i + 1] = 2 * bit[i] /\ bit[i] \in Nat /\ bit[j] \in Nat
    BY <2>1, Bits
  <2>3. i + 1 > j => i = j \/ 2 * bit[j] <= bit[i]
    BY <2>1
  <2>4. i + 1 > j => 2 * bit[j] <= bit[i + 1]
    BY <2>2, <2>3
  <2>5. QED
    BY <2>1, <2>4
<1>3. k \in S
  <2> HIDE DEF S
  <2>1. QED
    BY <1>1, <1>2, Forwards
<1>4. QED
  BY <1>3

\* The first power is one, and three on from any is eight times as much.
LEMMA Eighth ==
    ASSUME NEW k \in 0..BITS - 3
    PROVE  /\ bit[k] \in Nat \ {0} /\ bit[k + 1] = 2 * bit[k]
           /\ bit[k + 2] = 4 * bit[k] /\ bit[k + 3] = 8 * bit[k]
<1>1. k \in 0..BITS - 1 /\ k + 1 \in 0..BITS - 1 /\ k + 2 \in 0..BITS - 1
      /\ (k + 1) + 1 = k + 2 /\ (k + 2) + 1 = k + 3 /\ k \in 0..BITS
  OBVIOUS
<1>2. bit[k + 1] = 2 * bit[k] /\ bit[k + 2] = 2 * bit[k + 1] /\ bit[k + 3] = 2 * bit[k + 2]
  BY <1>1, Bits
<1>3. bit[k] \in Nat \ {0}
  BY <1>1, Bits
<1>4. QED
  BY <1>2, <1>3

LEMMA MagnitudeIs ==
    ASSUME NEW m \in 0..BITS - 1, NEW c \in Nat, bit[m] <= c, c < bit[m + 1]
    PROVE  magnitude(c) = m
<1>1. ASSUME NEW i \in 0..BITS - 1, bit[i] <= c, c < bit[i + 1], NEW j \in 0..BITS - 1,
             bit[j] <= c, c < bit[j + 1], i < j
      PROVE  FALSE
  <2>1. i + 1 \in 0..BITS /\ j \in 0..BITS /\ bit[i + 1] \in Nat \ {0} /\ bit[j] \in Nat \ {0}
    BY Bits
  <2>2. i + 1 = j \/ 2 * bit[i + 1] <= bit[j]
    BY <1>1, <2>1, BitsGrow
  <2>3. QED
    BY <1>1, <2>1, <2>2
<1>2. ASSUME NEW i \in 0..BITS - 1, bit[i] <= c, c < bit[i + 1] PROVE i = m
  BY <1>1, <1>2
<1>3. QED
  BY <1>2 DEF magnitude

\* A count below a power of two lies between two that are next to each other.
LEMMA Between ==
    ASSUME NEW top \in 1..BITS, NEW c \in Nat \ {0}, c < bit[top]
    PROVE  \E m \in 0..top - 1 : bit[m] <= c /\ c < bit[m + 1]
<1> SUFFICES ASSUME \A m \in 0..top - 1 : bit[m] <= c => ~ (c < bit[m + 1])
             PROVE  FALSE
  OBVIOUS
<1> DEFINE S == {k \in 0..top : bit[k] <= c}
<1>1. 0 \in S /\ S \in SUBSET (0..top) /\ top \in Nat
  BY Bits
<1>2. ASSUME NEW k \in S, k < top PROVE k + 1 \in S
  <2>1. k \in 0..top - 1 /\ k + 1 \in 0..top /\ k + 1 \in 0..BITS
    BY <1>2
  <2>2. ~ (c < bit[k + 1]) /\ bit[k + 1] \in Nat
    BY <2>1, Bits
  <2>3. QED
    BY <2>1, <2>2
<1>3. top \in S
  <2> HIDE DEF S
  <2>1. QED
    BY <1>1, <1>2, Forwards
<1>4. bit[top] \in Nat
  BY Bits
<1>5. QED
  BY <1>3, <1>4

\* A count of four or more lies between four times a power of two and eight.
LEMMA Spacing ==
    ASSUME NEW top \in 3..BITS, NEW c \in Nat, 4 <= c, c < bit[top]
    PROVE  \E k \in 0..top - 3 : 4 * bit[k] <= c /\ c < 8 * bit[k]
<1>1. PICK m \in 0..top - 1 : bit[m] <= c /\ c < bit[m + 1]
  BY Between
<1>2. bit[0] = 1 /\ bit[0 + 1] = 2 * bit[0] /\ bit[0 + 2] = 4 * bit[0]
  BY Eighth, Bits
<1>3. m # 0 /\ m # 1
  BY <1>1, <1>2
<1>4. PICK k \in 0..top - 3 : k + 2 = m /\ k + 3 = m + 1
  BY <1>3
<1>5. bit[m] = 4 * bit[k] /\ bit[m + 1] = 8 * bit[k]
  BY <1>4, Eighth
<1>6. QED
  BY <1>1, <1>5

-----------------------------------------------------------------------------
(* Counts of granules                                                      *)

\* sized and class_of, in granules.
Rounded(c) ==
    LET step == bit[magnitude(c) - 2] IN IF c <= STEPS THEN c ELSE div_ceil(c, step) * step

Rank(c) ==
    LET m == magnitude(c) IN
    IF c <= STEPS THEN c - 1 ELSE STEPS - 1 + (m - 2) * STEPS + (c - bit[m]) \div bit[m - 2]

LEMMA Spaced ==
    ASSUME NEW k \in 0..BITS - 4, NEW c \in Nat, 4 * bit[k] <= c, c <= 8 * bit[k]
    PROVE  Rounded(c) = div_ceil(c, bit[k]) * bit[k]
<1>1. PICK s \in Nat \ {0} : s = bit[k] /\ bit[k + 1] = 2 * s /\ bit[k + 2] = 4 * s
                             /\ bit[k + 3] = 8 * s
  BY Eighth
<1>2. bit[(k + 3) + 1] = 16 * s
  <2>1. bit[(k + 1) + 3] = 8 * bit[k + 1]
    BY Eighth
  <2>2. (k + 1) + 3 = (k + 3) + 1
    OBVIOUS
  <2>3. QED
    BY <1>1, <2>1, <2>2
<1>3. CASE c <= 4
  <2>1. s = 1 /\ c = 4
    BY <1>1, <1>3
  <2>2. div_ceil(c, s) = 4
    BY <2>1, CeilIs
  <2>3. QED
    BY <1>1, <1>3, <2>1, <2>2 DEF Rounded, STEPS
<1>4. CASE c > 4 /\ c < 8 * s
  <2>1. (k + 2) \in 0..BITS - 1 /\ (k + 2) + 1 = k + 3 /\ (k + 2) - 2 = k
    OBVIOUS
  <2>2. magnitude(c) = k + 2
    BY <1>1, <1>4, <2>1, MagnitudeIs
  <2>3. QED
    BY <1>4, <2>1, <2>2 DEF Rounded, STEPS
<1>5. CASE c > 4 /\ c = 8 * s
  <2>1. (k + 3) \in 0..BITS - 1 /\ (k + 3) - 2 = k + 1
    OBVIOUS
  <2>2. magnitude(c) = k + 3
    BY <1>1, <1>2, <1>5, <2>1, MagnitudeIs
  <2>3. PICK d \in Nat \ {0} : d = 2 * s
    BY <1>1
  <2>4. div_ceil(c, s) = 8
    BY <1>5, CeilIs
  <2>5. div_ceil(c, d) = 4
    BY <1>5, <2>3, CeilIs
  <2>6. Rounded(c) = div_ceil(c, d) * d
    BY <1>1, <1>5, <2>1, <2>2, <2>3 DEF Rounded, STEPS
  <2>7. QED
    BY <1>1, <2>3, <2>4, <2>5, <2>6
<1>6. QED
  BY <1>1, <1>3, <1>4, <1>5

\* The multiples of a spacing, from the fourth to the eighth, are class sizes,
\* one after the other.
LEMMA Ranked ==
    ASSUME NEW k \in 0..BITS - 4, NEW q \in 4..8
    PROVE  /\ Rounded(q * bit[k]) = q * bit[k]
           /\ Rank(q * bit[k]) = 4 * k + q - 1
<1>1. PICK s \in Nat \ {0} : s = bit[k] /\ bit[k + 1] = 2 * s /\ bit[k + 2] = 4 * s
                             /\ bit[k + 3] = 8 * s
  BY Eighth
<1>2. bit[(k + 3) + 1] = 16 * s
  <2>1. bit[(k + 1) + 3] = 8 * bit[k + 1]
    BY Eighth
  <2>2. (k + 1) + 3 = (k + 3) + 1
    OBVIOUS
  <2>3. QED
    BY <1>1, <2>1, <2>2
<1>3. PICK c \in Nat : c = q * s
  OBVIOUS
<1>4. 4 * s <= c /\ c <= 8 * s
  BY <1>3
<1>5. div_ceil(c, s) = q
  BY <1>3, CeilIs
<1>6. Rounded(c) = c
  BY <1>1, <1>3, <1>4, <1>5, Spaced
<1>7. Rank(c) = 4 * k + q - 1
  <2>1. CASE c <= 4
    <3>1. s = 1 /\ c = 4 /\ q = 4
      BY <1>3, <1>4, <2>1
    <3>2. k = 0
      <4>1. 0 < k => 2 * bit[0] <= bit[k]
        BY BitsGrow
      <4>2. QED
        BY <1>1, <3>1, <4>1, Bits
    <3>3. QED
      BY <3>1, <3>2 DEF Rank, STEPS
  <2>2. CASE c > 4 /\ q < 8
    <3>1. (k + 2) \in 0..BITS - 1 /\ (k + 2) + 1 = k + 3 /\ (k + 2) - 2 = k
      OBVIOUS
    <3>2. c < 8 * s
      BY <1>3, <2>2
    <3>3. magnitude(c) = k + 2
      BY <1>1, <1>4, <3>1, <3>2, MagnitudeIs
    <3>4. PICK r \in Nat : r = q - 4
      OBVIOUS
    <3>5. c - 4 * s \in Nat /\ c - 4 * s = r * s
      BY <1>3, <1>4, <3>4
    <3>6. (c - 4 * s) \div s = r
      BY <3>5, Quotient
    <3>7. Rank(c) = 4 - 1 + k * 4 + (c - 4 * s) \div s
      BY <1>1, <2>2, <3>1, <3>3 DEF Rank, STEPS
    <3>8. QED
      BY <3>4, <3>6, <3>7
  <2>3. CASE c > 4 /\ q = 8
    <3>1. (k + 3) \in 0..BITS - 1 /\ (k + 3) - 2 = k + 1
      OBVIOUS
    <3>2. c = 8 * s
      BY <1>3, <2>3
    <3>3. magnitude(c) = k + 3
      BY <1>1, <1>2, <3>1, <3>2, MagnitudeIs
    <3>4. PICK d \in Nat \ {0} : d = 2 * s
      BY <1>1
    <3>5. (c - 8 * s) \div d = 0
      BY <3>2, Quotient
    <3>6. Rank(c) = 4 - 1 + (k + 1) * 4 + (c - 8 * s) \div d
      BY <1>1, <2>3, <3>1, <3>3, <3>4 DEF Rank, STEPS
    <3>7. QED
      BY <2>3, <3>5, <3>6
  <2>4. QED
    BY <1>3, <2>1, <2>2, <2>3
<1>8. QED
  BY <1>1, <1>3, <1>6, <1>7

\* How many granules the largest request that is let through takes.
Most == bit[BITS - 6]

LEMMA Small ==
    ASSUME NEW c \in 1..4
    PROVE  Rounded(c) = c /\ Rank(c) = c - 1
BY DEF Rounded, Rank, STEPS

\* The spacing that a count is rounded at, and to which multiple.
LEMMA Piece ==
    ASSUME NEW c \in Nat, 4 <= c, c <= Most
    PROVE  \E k \in 0..BITS - 8 :
             4 * bit[k] <= c /\ c < 8 * bit[k] /\ div_ceil(c, bit[k]) \in 4..8
<1>1. Most \in Nat \ {0} /\ bit[BITS - 5] = 2 * Most
  <2>1. BITS - 6 \in 0..BITS - 3 /\ (BITS - 6) + 1 = BITS - 5
    OBVIOUS
  <2>2. QED
    BY <2>1, Eighth DEF Most
<1>2. c < bit[BITS - 5] /\ BITS - 5 \in 3..BITS /\ (BITS - 5) - 3 = BITS - 8
  BY <1>1
<1>3. PICK k \in 0..BITS - 8 : 4 * bit[k] <= c /\ c < 8 * bit[k]
  BY <1>2, Spacing
<1>4. PICK s \in Nat \ {0} : s = bit[k]
  BY Bits
<1>5. PICK q \in Nat : q = div_ceil(c, s) /\ c <= q * s /\ q * s < c + s
  BY CeilFacts
<1>6. 4 <= q /\ q <= 8
  <2>1. ASSUME q < 4 PROVE FALSE
    <3>1. q * s <= 3 * s
      BY <2>1
    <3>2. QED
      BY <1>3, <1>4, <1>5, <3>1
  <2>2. ASSUME q > 8 PROVE FALSE
    <3>1. q * s >= 9 * s
      BY <2>2
    <3>2. QED
      BY <1>3, <1>4, <1>5, <3>1
  <2>3. QED
    BY <2>1, <2>2
<1>7. QED
  BY <1>3, <1>4, <1>5, <1>6

LEMMA Rounds ==
    ASSUME NEW c \in Nat \ {0}, c <= Most
    PROVE  /\ Rounded(c) \in Nat \ {0}
           /\ c <= Rounded(c) /\ Rounded(c) <= Most
           /\ Rounded(Rounded(c)) = Rounded(c)
           /\ 4 * (Rounded(c) - c) < Rounded(c)
           /\ Rank(Rounded(c)) \in 0..CLASSES - 1
<1>1. CLASSES = 4 * BITS - 9
  BY DEF CLASSES, STEPS
<1>2. CASE c <= 4
  <2>1. Rounded(c) = c /\ Rank(c) = c - 1
    BY <1>2, Small
  <2>2. QED
    BY <1>1, <1>2, <2>1
<1>3. CASE c > 4
  <2>1. PICK k \in 0..BITS - 8 :
             4 * bit[k] <= c /\ c < 8 * bit[k] /\ div_ceil(c, bit[k]) \in 4..8
    BY <1>3, Piece
  <2>2. PICK s \in Nat \ {0} : s = bit[k] /\ bit[k + 2] = 4 * s /\ bit[k + 3] = 8 * s
    BY Eighth
  <2>3. PICK q \in 4..8 : q = div_ceil(c, s) /\ c <= q * s /\ q * s < c + s
    BY <2>1, <2>2, CeilFacts
  <2>4. Rounded(c) = q * s
    BY <2>1, <2>2, <2>3, Spaced
  <2>5. Rounded(q * s) = q * s /\ Rank(q * s) = 4 * k + q - 1
    BY <2>2, Ranked
  <2>6. q * s <= Most
    <3>1. CASE k = BITS - 8
      <4>1. k + 2 = BITS - 6
        BY <3>1
      <4>2. Most = 4 * s
        BY <2>2, <4>1 DEF Most
      <4>3. c = 4 * s
        BY <2>1, <2>2, <4>2
      <4>4. q * s < 5 * s
        BY <2>2, <2>3, <4>3
      <4>5. q = 4
        BY <2>2, <4>4
      <4>6. QED
        BY <4>2, <4>5
    <3>2. CASE k # BITS - 8
      <4>1. k + 3 \in 0..BITS /\ BITS - 6 \in 0..BITS /\ (k + 3 = BITS - 6 \/ k + 3 < BITS - 6)
        BY <3>2
      <4>2. bit[k + 3] \in Nat /\ bit[BITS - 6] \in Nat
        BY <4>1, Bits
      <4>3. bit[k + 3] <= Most
        BY <4>1, <4>2, BitsGrow DEF Most
      <4>4. q * s <= 8 * s
        OBVIOUS
      <4>5. QED
        BY <2>2, <4>2, <4>3, <4>4 DEF Most
    <3>3. QED
      BY <3>1, <3>2
  <2>7. 4 * (q * s - c) < q * s
    <3>1. 4 * s <= q * s /\ q * s \in Nat
      OBVIOUS
    <3>2. QED
      BY <2>3, <3>1
  <2>8. PICK r \in Nat : r = q * s
    OBVIOUS
  <2>9. 4 * k + q - 1 \in 0..CLASSES - 1
    BY <1>1
  <2>10. QED
    BY <2>3, <2>4, <2>5, <2>6, <2>7, <2>8, <2>9
<1>4. QED
  BY <1>2, <1>3

\* One granule more is the same class or the next one.
LEMMA NextRung ==
    ASSUME NEW c \in Nat \ {0}, c + 1 <= Most
    PROVE  \/ Rounded(c + 1) = Rounded(c)
           \/ Rounded(c + 1) > Rounded(c) /\ Rank(Rounded(c + 1)) = Rank(Rounded(c)) + 1
<1>1. Most \in Nat
  BY Bits DEF Most
<1>2. CASE c < 4
  <2>1. c \in 1..4 /\ c + 1 \in 1..4
    BY <1>2
  <2>2. Rounded(c) = c /\ Rank(c) = c - 1 /\ Rounded(c + 1) = c + 1 /\ Rank(c + 1) = (c + 1) - 1
    BY <2>1, Small
  <2>3. QED
    BY <2>2
<1>3. CASE c >= 4
  <2>1. PICK k \in 0..BITS - 8 :
             4 * bit[k] <= c /\ c < 8 * bit[k] /\ div_ceil(c, bit[k]) \in 4..8
    BY <1>1, <1>3, Piece
  <2>2. PICK s \in Nat \ {0} : s = bit[k]
    BY Bits
  <2>3. PICK q \in 4..8 : q = div_ceil(c, s) /\ c <= q * s /\ q * s < c + s
    BY <2>1, <2>2, CeilFacts
  <2>4. PICK d \in Nat \ {0} : d = c + 1 /\ 4 * s <= d /\ d <= 8 * s
    BY <2>1, <2>2
  <2>5. Rounded(c) = q * s /\ Rounded(d) = div_ceil(d, s) * s
    BY <2>1, <2>2, <2>3, <2>4, Spaced
  <2>6. Rank(q * s) = 4 * k + q - 1
    BY <2>2, Ranked
  <2>7. CASE d <= q * s
    <3>1. div_ceil(d, s) = q
      BY <2>3, <2>4, <2>7, CeilIs
    <3>2. QED
      BY <2>4, <2>5, <3>1
  <2>8. CASE ~ (d <= q * s)
    <3>1. c = q * s
      BY <2>3, <2>4, <2>8
    <3>2. PICK p \in 5..9 : p = q + 1
      OBVIOUS
    <3>3. p * s = c + s
      BY <3>1, <3>2
    <3>4. div_ceil(d, s) = p
      BY <2>4, <3>3, CeilIs
    <3>5. p \in 4..8
      <4>1. ASSUME p = 9 PROVE FALSE
        BY <2>4, <3>1, <3>2, <4>1
      <4>2. QED
        BY <4>1
    <3>6. Rank(p * s) = 4 * k + p - 1
      BY <2>2, <3>5, Ranked
    <3>7. Rounded(d) = p * s /\ p * s > q * s
      BY <2>5, <3>1, <3>3, <3>4
    <3>8. QED
      BY <2>4, <2>5, <2>6, <3>2, <3>6, <3>7
  <2>9. QED
    BY <2>7, <2>8
<1>4. QED
  BY <1>2, <1>3

-----------------------------------------------------------------------------
(* Requests in bytes                                                       *)

\* The granules a request takes.
Count(size) == IF size = 0 THEN 1 ELSE div_ceil(size, GRANULE)

LEMMA CountFacts ==
    ASSUME NEW size \in Nat
    PROVE  /\ Count(size) \in Nat \ {0}
           /\ size <= Count(size) * 16
           /\ size # 0 => Count(size) * 16 < size + 16 /\ payload(size) = Count(size) * 16
           /\ size = 0 => Count(size) = 1
<1>1. CASE size = 0
  BY <1>1 DEF Count
<1>2. CASE size # 0
  <2>1. /\ div_ceil(size, 16) \in Nat
        /\ size <= div_ceil(size, 16) * 16 /\ div_ceil(size, 16) * 16 < size + 16
    BY CeilFacts
  <2>2. QED
    BY <1>2, <2>1 DEF Count, payload, GRANULE
<1>3. QED
  BY <1>1, <1>2

LEMMA SizedRounds ==
    ASSUME NEW size \in Nat
    PROVE  sized(size) = Rounded(Count(size)) * 16
<1>1. PICK c \in Nat \ {0} : c = Count(size)
  BY CountFacts
<1>2. (IF size = 0 THEN GRANULE ELSE payload(size)) = c * 16
  BY <1>1, CountFacts DEF GRANULE
<1>3. (c * 16) \div 16 = c
  BY Quotient
<1>4. QED
  BY <1>1, <1>2, <1>3 DEF sized, Rounded, GRANULE

LEMMA ClassOfRank ==
    ASSUME NEW c \in Nat
    PROVE  class_of(c * 16) = Rank(c)
<1>1. (c * 16) \div 16 = c
  BY Quotient
<1>2. QED
  BY <1>1 DEF class_of, Rank, GRANULE

\* A class size is its own count.
LEMMA CountOfSixteens ==
    ASSUME NEW c \in Nat \ {0}
    PROVE  Count(c * 16) = c
<1>1. PICK size \in Nat \ {0} : size = c * 16
  OBVIOUS
<1>2. div_ceil(size, 16) = c
  BY <1>1, CeilIs
<1>3. QED
  BY <1>1, <1>2 DEF Count, GRANULE

\* What needed lets through takes no more than Most granules.
LEMMA Needed ==
    ASSUME NEW size \in Nat, size <= MAX \div 4
    PROVE  Count(size) <= Most
<1>1. PICK e \in Nat \ {0} : e = Most /\ bit[BITS - 3] = 8 * e
  <2>1. BITS - 6 \in 0..BITS - 3 /\ (BITS - 6) + 3 = BITS - 3
    OBVIOUS
  <2>2. QED
    BY <2>1, Eighth DEF Most
<1>2. bit[BITS] = 64 * e
  <2>1. BITS - 3 \in 0..BITS - 3 /\ (BITS - 3) + 3 = BITS
    OBVIOUS
  <2>2. bit[BITS] = 8 * bit[BITS - 3]
    BY <2>1, Eighth
  <2>3. QED
    BY <1>1, <2>2
<1>3. MAX = 64 * e - 1
  BY <1>2 DEF MAX
<1>4. size <= 16 * e - 1
  BY <1>3
<1>5. PICK c \in Nat \ {0} : c = Count(size) /\ (size # 0 => c * 16 < size + 16)
                             /\ (size = 0 => c = 1)
  BY CountFacts
<1>6. QED
  BY <1>1, <1>4, <1>5

-----------------------------------------------------------------------------
(* The theorems                                                            *)

LEMMA SizeHolds ==
    ASSUME NEW n \in Requests
    PROVE  n \notin Misfiled /\ n \notin Wasteful /\ n \notin Overlong /\ n \notin OffLadder
<1>1. n \in Nat /\ n <= MAX \div 4
  BY Bits DEF Requests, MAX
<1>2. PICK c \in Nat \ {0} : c = Count(n) /\ c <= Most /\ n <= c * 16
                             /\ (n # 0 => c * 16 < n + 16 /\ payload(n) = c * 16)
  BY <1>1, CountFacts, Needed
<1>3. PICK r \in Nat \ {0} : /\ r = Rounded(c) /\ c <= r /\ r <= Most /\ Rounded(r) = r
                             /\ 4 * (r - c) < r /\ Rank(r) \in 0..CLASSES - 1
  BY <1>2, Rounds
<1>4. sized(n) = r * 16
  BY <1>1, <1>2, <1>3, SizedRounds
<1>5. n \notin Misfiled
  <2>1. sized(r * 16) = r * 16
    BY <1>3, SizedRounds, CountOfSixteens
  <2>2. r * 16 >= n
    BY <1>1, <1>2, <1>3
  <2>3. sized(sized(n)) = sized(n) /\ ~ (sized(n) < n)
    BY <1>1, <1>4, <2>1, <2>2
  <2>4. QED
    BY <2>3 DEF Misfiled
<1>6. n \notin Wasteful
  <2>1. SUFFICES ASSUME n > 0
                 PROVE  4 * (r * 16 - c * 16) < r * 16 /\ (c * 16 <= 64 => r = c)
    BY <1>1, <1>2, <1>4 DEF Wasteful, STEPS, GRANULE
  <2>2. c * 16 <= 64 => c \in 1..4
    OBVIOUS
  <2>3. QED
    BY <1>3, <2>2, Small
<1>7. n \notin Overlong
  <2>1. PICK e \in Nat \ {0} : e = Most /\ bit[BITS - 3] = 8 * e
    <3>1. BITS - 6 \in 0..BITS - 3 /\ (BITS - 6) + 3 = BITS - 3
      OBVIOUS
    <3>2. QED
      BY <3>1, Eighth DEF Most
  <2>2. bit[BITS] = 64 * e
    <3>1. BITS - 3 \in 0..BITS - 3 /\ (BITS - 3) + 3 = BITS
      OBVIOUS
    <3>2. bit[BITS] = 8 * bit[BITS - 3]
      BY <3>1, Eighth
    <3>3. QED
      BY <2>1, <3>2
  <2>3. e >= 4
    <3>1. bit[0] = 1 /\ bit[0 + 2] = 4 * bit[0]
      BY Bits, Eighth
    <3>2. BITS - 6 = 2 \/ 2 * bit[2] <= bit[BITS - 6]
      BY BitsGrow
    <3>3. QED
      BY <2>1, <3>1, <3>2 DEF Most
  <2>4. payload(r * 16) = r * 16
    <3>1. div_ceil(r * 16, 16) = r
      BY CeilIs
    <3>2. QED
      BY <3>1 DEF payload, GRANULE
  <2>5. aux(r * 16) = r * 32
    <3>1. PICK size \in Nat : size = r * 16
      OBVIOUS
    <3>2. PICK d \in Nat : d = r * 2
      OBVIOUS
    <3>3. div_ceil(size, 8) = d
      BY <3>1, <3>2, CeilIs
    <3>4. QED
      BY <2>4, <3>1, <3>2, <3>3 DEF aux
  <2>6. block(r * 16) = 32 + r * 48
    BY <2>4, <2>5 DEF block, HEADER_BYTES
  <2>7. 32 + r * 48 <= 64 * e - 1
    BY <1>3, <2>1, <2>3
  <2>8. QED
    BY <1>4, <2>2, <2>6, <2>7 DEF Overlong, MAX
<1>8. n \notin OffLadder
  <2>1. class_of(sized(n)) \in 0..CLASSES - 1
    BY <1>3, <1>4, ClassOfRank
  <2>2. ASSUME n > 0
        PROVE  \/ sized(n) = sized(n - 1)
               \/ sized(n) > sized(n - 1) /\ class_of(sized(n)) = class_of(sized(n - 1)) + 1
    <3>1. PICK m \in Nat : m = n - 1 /\ n = m + 1 /\ m <= MAX \div 4
      BY <1>1, <2>2, Bits DEF MAX
    <3>2. PICK b \in Nat \ {0} : b = Count(m) /\ b <= Most /\ m <= b * 16
                                 /\ (m # 0 => b * 16 < m + 16) /\ (m = 0 => b = 1)
      BY <3>1, CountFacts, Needed
    <3>3. PICK p \in Nat \ {0} : p = Rounded(b)
      BY <3>2, Rounds
    <3>4. sized(m) = p * 16
      BY <3>2, <3>3, SizedRounds
    <3>5. b = c \/ b + 1 = c
      BY <1>1, <1>2, <2>2, <3>1, <3>2
    <3>6. CASE b = c
      BY <1>3, <1>4, <3>1, <3>3, <3>4, <3>6
    <3>7. CASE b + 1 = c
      <4>1. r = p \/ (r > p /\ Rank(r) = Rank(p) + 1)
        BY <1>2, <1>3, <3>3, <3>7, NextRung
      <4>2. r > p => r * 16 > p * 16
        OBVIOUS
      <4>3. class_of(r * 16) = Rank(r) /\ class_of(p * 16) = Rank(p)
        BY ClassOfRank
      <4>4. QED
        BY <1>4, <3>1, <3>4, <4>1, <4>2, <4>3
    <3>8. QED
      BY <3>5, <3>6, <3>7
  <2>3. ASSUME n > 0, sized(n) > sized(n - 1) PROVE ~ (sized(n) < sized(n - 1))
    <3>1. sized(n) \in Nat /\ sized(n - 1) \in Nat
      <4>1. PICK m \in Nat : m = n - 1 /\ m <= MAX \div 4
        BY <1>1, <2>3, Bits DEF MAX
      <4>2. PICK b \in Nat \ {0} : b = Count(m) /\ b <= Most
        BY <4>1, CountFacts, Needed
      <4>3. QED
        BY <1>4, <4>1, <4>2, Rounds, SizedRounds
    <3>2. QED
      BY <2>3, <3>1
  <2>4. QED
    BY <1>1, <2>1, <2>2, <2>3 DEF OffLadder
<1>9. QED
  BY <1>5, <1>6, <1>7, <1>8

\* heap.rs sized and class_of: every request that is let through has a free
\* list of the table, and the lists are a ladder: no rung missing, none used
\* twice, whatever the width of a usize.
THEOREM ClassesAreALadder == Spec => []Ladder
<1>1. OffLadder = {}
  BY SizeHolds DEF OffLadder
<1>2. Ladder
  BY <1>1 DEF Ladder
<1>3. QED
  BY <1>2, PTL

\* heap.rs sized: a payload read back from a header names its own list.
THEOREM ClassIsFoundAgain == Spec => []Refound
<1>1. Misfiled = {}
  BY SizeHolds DEF Misfiled
<1>2. Refound
  BY <1>1 DEF Refound
<1>3. QED
  BY <1>2, PTL

\* heap.rs STEPS: rounding to a class wastes less than a quarter of a payload.
THEOREM WasteIsCapped == Spec => []WasteCapped
<1>1. Wasteful = {}
  BY SizeHolds DEF Wasteful
<1>2. WasteCapped
  BY <1>1 DEF WasteCapped
<1>3. QED
  BY <1>2, PTL

\* alloc.rs needed: no sum on the way to a block overflows a usize.
THEOREM BlocksFit == Spec => []BlockFits
<1>1. Overlong = {}
  BY SizeHolds DEF Overlong
<1>2. BlockFits
  BY <1>1 DEF BlockFits
<1>3. QED
  BY <1>2, PTL

=============================================================================
