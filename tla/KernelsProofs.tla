--------------------------- MODULE KernelsProofs ---------------------------
(***************************************************************************)
(* Theorems about Kernels for every kernel, size and number of workers:    *)
(* iterations that may run at the same time share no cell, the scan and    *)
(* the transposition compute what they are named for, and no iteration     *)
(* leaves the data, but in a transposition whose parts do not fit.         *)
(***************************************************************************)
EXTENDS Kernels, OperatorProofs

-----------------------------------------------------------------------------
(* Powers of two.                                                          *)

\* One more element doubles the subsets of a set.
LEMMA PowerStep == ASSUME NEW k \in Nat PROVE 2 ^ (k + 1) = 2 ^ k + 2 ^ k
<1> DEFINE S == 1 .. k
           A == SUBSET S
           B == {s \cup {k + 1} : s \in A}
           g == [s \in A |-> s \cup {k + 1}]
<1>1. IsFiniteSet(S) /\ Cardinality(S) = k
  <2>1. 1 \in Int /\ k \in Int /\ (IF 1 > k THEN 0 ELSE k - 1 + 1) = k
    OBVIOUS
  <2>2. IsFiniteSet(S) /\ Cardinality(S) = IF 1 > k THEN 0 ELSE k - 1 + 1
    BY ONLY <2>1, FS_Interval
  <2> QED BY ONLY <2>1, <2>2
<1>2. IsFiniteSet(1 .. k + 1) /\ Cardinality(1 .. k + 1) = k + 1
  <2>1. 1 \in Int /\ k + 1 \in Int /\ (IF 1 > k + 1 THEN 0 ELSE k + 1 - 1 + 1) = k + 1
    OBVIOUS
  <2>2. IsFiniteSet(1 .. k + 1) /\ Cardinality(1 .. k + 1) = IF 1 > k + 1 THEN 0 ELSE k + 1 - 1 + 1
    BY ONLY <2>1, FS_Interval
  <2> QED BY ONLY <2>1, <2>2
<1>3. IsFiniteSet(A) /\ Cardinality(A) = 2 ^ k
  <2> HIDE DEF S
  <2> QED BY <1>1, FS_SUBSET
<1>4. Cardinality(SUBSET (1 .. k + 1)) = 2 ^ (k + 1)
  BY <1>2, FS_SUBSET
<1>5. k + 1 \notin S /\ 1 .. k + 1 = S \cup {k + 1}
  OBVIOUS
<1>6. IsFiniteSet(B) /\ Cardinality(B) = Cardinality(A)
  <2>1. g \in [A -> B]
    OBVIOUS
  <2>2. ASSUME NEW s \in A, NEW t \in A, g[s] = g[t] PROVE s = t
    <3>1. s \cup {k + 1} = t \cup {k + 1} /\ s \subseteq S /\ t \subseteq S
      BY <2>2
    <3> HIDE DEF S
    <3> QED BY <1>5, <3>1
  <2>3. \A b \in B : \E s \in A : g[s] = b
    OBVIOUS
  <2> HIDE DEF g, A, B
  <2>4. g \in Bijection(A, B)
    BY <2>1, <2>2, <2>3 DEF Bijection, Injection, Surjection, IsInjective
  <2>5. ExistsBijection(A, B)
    BY <2>4 DEF ExistsBijection
  <2> QED BY <1>3, <2>5, FS_Bijection
<1>7. SUBSET (1 .. k + 1) = A \cup B
  <2>1. ASSUME NEW u \in SUBSET (1 .. k + 1) PROVE u \in A \cup B
    <3> HIDE DEF S
    <3>1. CASE k + 1 \in u
      <4>1. PICK s : s = u \ {k + 1}
        OBVIOUS
      <4>2. s \in A /\ u = s \cup {k + 1}
        BY <1>5, <3>1, <4>1
      <4> QED BY <4>2
    <3>2. CASE k + 1 \notin u
      BY <1>5, <3>2
    <3> QED BY <3>1, <3>2
  <2>2. ASSUME NEW u \in A \cup B PROVE u \in SUBSET (1 .. k + 1)
    <3> HIDE DEF S
    <3> QED BY <1>5
  <2> QED BY <2>1, <2>2
<1>8. A \cap B = {}
  <2> HIDE DEF S
  <2> QED BY <1>5
<1> HIDE DEF A, B
<1>9. Cardinality(A \cup B) = Cardinality(A) + Cardinality(B) - Cardinality(A \cap B)
  BY <1>3, <1>6, FS_Union
<1>10. Cardinality(A \cap B) = 0
  BY <1>8, FS_EmptySet
<1>11. PICK x, y : x = 2 ^ k /\ y = 2 ^ (k + 1) /\ x \in Nat
  <2>1. Cardinality(A) \in Nat
    BY <1>3, FS_CardinalityType
  <2> QED BY <1>3, <2>1
<1>12. Cardinality(A \cup B) = x + x - 0
  BY <1>3, <1>6, <1>9, <1>10, <1>11, Zenon
<1>13. Cardinality(A \cup B) = y
  BY <1>4, <1>7, <1>11, Zenon
<1>14. x + x - 0 = x + x
  BY ONLY <1>11
<1> QED BY ONLY <1>11, <1>12, <1>13, <1>14, Zenon

LEMMA Powers == /\ 2 ^ 0 = 1
                /\ \A k \in Nat : 2 ^ k \in Nat \ {0} /\ 2 ^ (k + 1) = 2 * 2 ^ k
<1>1. 2 ^ 0 = 1
  OBVIOUS
<1> DEFINE T == {k \in Nat : 2 ^ k \in Nat \ {0}}
<1>2. 0 \in T
  BY <1>1
<1>3. ASSUME NEW k \in Nat, k \in T PROVE k + 1 \in T
  <2>1. PICK x \in Nat \ {0} : x = 2 ^ k
    BY <1>3
  <2>2. PICK y : y = 2 ^ (k + 1)
    OBVIOUS
  <2>3. y = x + x
    BY <2>1, <2>2, PowerStep
  <2> QED BY <2>2, <2>3
<1>4. Nat \subseteq T
  <2> HIDE DEF T
  <2> QED BY <1>2, <1>3, Counting
<1>5. ASSUME NEW k \in Nat PROVE 2 ^ k \in Nat \ {0} /\ 2 ^ (k + 1) = 2 * 2 ^ k
  <2>1. PICK x \in Nat \ {0} : x = 2 ^ k
    BY <1>4
  <2>2. 2 ^ (k + 1) = x + x
    BY <2>1, PowerStep
  <2>3. x + x = 2 * x
    OBVIOUS
  <2> QED BY <2>1, <2>2, <2>3
<1> QED BY <1>1, <1>5

LEMMA PowerSum == ASSUME NEW a \in Nat, NEW b \in Nat PROVE 2 ^ (a + b) = 2 ^ a * 2 ^ b
<1> DEFINE T == {n \in Nat : 2 ^ (a + n) = 2 ^ a * 2 ^ n}
<1>1. 0 \in T
  <2>1. PICK x \in Nat : x = 2 ^ a
    BY Powers
  <2>2. a + 0 = a /\ x * 1 = x
    OBVIOUS
  <2>3. 2 ^ (a + 0) = 2 ^ a * 2 ^ 0
    BY ONLY <2>1, <2>2, Powers, Zenon
  <2> QED BY <2>3
<1>2. ASSUME NEW n \in Nat, n \in T PROVE n + 1 \in T
  <2>1. PICK x \in Nat, y \in Nat, z \in Nat : x = 2 ^ a /\ y = 2 ^ n /\ z = 2 ^ (a + n)
    <3>1. a + n \in Nat
      OBVIOUS
    <3> QED BY <3>1, Powers
  <2>2. z = x * y
    BY <1>2, <2>1
  <2>3. 2 ^ (n + 1) = 2 * y /\ 2 ^ (a + n + 1) = 2 * z
    <3>1. PICK m \in Nat : m = a + n
      OBVIOUS
    <3> QED BY <2>1, <3>1, Powers
  <2>4. a + (n + 1) = a + n + 1
    OBVIOUS
  <2>5. 2 * z = x * (2 * y)
    BY <2>2
  <2>6. 2 ^ (a + (n + 1)) = 2 ^ a * 2 ^ (n + 1)
    BY ONLY <2>1, <2>3, <2>4, <2>5, Zenon
  <2> QED BY <2>6
<1>3. Nat \subseteq T
  <2> HIDE DEF T
  <2> QED BY <1>1, <1>2, Counting
<1> QED BY <1>3

LEMMA CeilExact == ASSUME NEW m \in Nat, NEW w \in Nat \ {0} PROVE Ceil(w * m, w) = m
<1>1. PICK y \in Nat : y = w * m
  OBVIOUS
<1>2. PICK z \in Nat : z = y + w - 1
  BY <1>1
<1>3. PICK q \in Nat, r \in 0 .. w - 1 : q = z \div w /\ z = w * q + r
  <2>1. z \div w \in Nat /\ z % w \in 0 .. w - 1 /\ z = w * (z \div w) + (z % w)
    OBVIOUS
  <2> QED BY <2>1
<1>4. z = w * m + (w - 1)
  BY <1>1, <1>2
<1>5. q = m
  <2>1. PICK e \in Int : e = q - m
    OBVIOUS
  <2>2. w * e = w * q - w * m
    BY <2>1
  <2>3. PICK f \in Nat, g \in Nat, h \in Int : f = w * q /\ g = w * m /\ h = w * e
    OBVIOUS
  <2>4. h = (w - 1) - r
    <3>1. h = f - g /\ z = f + r /\ z = g + (w - 1)
      BY <1>3, <1>4, <2>2, <2>3
    <3> QED BY ONLY <3>1, f \in Nat, g \in Nat, h \in Int, r \in 0 .. w - 1, w \in Nat \ {0}, z \in Nat
  <2>5. CASE e >= 1
    <3>1. PICK k \in Nat : k = e - 1
      BY <2>5
    <3>2. w * k >= 0 /\ h = w * k + w
      BY <2>3, <3>1
    <3> QED BY <2>4, <3>2
  <2>6. CASE e <= -1
    <3>1. PICK k \in Nat : k = -e - 1
      BY <2>6
    <3>2. w * k >= 0 /\ h = -(w * k) - w
      BY <2>3, <3>1
    <3> QED BY <2>4, <3>2
  <2> QED BY <2>1, <2>5, <2>6
<1> QED BY <1>1, <1>2, <1>3, <1>5 DEF Ceil

\* At a level below the top the vector is m segments of twice p elements.
LEMMA Grid == ASSUME NEW top \in Nat, NEW level \in Nat, level < top
              PROVE  \E p \in Nat \ {0}, m \in Nat \ {0} :
                       /\ 2 ^ level = p /\ 2 ^ (level + 1) = 2 * p /\ 2 ^ top = 2 * p * m
                       /\ Ceil(2 ^ top, 2 ^ (level + 1)) = m
<1>1. PICK b \in Nat : top = level + 1 + b
  <2>1. top - level - 1 \in Nat /\ top = level + 1 + (top - level - 1)
    OBVIOUS
  <2> QED BY <2>1
<1>2. PICK p \in Nat \ {0}, m \in Nat \ {0} : p = 2 ^ level /\ m = 2 ^ b
  BY Powers
<1>3. 2 ^ (level + 1) = 2 * p
  BY <1>2, Powers
<1>4. PICK w \in Nat \ {0} : w = 2 * p
  OBVIOUS
<1>5. 2 ^ top = w * m
  <2>1. PICK a \in Nat : a = level + 1
    OBVIOUS
  <2>2. 2 ^ (a + b) = 2 ^ a * 2 ^ b
    BY PowerSum
  <2> QED BY <1>1, <1>2, <1>3, <1>4, <2>1, <2>2
<1>6. Ceil(w * m, w) = m
  BY CeilExact
<1> QED BY <1>2, <1>3, <1>4, <1>5, <1>6

-----------------------------------------------------------------------------
(* The segments of a level.                                                *)

MidOf(i, level) == i * 2 ^ (level + 1) + 2 ^ (level + 1) \div 2 - 1
EndOf(i, level) == i * 2 ^ (level + 1) + 2 ^ (level + 1) - 1
SegmentsOf(top, level) == 0 .. Ceil(2 ^ top, 2 ^ (level + 1)) - 1
LevelOf(top, level, p, m) ==
  /\ p \in Nat \ {0} /\ m \in Nat \ {0}
  /\ 2 ^ level = p /\ 2 ^ (level + 1) = 2 * p /\ 2 ^ top = 2 * p * m /\ SegmentsOf(top, level) = 0 .. m - 1
  /\ \A i \in SegmentsOf(top, level) :
       /\ i \in 0 .. m - 1 /\ MidOf(i, level) \in 0 .. 2 ^ top - 1 /\ EndOf(i, level) \in 0 .. 2 ^ top - 1
       /\ MidOf(i, level) + 1 = (2 * i + 1) * p /\ EndOf(i, level) + 1 = (2 * i + 2) * p

LEMMA SegmentEnds ==
  ASSUME NEW level, NEW i \in Nat, NEW p \in Nat \ {0}, 2 ^ (level + 1) = 2 * p
  PROVE  /\ MidOf(i, level) \in Nat /\ EndOf(i, level) \in Nat
         /\ MidOf(i, level) + 1 = (2 * i + 1) * p /\ EndOf(i, level) + 1 = (2 * i + 2) * p
<1>1. PICK w \in Nat : w = 2 * p /\ w \div 2 = p
  OBVIOUS
<1>2. MidOf(i, level) = i * w + p - 1 /\ EndOf(i, level) = i * w + w - 1
  BY <1>1 DEF MidOf, EndOf
<1>3. PICK x \in Nat : x = i * w /\ x + p = (2 * i + 1) * p /\ x + w = (2 * i + 2) * p
  <2>1. i * w \in Nat /\ i * w + p = (2 * i + 1) * p /\ i * w + w = (2 * i + 2) * p
    BY <1>1
  <2> QED BY <2>1
<1>4. MidOf(i, level) = x + p - 1 /\ EndOf(i, level) = x + w - 1
  BY ONLY <1>2, <1>3
<1> QED BY <1>1, <1>3, <1>4

LEMMA LevelsOf ==
  ASSUME NEW top \in Nat, NEW level \in Nat, level < top
  PROVE  \E p, m : LevelOf(top, level, p, m)
<1>2. PICK p \in Nat \ {0}, m \in Nat \ {0} :
        /\ 2 ^ level = p /\ 2 ^ (level + 1) = 2 * p /\ 2 ^ top = 2 * p * m
        /\ Ceil(2 ^ top, 2 ^ (level + 1)) = m
  BY Grid
<1>3. SegmentsOf(top, level) = 0 .. m - 1
  BY <1>2 DEF SegmentsOf
<1>4. ASSUME NEW i \in SegmentsOf(top, level)
      PROVE  /\ i \in 0 .. m - 1 /\ MidOf(i, level) \in 0 .. 2 ^ top - 1 /\ EndOf(i, level) \in 0 .. 2 ^ top - 1
             /\ MidOf(i, level) + 1 = (2 * i + 1) * p /\ EndOf(i, level) + 1 = (2 * i + 2) * p
  <2>1. i \in 0 .. m - 1 /\ i \in Nat
    BY <1>3, <1>4
  <2>2. PICK a \in Nat, b \in Nat : a = MidOf(i, level) /\ b = EndOf(i, level) /\ a + 1 = (2 * i + 1) * p /\ b + 1 = (2 * i + 2) * p
    <3>1. /\ MidOf(i, level) \in Nat /\ EndOf(i, level) \in Nat
          /\ MidOf(i, level) + 1 = (2 * i + 1) * p /\ EndOf(i, level) + 1 = (2 * i + 2) * p
      BY <1>2, <2>1, SegmentEnds
    <3> QED BY ONLY <3>1
  <2>3. PICK n \in Nat : n = 2 ^ top /\ n = 2 * p * m
    BY <1>2
  <2>4. b + 1 <= n /\ a < b
    <3>1. PICK r \in Nat : r = m - 1 - i
      BY <2>1
    <3>2. 2 * p * m = (2 * i + 2) * p + 2 * (p * r)
      <4>1. m = i + 1 + r
        BY <2>1, <3>1
      <4>2. 2 * p * (i + 1 + r) = (2 * i + 2) * p + 2 * (p * r)
        BY <2>1
      <4> QED BY <4>1, <4>2
    <3>3. p * r >= 0
      BY <3>1
    <3>4. (2 * i + 2) * p = (2 * i + 1) * p + p
      BY <2>1
    <3>5. PICK e \in Nat, f \in Nat, g \in Nat : e = p * r /\ f = (2 * i + 1) * p /\ g = (2 * i + 2) * p
      BY <2>1, <3>1
    <3>6. n = g + 2 * e /\ g = f + p /\ a + 1 = f /\ b + 1 = g
      BY <2>2, <2>3, <3>2, <3>4, <3>5
    <3> QED BY ONLY <3>6, a \in Nat, b \in Nat, e \in Nat, f \in Nat, g \in Nat, n \in Nat, p \in Nat \ {0}
  <2>5. a \in 0 .. n - 1 /\ b \in 0 .. n - 1
    BY <2>4
  <2> QED BY <2>1, <2>2, <2>3, <2>5
<1> QED BY <1>2, <1>3, <1>4 DEF LevelOf

LEMMA TopLevelOf ==
  ASSUME NEW top \in Nat
  PROVE  /\ 2 ^ top \in Nat \ {0} /\ SegmentsOf(top, top) = {0}
         /\ MidOf(0, top) = 2 ^ top - 1 /\ ~ (EndOf(0, top) < 2 ^ top)
<1>2. PICK n \in Nat \ {0} : n = 2 ^ top /\ 2 ^ (top + 1) = 2 * n
  BY Powers
<1>3. Ceil(n, 2 * n) = 1
  <2>1. (n + 2 * n - 1) \div (2 * n) = 1
    <3>1. PICK w \in Nat \ {0}, z \in Nat : w = 2 * n /\ z = n + 2 * n - 1
      OBVIOUS
    <3>2. z = w * 1 + (n - 1) /\ n - 1 \in 0 .. w - 1
      BY <3>1
    <3>3. PICK q \in Nat, r \in 0 .. w - 1 : q = z \div w /\ z = w * q + r
      <4>1. z \div w \in Nat /\ z % w \in 0 .. w - 1 /\ z = w * (z \div w) + (z % w)
        OBVIOUS
      <4> QED BY <4>1
    <3>4. CASE q = 0
      BY <3>1, <3>2, <3>3, <3>4
    <3>5. CASE q = 1
      BY <3>1, <3>3, <3>5
    <3>6. CASE q >= 2
      <4>1. PICK k1 \in Nat : k1 = q - 2
        BY <3>6
      <4>2. w * k1 >= 0 /\ w * q = w * k1 + w + w
        BY <4>1
      <4>3. z < w + w
        BY <3>1
      <4> QED BY <3>3, <4>2, <4>3
    <3> QED BY <3>4, <3>5, <3>6
  <2> QED BY <2>1 DEF Ceil
<1>4. SegmentsOf(top, top) = {0}
  BY <1>2, <1>3 DEF SegmentsOf
<1>5. 0 \in Nat /\ MidOf(0, top) + 1 = (2 * 0 + 1) * n /\ EndOf(0, top) + 1 = (2 * 0 + 2) * n /\ MidOf(0, top) \in Nat /\ EndOf(0, top) \in Nat
  <2>1. PICK zero \in Nat : zero = 0
    OBVIOUS
  <2> QED BY <1>2, <2>1, SegmentEnds
<1>6. MidOf(0, top) + 1 = n /\ EndOf(0, top) + 1 = n + n
  BY <1>5
<1> QED BY <1>2, <1>4, <1>5, <1>6

\* The same of the level that runs, before and after a step.
IsLevel(p, m) ==
  /\ p \in Nat \ {0} /\ m \in Nat \ {0}
  /\ 2 ^ d = p /\ 2 ^ (d + 1) = 2 * p /\ size = 2 * p * m /\ Segments(d) = 0 .. m - 1
  /\ \A i \in Segments(d) :
       /\ i \in 0 .. m - 1 /\ Mid(i) \in 0 .. size - 1 /\ End(i) \in 0 .. size - 1
       /\ Mid(i) + 1 = (2 * i + 1) * p /\ End(i) + 1 = (2 * i + 2) * p

LEMMA Levels == ASSUME job.size_pow \in Nat, d \in Nat, d < job.size_pow PROVE \E p, m : IsLevel(p, m)
<1>1. PICK top \in Nat, level \in Nat : top = job.size_pow /\ level = d /\ level < top
  OBVIOUS
<1>2. PICK p, m : LevelOf(top, level, p, m)
  BY <1>1, LevelsOf
<1>3. /\ size = 2 ^ top /\ Segments(d) = SegmentsOf(top, level)
      /\ \A i : Mid(i) = MidOf(i, level) /\ End(i) = EndOf(i, level)
  BY <1>1 DEF size, Segments, SegmentsOf, Mid, MidOf, End, EndOf, Shift
<1> QED BY <1>1, <1>2, <1>3 DEF IsLevel, LevelOf

LEMMA LevelsNext ==
  ASSUME job'.size_pow \in Nat, d' \in Nat, d' < job'.size_pow PROVE \E p, m : IsLevel(p, m)'
<1>1. PICK top \in Nat, level \in Nat : top = job'.size_pow /\ level = d' /\ level < top
  OBVIOUS
<1>2. PICK p, m : LevelOf(top, level, p, m)
  BY <1>1, LevelsOf
<1>3. /\ size' = 2 ^ top /\ Segments(d)' = SegmentsOf(top, level)
      /\ \A i : Mid(i)' = MidOf(i, level) /\ End(i)' = EndOf(i, level)
  BY <1>1 DEF size, Segments, SegmentsOf, Mid, MidOf, End, EndOf, Shift
<1> QED BY <1>1, <1>2, <1>3 DEF IsLevel, LevelOf

\* Above all segments the last sweep has one, which ends outside the vector.
LEMMA TopLevel ==
  ASSUME job.size_pow \in Nat, d = job.size_pow
  PROVE  size \in Nat \ {0} /\ Segments(d) = {0} /\ Mid(0) = size - 1 /\ ~ (End(0) < size)
<1>1. PICK top \in Nat : top = job.size_pow /\ top = d
  OBVIOUS
<1>2. size = 2 ^ top /\ Segments(d) = SegmentsOf(top, top) /\ Mid(0) = MidOf(0, top) /\ End(0) = EndOf(0, top)
  BY <1>1 DEF size, Segments, SegmentsOf, Mid, MidOf, End, EndOf, Shift
<1> QED BY <1>2, TopLevelOf

\* Segments do not overlap.
LEMMA SegmentsApart ==
  ASSUME NEW p, NEW m, IsLevel(p, m), NEW i \in Segments(d), NEW j \in Segments(d), i # j
  PROVE  /\ Mid(i) # Mid(j) /\ Mid(i) # End(j) /\ End(i) # Mid(j) /\ End(i) # End(j)
<1>1. ASSUME NEW a \in Segments(d), NEW b \in Segments(d), a < b
      PROVE  Mid(a) < Mid(b) /\ Mid(a) < End(b) /\ End(a) < Mid(b) /\ End(a) < End(b)
  <2>1. /\ p \in Nat \ {0} /\ a \in Nat /\ b \in Nat
        /\ Mid(a) + 1 = (2 * a + 1) * p /\ End(a) + 1 = (2 * a + 2) * p
        /\ Mid(b) + 1 = (2 * b + 1) * p /\ End(b) + 1 = (2 * b + 2) * p
        /\ Mid(a) \in Int /\ End(a) \in Int /\ Mid(b) \in Int /\ End(b) \in Int
    BY DEF IsLevel
  <2>2. PICK u \in Int, v \in Int, x \in Int, y \in Int : u = Mid(a) /\ v = End(a) /\ x = Mid(b) /\ y = End(b)
    BY <2>1
  <2>3. PICK c \in Nat : b = a + 1 + c
    <3>1. b - a - 1 \in Nat /\ b = a + 1 + (b - a - 1)
      BY <1>1, <2>1
    <3> QED BY <3>1
  <2>4. PICK g \in Nat, h \in Nat : g = a * p /\ h = c * p
    BY <2>1
  <2>5. /\ (2 * a + 1) * p = 2 * g + p /\ (2 * a + 2) * p = 2 * g + 2 * p
        /\ (2 * b + 1) * p = 2 * g + 2 * h + 3 * p /\ (2 * b + 2) * p = 2 * g + 2 * h + 4 * p
    BY <2>1, <2>3, <2>4
  <2>6. /\ u + 1 = 2 * g + p /\ v + 1 = 2 * g + 2 * p
        /\ x + 1 = 2 * g + 2 * h + 3 * p /\ y + 1 = 2 * g + 2 * h + 4 * p /\ p \in Nat \ {0}
    BY <2>1, <2>2, <2>5
  <2>7. u < x /\ u < y /\ v < x /\ v < y
    BY ONLY <2>6, u \in Int, v \in Int, x \in Int, y \in Int, g \in Nat, h \in Nat
  <2> QED BY <2>2, <2>7
<1>2. i \in Int /\ j \in Int
  BY DEF IsLevel
<1>3. Mid(i) \in Int /\ Mid(j) \in Int /\ End(i) \in Int /\ End(j) \in Int
  BY DEF IsLevel
<1>4. CASE i < j
  BY <1>1, <1>3, <1>4
<1>5. CASE j < i
  BY <1>1, <1>3, <1>5
<1> QED BY <1>2, <1>4, <1>5

LEMMA MidNotEnd == ASSUME NEW p, NEW m, IsLevel(p, m), NEW i \in Segments(d) PROVE Mid(i) # End(i)
<1>1. PICK u \in Int, v \in Int, g \in Nat : u = Mid(i) /\ v = End(i) /\ g = 2 * i * p /\ p \in Nat \ {0}
  BY DEF IsLevel
<1>2. (2 * i + 1) * p = g + p /\ (2 * i + 2) * p = g + 2 * p
  <2>1. PICK j \in Int : j = i
    BY DEF IsLevel
  <2>2. (2 * j + 1) * p = 2 * j * p + p /\ (2 * j + 2) * p = 2 * j * p + 2 * p
    BY ONLY <1>1, j \in Int
  <2> QED BY <1>1, <2>1, <2>2
<1>3. u + 1 = g + p /\ v + 1 = g + 2 * p
  BY <1>1, <1>2 DEF IsLevel
<1>4. u # v
  BY ONLY <1>3, u \in Int, v \in Int, g \in Nat, <1>1
<1> QED BY <1>1, <1>4

-----------------------------------------------------------------------------
(* The inductive invariant.                                                *)

\* An iteration is begun once.
Alone == /\ \A x, y \in doing : x.i = y.i => x = y
         /\ \A x \in doing : x.i \notin todo
Finished(i) == i \notin todo /\ \A x \in doing : x.i # i
Adding(i) == \E x \in doing : x.i = i /\ x.step = "add"

\* How the powers of two that are the vector at first have been added up:
\* the sum of the w elements up to k, and the sum of all before those.
Sum(k, w) == 2 ^ (k + 1) - 2 ^ (k + 1 - w)
SumBefore(k, w) == 2 ^ (k + 1 - w) - 1

\* The largest power of two that divides k + 1 is 2^l: the up-sweeps below
\* level l have added up that many elements, those from l on leave element k.
Multiple(w, k) == \E q \in Nat : k + 1 = q * w
Rank(k, l) == Multiple(2 ^ l, k) /\ ~ Multiple(2 ^ (l + 1), k)
Low(m) == \A l \in 0 .. m - 1 : \A k \in 0 .. size - 1 : Rank(k, l) => data[k] = Sum(k, 2 ^ l)

UpDone(i) ==
  /\ data[Mid(i)] = Sum(Mid(i), 2 ^ d)
  /\ data[End(i)] = Sum(End(i), IF Finished(i) THEN 2 ^ (d + 1) ELSE 2 ^ d)
DownDone(i) ==
  /\ data[Mid(i)] = IF Finished(i) \/ Adding(i) THEN SumBefore(Mid(i), 2 ^ d) ELSE Sum(Mid(i), 2 ^ d)
  /\ data[End(i)] = SumBefore(End(i), IF Finished(i) THEN 2 ^ d ELSE 2 ^ (d + 1))

ScanIterations == [i : Segments(d), step : {"load", "add", "copy"}, t : Int]
ScanShape ==
  /\ job.size_pow \in Nat
  /\ at \in {"up", "down", "end"} /\ d \in 0 .. job.size_pow
  /\ data \in [0 .. size - 1 -> Int]
  /\ todo \subseteq Segments(d) /\ doing \subseteq ScanIterations
  /\ at = "up" => (d < job.size_pow \/ (todo = {} /\ doing = {})) /\ \A x \in doing : x.step # "copy"
  /\ at = "down" /\ d = job.size_pow => \A x \in doing : x.step = "load"
  /\ at = "end" => todo = {} /\ doing = {}
ScanSums ==
  /\ \A x \in doing : x.step # "load" => x.t = Sum(Mid(x.i), 2 ^ d)
  /\ at # "end" => Low(d)
  /\ at = "up" /\ d < job.size_pow => \A i \in Segments(d) : UpDone(i)
  /\ at = "down" /\ d < job.size_pow => \A i \in Segments(d) : DownDone(i)
  /\ at = "down" /\ d = job.size_pow => data[size - 1] = 0
  /\ at = "end" => \A k \in 0 .. size - 1 : data[k] = 2 ^ k - 1

Image == (0 .. job.columns - 1) \X (0 .. job.rows - 1)
BlockIterations == [i : Blocks, row : Nat, column : Nat]
TransposeShape ==
  /\ IsTranspose(job)
  /\ at \in {"blocks", "end"}
  /\ data \in [Image -> {Unwritten} \cup (Nat \X Nat)]
  /\ todo \subseteq Blocks /\ doing \subseteq BlockIterations
  /\ at = "end" => todo = {} /\ doing = {}
\* Where an iteration is in its block, if the block begins inside the matrix.
Within ==
  \A x \in doing :
    /\ FromRow(x.i) <= x.row /\ FromColumn(x.i) <= x.column
    /\ FromRow(x.i) <= ToRow(x.i) => x.row <= ToRow(x.i)
    /\ FromColumn(x.i) <= ToColumn(x.i) => x.column <= ToColumn(x.i)
\* The cells an iteration has passed are written.
Passed(x, r, c) == r < x.row \/ (r = x.row /\ c < x.column)
Copied ==
  \A b \in Blocks :
    \A r \in FromRow(b) .. ToRow(b) - 1, c \in FromColumn(b) .. ToColumn(b) - 1 :
      b \notin todo /\ (\A x \in doing : x.i = b => Passed(x, r, c)) => data[<<c, r>>] = <<r, c>>

IInv ==
  /\ Alone
  /\ job.kernel = "scan" => ScanShape /\ ScanSums
  /\ job.kernel # "scan" => TransposeShape /\ Within /\ Copied

-----------------------------------------------------------------------------
(* One iteration goes on.                                                  *)

LEMMA GoesOn ==
  ASSUME Alone, NEW x \in doing, NEW y, y.i = x.i, Becomes(x, y), todo' = todo
  PROVE  /\ Alone'
         /\ \A i : Finished(i)' <=> Finished(i)
         /\ \A i : Adding(i)' <=> IF i = x.i THEN y.step = "add" ELSE Adding(i)
         /\ \A i : i = x.i => (Adding(i) <=> x.step = "add")
<1>1. doing' = (doing \ {x}) \cup {y}
  BY DEF Becomes
<1>2. \A z \in doing : z.i = x.i => z = x
  BY DEF Alone
<1>3. Alone'
  BY <1>1, <1>2 DEF Alone
<1>4. \A i : Finished(i)' <=> Finished(i)
  BY <1>1 DEF Finished
<1>5. ASSUME NEW i PROVE Adding(i)' <=> IF i = x.i THEN y.step = "add" ELSE Adding(i)
  <2>1. CASE i = x.i
    BY <1>1, <1>2, <2>1 DEF Adding
  <2>2. CASE i # x.i
    BY <1>1, <2>2 DEF Adding
  <2> QED BY <2>1, <2>2
<1>6. ASSUME NEW i, i = x.i PROVE Adding(i) <=> x.step = "add"
  BY <1>2, <1>6 DEF Adding
<1> QED BY <1>3, <1>4, <1>5, <1>6

LEMMA IsOver ==
  ASSUME Alone, NEW x \in doing, Over(x), todo' = todo
  PROVE  /\ Alone'
         /\ \A i : Finished(i)' <=> Finished(i) \/ i = x.i
         /\ ~ Finished(x.i)
         /\ \A i : i # x.i => (Adding(i)' <=> Adding(i))
<1>1. doing' = doing \ {x}
  BY DEF Over
<1>2. \A z \in doing : z.i = x.i => z = x
  BY DEF Alone
<1>3. Alone'
  BY <1>1 DEF Alone
<1>4. ASSUME NEW i PROVE Finished(i)' <=> Finished(i) \/ i = x.i
  <2>1. x.i \notin todo
    BY DEF Alone
  <2> QED BY <1>1, <1>2, <2>1 DEF Finished
<1>5. \A i : i # x.i => (Adding(i)' <=> Adding(i))
  BY <1>1 DEF Adding
<1>6. ~ Finished(x.i)
  BY DEF Finished
<1> QED BY <1>3, <1>4, <1>5, <1>6

\* An iteration begins.
LEMMA Begins ==
  ASSUME Alone, NEW i \in todo, Begin(i), NEW y, y = Iteration(i), y.i = i
  PROVE  /\ Alone' /\ \A j : Finished(j)' <=> Finished(j)
         /\ doing' = doing \cup {y} /\ todo' = todo \ {i}
         /\ y.step # "add" => \A j : Adding(j)' <=> Adding(j)
<1>1. doing' = doing \cup {y} /\ todo' = todo \ {i}
  BY DEF Begin
<1>2. \A z \in doing : z.i # i
  BY DEF Alone
<1>3. Alone'
  BY <1>1, <1>2 DEF Alone
<1>4. \A j : Finished(j)' <=> Finished(j)
  BY <1>1, <1>2 DEF Finished
<1>5. y.step # "add" => \A j : Adding(j)' <=> Adding(j)
  BY <1>1 DEF Adding
<1> QED BY <1>1, <1>3, <1>4, <1>5

-----------------------------------------------------------------------------
(* What the sweeps add.                                                    *)

\* The sums of two neighbouring stretches of w elements, of which the first
\* ends at a and the second at b.
LEMMA Stretches ==
  ASSUME NEW a \in Nat, NEW b \in Nat, NEW w \in Nat, b = a + w, w <= a + 1
  PROVE  /\ Sum(a, w) \in Int /\ Sum(b, w) \in Int
         /\ Sum(b, w) + Sum(a, w) = Sum(b, 2 * w)
         /\ SumBefore(a, w) \in Int /\ SumBefore(b, w) \in Int
         /\ SumBefore(b, 2 * w) = SumBefore(a, w)
         /\ SumBefore(a, w) + Sum(a, w) = SumBefore(b, w)
<1>1. PICK i \in Nat, j \in Nat, k \in Nat : i = a + 1 - w /\ j = a + 1 /\ k = b + 1
  OBVIOUS
<1>2. b + 1 - w = j /\ b + 1 - 2 * w = i /\ a + 1 - w = i
  BY <1>1
<1>3. PICK x \in Nat, y \in Nat, z \in Nat : x = 2 ^ i /\ y = 2 ^ j /\ z = 2 ^ k
  BY Powers
<1>4. /\ Sum(a, w) = y - x /\ Sum(b, w) = z - y /\ Sum(b, 2 * w) = z - x
      /\ SumBefore(a, w) = x - 1 /\ SumBefore(b, w) = y - 1 /\ SumBefore(b, 2 * w) = x - 1
  BY ONLY <1>1, <1>2, <1>3, Zenon DEF Sum, SumBefore
<1>5. /\ y - x \in Int /\ z - y \in Int /\ x - 1 \in Int /\ y - 1 \in Int
      /\ (z - y) + (y - x) = z - x /\ (x - 1) + (y - x) = y - 1
  OBVIOUS
<1> QED BY ONLY <1>4, <1>5, Zenon

LEMMA SegmentSums ==
  ASSUME NEW p, NEW m, IsLevel(p, m), NEW i \in Segments(d)
  PROVE  /\ Sum(Mid(i), 2 ^ d) \in Int /\ Sum(End(i), 2 ^ d) \in Int
         /\ Sum(End(i), 2 ^ d) + Sum(Mid(i), 2 ^ d) = Sum(End(i), 2 ^ (d + 1))
         /\ SumBefore(Mid(i), 2 ^ d) \in Int /\ SumBefore(End(i), 2 ^ d) \in Int
         /\ SumBefore(End(i), 2 ^ (d + 1)) = SumBefore(Mid(i), 2 ^ d)
         /\ SumBefore(Mid(i), 2 ^ d) + Sum(Mid(i), 2 ^ d) = SumBefore(End(i), 2 ^ d)
<1>1. /\ p \in Nat \ {0} /\ 2 ^ d = p /\ 2 ^ (d + 1) = 2 * p /\ i \in Nat
      /\ Mid(i) + 1 = (2 * i + 1) * p /\ End(i) + 1 = (2 * i + 2) * p /\ Mid(i) \in Int /\ End(i) \in Int
  BY DEF IsLevel
<1>2. PICK g \in Nat : g = 2 * i * p /\ (2 * i + 1) * p = g + p /\ (2 * i + 2) * p = g + 2 * p
  <2>1. 2 * i * p \in Nat /\ (2 * i + 1) * p = 2 * i * p + p /\ (2 * i + 2) * p = 2 * i * p + 2 * p
    BY <1>1
  <2> QED BY <2>1
<1>3. PICK a \in Int, b \in Int : a = Mid(i) /\ b = End(i) /\ a + 1 = g + p /\ b + 1 = g + 2 * p
  BY <1>1, <1>2
<1>4. a \in Nat /\ b \in Nat /\ b = a + p /\ p <= a + 1
  BY ONLY <1>1, <1>3, a \in Int, b \in Int, g \in Nat
<1>5. /\ Sum(a, p) \in Int /\ Sum(b, p) \in Int
      /\ Sum(b, p) + Sum(a, p) = Sum(b, 2 * p)
      /\ SumBefore(a, p) \in Int /\ SumBefore(b, p) \in Int
      /\ SumBefore(b, 2 * p) = SumBefore(a, p)
      /\ SumBefore(a, p) + Sum(a, p) = SumBefore(b, p)
  <2>1. p \in Nat
    BY <1>1
  <2> QED BY ONLY <1>4, <2>1, Stretches
<1> QED BY ONLY <1>1, <1>3, <1>5, Zenon

-----------------------------------------------------------------------------
(* The rank of an element.                                                 *)

LEMMA Coarser == ASSUME NEW k \in Nat, NEW l \in Nat, NEW t \in Nat, l < t, Multiple(2 ^ t, k)
                 PROVE  Multiple(2 ^ (l + 1), k)
<1>1. PICK b \in Nat, a \in Nat : a = l + 1 /\ t = a + b
  <2>1. t - l - 1 \in Nat /\ t = l + 1 + (t - l - 1)
    OBVIOUS
  <2> QED BY <2>1
<1>2. PICK q \in Nat : k + 1 = q * 2 ^ t
  BY DEF Multiple
<1>3. PICK x \in Nat, y \in Nat : x = 2 ^ a /\ y = 2 ^ b
  BY Powers
<1>4. 2 ^ t = x * y
  BY <1>1, <1>3, PowerSum
<1>5. k + 1 = (q * y) * x /\ q * y \in Nat
  <2>1. q * (x * y) = (q * y) * x /\ q * y \in Nat
    OBVIOUS
  <2> QED BY <1>2, <1>4, <2>1
<1> QED BY <1>1, <1>3, <1>5 DEF Multiple

\* The elements at the ends of segments have no rank below the level, the ends
\* of first halves have the level for their rank, and no others have it.
LEMMA EndsOf ==
  ASSUME NEW level, NEW p \in Nat \ {0}, 2 ^ level = p, 2 ^ (level + 1) = 2 * p, NEW i \in Nat,
         NEW a, NEW b, a + 1 = (2 * i + 1) * p, b + 1 = (2 * i + 2) * p
  PROVE  /\ Multiple(2 ^ level, a) /\ Multiple(2 ^ level, b) /\ Multiple(2 ^ (level + 1), b)
         /\ ~ Multiple(2 ^ (level + 1), a)
<1>2. Multiple(2 ^ level, a) /\ Multiple(2 ^ level, b)
  <2>1. 2 * i + 1 \in Nat /\ 2 * i + 2 \in Nat
    OBVIOUS
  <2> QED BY <2>1 DEF Multiple
<1>3. Multiple(2 ^ (level + 1), b)
  <2>1. (2 * i + 2) * p = (i + 1) * (2 * p) /\ i + 1 \in Nat
    OBVIOUS
  <2> QED BY <2>1 DEF Multiple
<1>4. ASSUME Multiple(2 ^ (level + 1), a) PROVE FALSE
  <2>1. PICK q \in Nat : a + 1 = q * (2 * p)
    BY <1>4 DEF Multiple
  <2>2. (2 * i + 1) * p = q * (2 * p)
    BY <2>1
  <2>3. PICK e \in Int : e = 2 * i + 1 - 2 * q
    OBVIOUS
  <2>4. p * e = 0
    <3>1. p * (2 * i + 1 - 2 * q) = (2 * i + 1) * p - q * (2 * p)
      OBVIOUS
    <3>2. (2 * i + 1) * p \in Int
      OBVIOUS
    <3> QED BY <2>2, <2>3, <3>1, <3>2
  <2>5. e = 0
    BY ONLY p \in Nat \ {0}, <2>4, e \in Int
  <2> QED BY <2>3, <2>5
<1> QED BY <1>2, <1>3, <1>4

LEMMA EndsMultiple ==
  ASSUME NEW p, NEW m, IsLevel(p, m), NEW i \in Segments(d)
  PROVE  /\ Multiple(2 ^ d, Mid(i)) /\ Multiple(2 ^ d, End(i)) /\ Multiple(2 ^ (d + 1), End(i))
         /\ ~ Multiple(2 ^ (d + 1), Mid(i))
<1>1. PICK level, a, b : level = d /\ a = Mid(i) /\ b = End(i)
  OBVIOUS
<1>2. /\ p \in Nat \ {0} /\ 2 ^ level = p /\ 2 ^ (level + 1) = 2 * p /\ i \in Nat
      /\ a + 1 = (2 * i + 1) * p /\ b + 1 = (2 * i + 2) * p
  BY <1>1 DEF IsLevel
<1>3. /\ Multiple(2 ^ level, a) /\ Multiple(2 ^ level, b) /\ Multiple(2 ^ (level + 1), b)
      /\ ~ Multiple(2 ^ (level + 1), a)
  BY ONLY <1>2, EndsOf
<1> QED BY <1>1, <1>3

LEMMA EndsNext ==
  ASSUME NEW p, NEW m, IsLevel(p, m)', NEW i \in Segments(d)'
  PROVE  /\ Multiple(2 ^ d', Mid(i)') /\ Multiple(2 ^ d', End(i)') /\ Multiple(2 ^ (d' + 1), End(i)')
         /\ ~ Multiple(2 ^ (d' + 1), Mid(i)')
         /\ Mid(i)' \in 0 .. size' - 1 /\ End(i)' \in 0 .. size' - 1
<1>1. PICK level, a, b : level = d' /\ a = Mid(i)' /\ b = End(i)'
  OBVIOUS
<1>2. /\ p \in Nat \ {0} /\ 2 ^ level = p /\ 2 ^ (level + 1) = 2 * p /\ i \in Nat
      /\ a + 1 = (2 * i + 1) * p /\ b + 1 = (2 * i + 2) * p
      /\ a \in 0 .. size' - 1 /\ b \in 0 .. size' - 1
  BY <1>1 DEF IsLevel
<1>3. /\ Multiple(2 ^ level, a) /\ Multiple(2 ^ level, b) /\ Multiple(2 ^ (level + 1), b)
      /\ ~ Multiple(2 ^ (level + 1), a)
  BY ONLY <1>2, EndsOf
<1> QED BY <1>1, <1>2, <1>3

LEMMA LowAway ==
  ASSUME NEW p, NEW m, IsLevel(p, m), d \in Nat, NEW i \in Segments(d),
         NEW l \in Nat, l < d, NEW k, Rank(k, l)
  PROVE  k # Mid(i) /\ k # End(i)
<1>1. PICK a \in Nat, b \in Nat, t \in Nat : a = Mid(i) /\ b = End(i) /\ t = d
  BY DEF IsLevel
<1>2. Multiple(2 ^ t, a) /\ Multiple(2 ^ t, b)
  BY <1>1, EndsMultiple
<1>3. Multiple(2 ^ (l + 1), a) /\ Multiple(2 ^ (l + 1), b)
  BY <1>1, <1>2, Coarser
<1> QED BY <1>1, <1>3 DEF Rank

\* Every multiple of 2^d is at the end of a half of a segment.
LEMMA OnEnds ==
  ASSUME NEW p, NEW m, IsLevel(p, m), NEW k \in 0 .. size - 1, Multiple(2 ^ d, k)
  PROVE  \E i \in Segments(d) : k = Mid(i) \/ k = End(i)
<1>1. /\ p \in Nat \ {0} /\ m \in Nat \ {0} /\ 2 ^ d = p /\ size = 2 * p * m /\ Segments(d) = 0 .. m - 1
  BY DEF IsLevel
<1>2. PICK q \in Nat : k + 1 = q * p
  BY <1>1 DEF Multiple
<1>3. k \in Nat /\ k + 1 <= 2 * p * m
  <2>1. PICK n \in Nat : n = size /\ n = 2 * p * m
    BY <1>1
  <2>2. k \in 0 .. n - 1
    BY <2>1
  <2> QED BY <2>1, <2>2
<1>4. q >= 1
  <2>1. SUFFICES ASSUME q = 0 PROVE FALSE
    OBVIOUS
  <2> QED BY <1>1, <1>2, <1>3, <2>1
<1>5. q <= 2 * m
  <2>1. SUFFICES ASSUME q > 2 * m PROVE FALSE
    BY <1>1
  <2>2. PICK e \in Nat : q = 2 * m + 1 + e
    <3>1. q - 2 * m - 1 \in Nat /\ q = 2 * m + 1 + (q - 2 * m - 1)
      BY <1>1, <2>1
    <3> QED BY <3>1
  <2>3. q * p = 2 * p * m + p + e * p
    <3>1. (2 * m + 1 + e) * p = 2 * p * m + p + e * p
      BY <1>1
    <3> QED BY <2>2, <3>1
  <2>4. e * p >= 0
    BY <1>1
  <2>5. PICK f \in Nat, g \in Nat : f = 2 * p * m /\ g = e * p
    BY <1>1
  <2>6. k + 1 = f + p + g /\ k + 1 <= f
    BY <1>2, <1>3, <2>3, <2>5
  <2> QED BY ONLY <1>1, <2>6, f \in Nat, g \in Nat
<1>6. PICK i \in Nat, r \in 1 .. 2 : q = 2 * i + r
  <2>1. PICK c \in Nat : c = q - 1
    BY <1>4
  <2>2. PICK i \in Nat, r \in 0 .. 1 : c = 2 * i + r
    <3>1. c \div 2 \in Nat /\ c % 2 \in 0 .. 1 /\ c = 2 * (c \div 2) + (c % 2)
      OBVIOUS
    <3> QED BY <3>1
  <2>3. q = 2 * i + (r + 1) /\ r + 1 \in 1 .. 2
    BY <2>1, <2>2
  <2> QED BY <2>3
<1>7. i \in Segments(d)
  <2>1. i <= m - 1
    BY <1>1, <1>5, <1>6
  <2> QED BY <1>1, <2>1
<1>8. /\ Mid(i) + 1 = (2 * i + 1) * p /\ End(i) + 1 = (2 * i + 2) * p
      /\ Mid(i) \in Int /\ End(i) \in Int
  BY <1>7 DEF IsLevel
<1>9. CASE r = 1
  <2>1. k + 1 = Mid(i) + 1
    BY <1>2, <1>6, <1>8, <1>9
  <2>2. k = Mid(i)
    BY ONLY <1>3, <1>8, <2>1
  <2> QED BY <1>7, <2>2
<1>10. CASE r = 2
  <2>1. k + 1 = End(i) + 1
    BY <1>2, <1>6, <1>8, <1>10
  <2>2. k = End(i)
    BY ONLY <1>3, <1>8, <2>1
  <2> QED BY <1>7, <2>2
<1> QED BY <1>9, <1>10

-----------------------------------------------------------------------------
(* The iterations of a scan.                                               *)

LEMMA SameLevel ==
  ASSUME job' = job, d' = d
  PROVE  /\ size' = size /\ Segments(d)' = Segments(d) /\ ScanIterations' = ScanIterations
         /\ \A i : Mid(i)' = Mid(i) /\ End(i)' = End(i)
BY DEF size, Segments, ScanIterations, Mid, End, Shift

LEMMA ScanGoesOn ==
  ASSUME ScanShape, job' = job, at' = at, d' = d, todo' = todo, doing' \subseteq ScanIterations,
         data' \in [0 .. size - 1 -> Int],
         at = "up" => doing # {} /\ \A x \in doing' : x.step # "copy",
         at = "down" /\ d = job.size_pow => \A x \in doing' : x.step = "load", at # "end"
  PROVE  ScanShape'
<1>1. size' = size /\ Segments(d)' = Segments(d) /\ ScanIterations' = ScanIterations
  BY SameLevel
<1> QED BY <1>1 DEF ScanShape

\* A store at an end of a segment leaves the low ranks alone.
LEMMA LowStays ==
  ASSUME NEW p, NEW m, IsLevel(p, m), d \in Nat, Low(d), job' = job, d' = d,
         data \in [0 .. size - 1 -> Int], NEW i \in Segments(d), NEW k, k = Mid(i) \/ k = End(i),
         NEW v, data' = [data EXCEPT ![k] = v]
  PROVE  Low(d)'
<1>1. size' = size
  BY SameLevel
<1>2. ASSUME NEW l \in 0 .. d - 1, NEW j \in 0 .. size - 1, Rank(j, l) PROVE data'[j] = Sum(j, 2 ^ l)
  <2>1. l \in Nat /\ l < d
    OBVIOUS
  <2>2. j # k
    BY <1>2, <2>1, LowAway
  <2>3. data'[j] = data[j]
    BY <2>2
  <2> QED BY <1>2, <2>3 DEF Low
<1> QED BY <1>1, <1>2 DEF Low

LEMMA UpSweepStep == ASSUME IInv, job.kernel = "scan", NEW x \in doing, UpSweep(x) PROVE IInv'
<1>0. /\ Alone /\ ScanShape /\ ScanSums /\ at = "up"
      /\ job' = job /\ at' = at /\ d' = d /\ todo' = todo
  BY DEF IInv, UpSweep
<1>1. /\ size' = size /\ Segments(d)' = Segments(d) /\ ScanIterations' = ScanIterations
      /\ \A i : Mid(i)' = Mid(i) /\ End(i)' = End(i)
  BY <1>0, SameLevel
<1>2. /\ x.i \in Segments(d) /\ x.step \in {"load", "add"} /\ d \in Nat /\ d < job.size_pow /\ job.size_pow \in Nat
      /\ doing \subseteq ScanIterations /\ data \in [0 .. size - 1 -> Int] /\ Low(d)
      /\ \A j \in Segments(d) : UpDone(j)
  BY <1>0 DEF ScanShape, ScanSums, ScanIterations
<1>3. PICK p, m : IsLevel(p, m)
  BY <1>2, Levels
<1>4. PICK i, a, b : /\ i = x.i /\ a = Mid(i) /\ b = End(i) /\ i \in Segments(d)
                     /\ a \in 0 .. size - 1 /\ b \in 0 .. size - 1
  BY <1>2, <1>3 DEF IsLevel
<1>5. b < size /\ a # b
  <2>1. size \in Int
    BY <1>3 DEF IsLevel
  <2>2. b < size
    BY <1>4, <2>1
  <2> QED BY <1>3, <1>4, <2>2, MidNotEnd
<1>6. /\ data[a] = Sum(a, 2 ^ d) /\ data[b] = Sum(b, 2 ^ d) /\ data[a] \in Int /\ data[b] \in Int
  <2>1. ~ Finished(i)
    BY <1>4 DEF Finished
  <2> QED BY <1>2, <1>4, <2>1 DEF UpDone
<1>7. CASE x.step = "load"
  <2>1. PICK y : y = [x EXCEPT !.step = "add", !.t = data[a]]
    OBVIOUS
  <2>2. Becomes(x, y) /\ data' = data
    BY <1>4, <1>5, <1>7, <2>1 DEF UpSweep
  <2>3. y \in ScanIterations /\ y.i = x.i /\ y.step = "add" /\ y.t = data[a]
    BY <1>2, <1>6, <2>1 DEF ScanIterations
  <2>4. Alone' /\ \A j : Finished(j)' <=> Finished(j)
    BY <1>0, <2>2, <2>3, GoesOn
  <2>5. doing' = (doing \ {x}) \cup {y}
    BY <2>2 DEF Becomes
  <2>6. ScanShape'
    <3>1. doing' \subseteq ScanIterations /\ \A z \in doing' : z.step # "copy"
      BY <1>0, <1>2, <2>3, <2>5 DEF ScanShape
    <3>2. data' \in [0 .. size - 1 -> Int]
      BY <1>2, <2>2
    <3> QED BY <1>0, <3>1, <3>2, ScanGoesOn
  <2>7. ScanSums'
    <3>1. \A z \in doing' : z.step # "load" => z.t = Sum(Mid(z.i), 2 ^ d)
      BY <1>0, <1>4, <1>6, <2>3, <2>5 DEF ScanSums
    <3>2. Low(d)'
      BY <1>0, <1>1, <1>2, <2>2 DEF Low
    <3>3. \A j \in Segments(d) : UpDone(j)'
      BY <1>0, <1>1, <1>2, <2>2, <2>4 DEF UpDone
    <3> QED BY <1>0, <1>1, <3>1, <3>2, <3>3 DEF ScanSums
  <2> QED BY <1>0, <2>4, <2>6, <2>7 DEF IInv
<1>8. CASE x.step = "add"
  <2>1. Over(x) /\ data' = [data EXCEPT ![b] = data[b] + x.t]
    BY <1>4, <1>5, <1>8 DEF UpSweep
  <2>2. x.t = Sum(a, 2 ^ d)
    BY <1>0, <1>4, <1>8 DEF ScanSums
  <2>3. data[b] + x.t = Sum(b, 2 ^ (d + 1)) /\ data[b] + x.t \in Int
    <3>1. /\ Sum(a, 2 ^ d) \in Int /\ Sum(b, 2 ^ d) \in Int
          /\ Sum(b, 2 ^ d) + Sum(a, 2 ^ d) = Sum(b, 2 ^ (d + 1))
      BY <1>3, <1>4, SegmentSums
    <3> QED BY ONLY <1>6, <2>2, <3>1
  <2>4. /\ Alone' /\ \A j : Finished(j)' <=> Finished(j) \/ j = x.i
    BY <1>0, <2>1, IsOver
  <2>5. doing' = doing \ {x}
    BY <2>1 DEF Over
  <2>6. /\ data' \in [0 .. size - 1 -> Int] /\ data'[b] = Sum(b, 2 ^ (d + 1))
        /\ \A k \in 0 .. size - 1 : k # b => data'[k] = data[k]
    BY <1>2, <1>4, <2>1, <2>3
  <2>7. ScanShape'
    <3>1. doing' \subseteq ScanIterations /\ \A z \in doing' : z.step # "copy"
      BY <1>0, <1>2, <2>5 DEF ScanShape
    <3> QED BY <1>0, <2>6, <3>1, ScanGoesOn
  <2>8. ScanSums'
    <3>1. \A z \in doing' : z.step # "load" => z.t = Sum(Mid(z.i), 2 ^ d)
      BY <1>0, <2>5 DEF ScanSums
    <3>2. Low(d)'
      BY <1>0, <1>2, <1>3, <1>4, <2>1, LowStays
    <3>3. ASSUME NEW j \in Segments(d) PROVE UpDone(j)'
      <4>1. CASE j = i
        BY <1>0, <1>1, <1>4, <1>5, <1>6, <2>4, <2>6, <4>1 DEF UpDone
      <4>2. CASE j # i
        <5>1. /\ Mid(j) # b /\ End(j) # b /\ Mid(j) \in 0 .. size - 1 /\ End(j) \in 0 .. size - 1
          BY <1>3, <1>4, <4>2, SegmentsApart DEF IsLevel
        <5>2. data'[Mid(j)] = data[Mid(j)] /\ data'[End(j)] = data[End(j)] /\ UpDone(j)
          BY <1>2, <2>6, <5>1
        <5> QED BY <1>0, <1>1, <1>4, <2>4, <4>2, <5>2 DEF UpDone
      <4> QED BY <4>1, <4>2
    <3> QED BY <1>0, <1>1, <3>1, <3>2, <3>3 DEF ScanSums
  <2> QED BY <1>0, <2>4, <2>7, <2>8 DEF IInv
<1> QED BY <1>2, <1>7, <1>8

LEMMA DownSweepStep == ASSUME IInv, job.kernel = "scan", NEW x \in doing, DownSweep(x) PROVE IInv'
<1>0. /\ Alone /\ ScanShape /\ ScanSums /\ at = "down"
      /\ job' = job /\ at' = at /\ d' = d /\ todo' = todo
  BY DEF IInv, DownSweep
<1>1. /\ size' = size /\ Segments(d)' = Segments(d) /\ ScanIterations' = ScanIterations
      /\ \A i : Mid(i)' = Mid(i) /\ End(i)' = End(i)
  BY <1>0, SameLevel
<1>2. /\ x.i \in Segments(d) /\ x.step \in {"load", "add", "copy"} /\ job.size_pow \in Nat /\ d \in 0 .. job.size_pow
      /\ d \in Nat /\ doing \subseteq ScanIterations /\ data \in [0 .. size - 1 -> Int] /\ Low(d)
  BY <1>0 DEF ScanShape, ScanSums, ScanIterations
<1>3. CASE d = job.size_pow
  <2>1. x.step = "load" /\ data[size - 1] = 0
    BY <1>0, <1>3 DEF ScanShape, ScanSums
  <2>2. Over(x) /\ data' = data
    <3>1. x.i = 0 /\ ~ (End(0) < size)
      BY <1>2, <1>3, TopLevel
    <3> QED BY <2>1, <3>1 DEF DownSweep
  <2>3. doing' = doing \ {x}
    BY <2>2 DEF Over
  <2>4. Alone'
    BY <1>0, <2>2, IsOver
  <2>5. ScanShape'
    <3>1. doing' \subseteq ScanIterations /\ data' \in [0 .. size - 1 -> Int]
      BY <1>2, <2>2, <2>3
    <3>2. \A z \in doing' : z.step = "load"
      BY <1>0, <1>3, <2>3 DEF ScanShape
    <3> QED BY <1>0, <3>1, <3>2, ScanGoesOn
  <2>6. ScanSums'
    <3>1. \A z \in doing' : z.step # "load" => z.t = Sum(Mid(z.i), 2 ^ d)
      BY <1>0, <2>3 DEF ScanSums
    <3>2. Low(d)'
      BY <1>0, <1>1, <1>2, <2>2 DEF Low
    <3> QED BY <1>0, <1>1, <1>2, <1>3, <2>1, <2>2, <3>1, <3>2 DEF ScanSums
  <2> QED BY <1>0, <2>4, <2>5, <2>6 DEF IInv
<1>4. CASE d < job.size_pow
  <2>0. \A j \in Segments(d) : DownDone(j)
    BY <1>0, <1>4 DEF ScanSums
  <2>1. PICK p, m : IsLevel(p, m)
    BY <1>2, <1>4, Levels
  <2>2. PICK i, a, b : /\ i = x.i /\ a = Mid(i) /\ b = End(i) /\ i \in Segments(d)
                       /\ a \in 0 .. size - 1 /\ b \in 0 .. size - 1
    BY <1>2, <2>1 DEF IsLevel
  <2>3. b < size /\ a # b
    <3>1. size \in Int
      BY <2>1 DEF IsLevel
    <3>2. b < size
      BY <2>2, <3>1
    <3> QED BY <2>1, <2>2, <3>2, MidNotEnd
  <2>4. /\ Sum(a, 2 ^ d) \in Int /\ SumBefore(a, 2 ^ d) \in Int /\ SumBefore(b, 2 ^ d) \in Int
        /\ SumBefore(b, 2 ^ (d + 1)) = SumBefore(a, 2 ^ d)
        /\ SumBefore(a, 2 ^ d) + Sum(a, 2 ^ d) = SumBefore(b, 2 ^ d)
    BY <2>1, <2>2, SegmentSums
  <2>5. ~ Finished(i) /\ (Adding(i) <=> x.step = "add")
    BY <1>0, <2>2 DEF Finished, Adding, Alone
  <2>6. /\ data[a] = IF x.step = "add" THEN SumBefore(a, 2 ^ d) ELSE Sum(a, 2 ^ d)
        /\ data[b] = SumBefore(a, 2 ^ d)
    BY <2>0, <2>2, <2>4, <2>5 DEF DownDone
  <2>7. ASSUME NEW j \in Segments(d), j # i
        PROVE  /\ Mid(j) # a /\ Mid(j) # b /\ End(j) # a /\ End(j) # b
               /\ Mid(j) \in 0 .. size - 1 /\ End(j) \in 0 .. size - 1
    BY <2>1, <2>2, <2>7, SegmentsApart DEF IsLevel
  <2>8. CASE x.step = "load"
    <3>1. PICK y : y = [x EXCEPT !.step = "copy", !.t = data[a]]
      OBVIOUS
    <3>2. Becomes(x, y) /\ data' = data
      BY <2>2, <2>3, <2>8, <3>1 DEF DownSweep
    <3>3. y \in ScanIterations /\ y.i = x.i /\ y.step = "copy" /\ y.t = Sum(a, 2 ^ d)
      BY <1>2, <2>4, <2>6, <2>8, <3>1 DEF ScanIterations
    <3>4. Alone' /\ (\A j : Finished(j)' <=> Finished(j)) /\ (\A j : Adding(j)' <=> Adding(j))
      BY <1>0, <2>2, <2>5, <2>8, <3>2, <3>3, GoesOn
    <3>5. doing' = (doing \ {x}) \cup {y}
      BY <3>2 DEF Becomes
    <3>6. ScanShape'
      <4>1. doing' \subseteq ScanIterations /\ data' \in [0 .. size - 1 -> Int]
        BY <1>2, <3>2, <3>3, <3>5
      <4> QED BY <1>0, <1>2, <1>4, <4>1, ScanGoesOn
    <3>7. ScanSums'
      <4>1. \A z \in doing' : z.step # "load" => z.t = Sum(Mid(z.i), 2 ^ d)
        BY <1>0, <2>2, <3>3, <3>5 DEF ScanSums
      <4>2. Low(d)'
        BY <1>0, <1>1, <1>2, <3>2 DEF Low
      <4>3. \A j \in Segments(d) : DownDone(j)'
        BY <1>0, <1>1, <2>0, <3>2, <3>4 DEF DownDone
      <4> QED BY <1>0, <1>1, <1>2, <1>4, <4>1, <4>2, <4>3 DEF ScanSums
    <3> QED BY <1>0, <3>4, <3>6, <3>7 DEF IInv
  <2>9. CASE x.step = "copy"
    <3>1. PICK y : y = [x EXCEPT !.step = "add"]
      OBVIOUS
    <3>2. Becomes(x, y) /\ data' = [data EXCEPT ![a] = data[b]]
      BY <2>2, <2>9, <3>1 DEF DownSweep
    <3>3. y \in ScanIterations /\ y.i = x.i /\ y.step = "add" /\ y.t = x.t
      BY <1>2, <3>1 DEF ScanIterations
    <3>4. /\ Alone' /\ (\A j : Finished(j)' <=> Finished(j))
          /\ Adding(i)' /\ (\A j : j # i => (Adding(j)' <=> Adding(j)))
      BY <1>0, <2>2, <3>2, <3>3, GoesOn
    <3>5. doing' = (doing \ {x}) \cup {y}
      BY <3>2 DEF Becomes
    <3>6. /\ data' \in [0 .. size - 1 -> Int] /\ data'[a] = SumBefore(a, 2 ^ d)
          /\ \A k \in 0 .. size - 1 : k # a => data'[k] = data[k]
      BY <1>2, <2>2, <2>4, <2>6, <3>2
    <3>7. ScanShape'
      <4>1. doing' \subseteq ScanIterations
        BY <1>2, <3>3, <3>5
      <4> QED BY <1>0, <1>2, <1>4, <3>6, <4>1, ScanGoesOn
    <3>8. ScanSums'
      <4>1. \A z \in doing' : z.step # "load" => z.t = Sum(Mid(z.i), 2 ^ d)
        <5>1. x.t = Sum(Mid(x.i), 2 ^ d)
          BY <1>0, <2>9 DEF ScanSums
        <5> QED BY <1>0, <3>3, <3>5, <5>1 DEF ScanSums
      <4>2. Low(d)'
        BY <1>0, <1>2, <2>1, <2>2, <3>2, LowStays
      <4>3. ASSUME NEW j \in Segments(d) PROVE DownDone(j)'
        <5>1. CASE j = i
          BY <1>0, <1>1, <2>2, <2>3, <2>4, <2>5, <2>6, <3>4, <3>6, <5>1 DEF DownDone
        <5>2. CASE j # i
          <6>1. data'[Mid(j)] = data[Mid(j)] /\ data'[End(j)] = data[End(j)] /\ DownDone(j)
            BY <2>0, <2>7, <3>6, <5>2
          <6> QED BY <1>0, <1>1, <3>4, <5>2, <6>1 DEF DownDone
        <5> QED BY <5>1, <5>2
      <4> QED BY <1>0, <1>1, <1>2, <1>4, <4>1, <4>2, <4>3 DEF ScanSums
    <3> QED BY <1>0, <3>4, <3>7, <3>8 DEF IInv
  <2>10. CASE x.step = "add"
    <3>1. Over(x) /\ data' = [data EXCEPT ![b] = data[b] + x.t]
      BY <2>2, <2>10 DEF DownSweep
    <3>2. data[b] + x.t = SumBefore(b, 2 ^ d) /\ data[b] + x.t \in Int
      <4>1. x.t = Sum(a, 2 ^ d)
        BY <1>0, <2>2, <2>10 DEF ScanSums
      <4> QED BY ONLY <2>4, <2>6, <4>1
    <3>3. /\ Alone' /\ (\A j : Finished(j)' <=> Finished(j) \/ j = i)
          /\ \A j : j # i => (Adding(j)' <=> Adding(j))
      BY <1>0, <2>2, <3>1, IsOver
    <3>4. doing' = doing \ {x}
      BY <3>1 DEF Over
    <3>5. /\ data' \in [0 .. size - 1 -> Int] /\ data'[b] = SumBefore(b, 2 ^ d)
          /\ \A k \in 0 .. size - 1 : k # b => data'[k] = data[k]
      BY <1>2, <2>2, <3>1, <3>2
    <3>6. ScanShape'
      <4>1. doing' \subseteq ScanIterations
        BY <1>2, <3>4
      <4> QED BY <1>0, <1>2, <1>4, <3>5, <4>1, ScanGoesOn
    <3>7. ScanSums'
      <4>1. \A z \in doing' : z.step # "load" => z.t = Sum(Mid(z.i), 2 ^ d)
        BY <1>0, <3>4 DEF ScanSums
      <4>2. Low(d)'
        BY <1>0, <1>2, <2>1, <2>2, <3>1, LowStays
      <4>3. ASSUME NEW j \in Segments(d) PROVE DownDone(j)'
        <5>1. CASE j = i
          BY <1>0, <1>1, <2>2, <2>3, <2>6, <2>10, <3>3, <3>5, <5>1 DEF DownDone
        <5>2. CASE j # i
          <6>1. data'[Mid(j)] = data[Mid(j)] /\ data'[End(j)] = data[End(j)] /\ DownDone(j)
            BY <2>0, <2>7, <3>5, <5>2
          <6> QED BY <1>0, <1>1, <3>3, <5>2, <6>1 DEF DownDone
        <5> QED BY <5>1, <5>2
      <4> QED BY <1>0, <1>1, <1>2, <1>4, <4>1, <4>2, <4>3 DEF ScanSums
    <3> QED BY <1>0, <3>3, <3>6, <3>7 DEF IInv
  <2> QED BY <1>2, <2>8, <2>9, <2>10
<1> QED BY <1>2, <1>3, <1>4

\* An iteration of a scan begins.
LEMMA SweepBegins == ASSUME IInv, job.kernel = "scan", NEW i \in todo, Begin(i) PROVE IInv'
<1>0. /\ Alone /\ ScanShape /\ ScanSums /\ at # "end"
      /\ job' = job /\ at' = at /\ d' = d /\ data' = data
  BY DEF IInv, Begin, ScanShape
<1>1. /\ size' = size /\ Segments(d)' = Segments(d) /\ ScanIterations' = ScanIterations
      /\ \A j : Mid(j)' = Mid(j) /\ End(j)' = End(j)
  BY <1>0, SameLevel
<1>2. PICK y : y = [i |-> i, step |-> "load", t |-> 0]
  OBVIOUS
<1>3. y = Iteration(i) /\ y.i = i /\ y.step = "load"
  BY <1>2 DEF Iteration
<1>4. /\ Alone' /\ (\A j : Finished(j)' <=> Finished(j)) /\ (\A j : Adding(j)' <=> Adding(j))
      /\ doing' = doing \cup {y} /\ todo' = todo \ {i}
  BY <1>0, <1>3, Begins
<1>5. y \in ScanIterations
  BY <1>0, <1>2 DEF ScanIterations, ScanShape
<1>6. ScanShape'
  <2>1. todo' \subseteq Segments(d) /\ doing' \subseteq ScanIterations
    BY <1>0, <1>4, <1>5 DEF ScanShape
  <2>2. at = "up" => d < job.size_pow /\ \A z \in doing' : z.step # "copy"
    BY <1>0, <1>3, <1>4 DEF ScanShape
  <2>3. at = "down" /\ d = job.size_pow => \A z \in doing' : z.step = "load"
    BY <1>0, <1>3, <1>4 DEF ScanShape
  <2> QED BY <1>0, <1>1, <2>1, <2>2, <2>3 DEF ScanShape
<1>7. ScanSums'
  <2>1. \A z \in doing' : z.step # "load" => z.t = Sum(Mid(z.i), 2 ^ d)
    BY <1>0, <1>3, <1>4 DEF ScanSums
  <2>2. Low(d)'
    BY <1>0, <1>1 DEF ScanSums, Low
  <2>3. \A j \in Segments(d) : (UpDone(j) => UpDone(j)') /\ (DownDone(j) => DownDone(j)')
    BY <1>0, <1>1, <1>4 DEF UpDone, DownDone
  <2> QED BY <1>0, <1>1, <2>1, <2>2, <2>3 DEF ScanSums
<1> QED BY <1>0, <1>4, <1>6, <1>7 DEF IInv

-----------------------------------------------------------------------------
(* From one sweep to the next.                                             *)

\* Every multiple of twice as much is at the end of a segment.
LEMMA OnLast ==
  ASSUME NEW p, NEW m, IsLevel(p, m), NEW k \in 0 .. size - 1, Multiple(2 ^ (d + 1), k)
  PROVE  \E i \in Segments(d) : k = End(i)
<1>1. p \in Nat \ {0} /\ 2 ^ d = p /\ 2 ^ (d + 1) = 2 * p
  BY DEF IsLevel
<1>2. PICK q \in Nat : k + 1 = q * (2 * p)
  BY <1>1 DEF Multiple
<1>3. q * (2 * p) = (2 * q) * p /\ 2 * q \in Nat
  BY <1>1
<1>4. Multiple(2 ^ d, k)
  BY <1>1, <1>2, <1>3 DEF Multiple
<1>5. PICK i \in Segments(d) : k = Mid(i) \/ k = End(i)
  BY <1>4, OnEnds
<1>6. ~ Multiple(2 ^ (d + 1), Mid(i))
  BY EndsMultiple
<1> QED BY <1>5, <1>6

LEMMA UpResult ==
  ASSUME ScanShape, ScanSums, at = "up", d < job.size_pow, todo = {}, doing = {}
  PROVE  /\ Low(d + 1)
         /\ \A k \in 0 .. size - 1 : Multiple(2 ^ (d + 1), k) => data[k] = Sum(k, 2 ^ (d + 1))
<1>1. job.size_pow \in Nat /\ d \in Nat /\ Low(d) /\ \A i \in Segments(d) : UpDone(i) /\ Finished(i)
  BY DEF ScanShape, ScanSums, Finished
<1>2. PICK p, m : IsLevel(p, m)
  BY <1>1, Levels
<1>3. ASSUME NEW k \in 0 .. size - 1, Multiple(2 ^ (d + 1), k) PROVE data[k] = Sum(k, 2 ^ (d + 1))
  <2>1. PICK i \in Segments(d) : k = End(i)
    BY <1>2, <1>3, OnLast
  <2> QED BY <1>1, <2>1 DEF UpDone
<1>5. PICK top \in Nat : top = d + 1
  BY <1>1
<1>4. ASSUME NEW l \in 0 .. top - 1, NEW k \in 0 .. size - 1, Rank(k, l) PROVE data[k] = Sum(k, 2 ^ l)
  <2>1. CASE l \in 0 .. d - 1
    BY <1>1, <1>4, <2>1 DEF Low
  <2>2. CASE l = d
    <3>1. Multiple(2 ^ d, k) /\ ~ Multiple(2 ^ (d + 1), k)
      BY <1>4, <2>2 DEF Rank
    <3>2. PICK i \in Segments(d) : k = Mid(i) \/ k = End(i)
      BY <1>2, <3>1, OnEnds
    <3>3. k = Mid(i)
      BY <1>2, <3>1, <3>2, EndsMultiple
    <3> QED BY <1>1, <2>2, <3>3 DEF UpDone
  <2> QED BY <1>1, <1>5, <2>1, <2>2
<1>6. Low(top)
  BY <1>4 DEF Low
<1> QED BY <1>3, <1>5, <1>6

\* A multiple of the size of the vector is at the end of it.
LEMMA OnBack ==
  ASSUME job.size_pow \in Nat
  PROVE  /\ size \in Nat \ {0} /\ size - 1 \in 0 .. size - 1 /\ Multiple(2 ^ job.size_pow, size - 1)
         /\ \A k \in 0 .. size - 1 : Multiple(2 ^ job.size_pow, k) => k = size - 1
<1>1. PICK n \in Nat \ {0} : n = size /\ n = 2 ^ job.size_pow
  BY Powers DEF size
<1>2. n - 1 \in 0 .. n - 1 /\ n - 1 + 1 = 1 * n /\ 1 \in Nat
  OBVIOUS
<1>3. Multiple(n, n - 1)
  BY <1>2 DEF Multiple
<1>4. ASSUME NEW k \in 0 .. n - 1, Multiple(n, k) PROVE k = n - 1
  <2>1. PICK q \in Nat : k + 1 = q * n
    BY <1>4 DEF Multiple
  <2>2. CASE q = 0
    BY <2>1, <2>2
  <2>3. CASE q = 1
    BY <2>1, <2>3
  <2>4. CASE q >= 2
    <3>1. PICK e \in Nat : e = q - 2
      BY <2>4
    <3>2. q * n = 2 * n + e * n /\ e * n >= 0
      <4>1. (2 + e) * n = 2 * n + e * n /\ e * n >= 0
        OBVIOUS
      <4>2. q = 2 + e
        BY <3>1
      <4> QED BY <4>1, <4>2
    <3>3. PICK f \in Nat : f = e * n
      OBVIOUS
    <3>4. k + 1 = 2 * n + f
      BY <2>1, <3>2, <3>3
    <3> QED BY ONLY <3>4, f \in Nat, n \in Nat \ {0}, k \in 0 .. n - 1
  <2> QED BY <2>2, <2>3, <2>4
<1> QED BY <1>1, <1>2, <1>3, <1>4

LEMMA DownResult ==
  ASSUME ScanShape, ScanSums, at = "down", todo = {}, doing = {}, NEW k \in 0 .. size - 1, Multiple(2 ^ d, k)
  PROVE  data[k] = SumBefore(k, 2 ^ d)
<1>1. job.size_pow \in Nat /\ d \in 0 .. job.size_pow /\ d \in Nat
  BY DEF ScanShape
<1>2. CASE d = job.size_pow
  <2>1. k = size - 1 /\ size \in Nat /\ data[k] = 0
    BY <1>1, <1>2, OnBack DEF ScanSums
  <2>2. PICK n \in Nat : n = size /\ n = 2 ^ d
    BY <1>2, <2>1 DEF size
  <2>3. k + 1 - n = 0
    BY <2>1, <2>2
  <2>4. 2 ^ (k + 1 - n) - 1 = 0
    <3>1. 2 ^ (k + 1 - n) = 1
      BY <2>3, Powers, Zenon
    <3> QED BY <3>1
  <2> QED BY <2>1, <2>2, <2>4 DEF SumBefore
<1>3. CASE d < job.size_pow
  <2>1. \A i \in Segments(d) : DownDone(i) /\ Finished(i)
    BY <1>3 DEF ScanSums, Finished
  <2>2. PICK p, m : IsLevel(p, m)
    BY <1>1, <1>3, Levels
  <2>3. PICK i \in Segments(d) : k = Mid(i) \/ k = End(i)
    BY <2>2, OnEnds
  <2> QED BY <2>1, <2>3 DEF DownDone
<1> QED BY <1>1, <1>2, <1>3

\* What a new loop finds.
LEMMA NewSweep ==
  ASSUME ScanShape, job' = job, doing = {}, doing' = {}, NEW level \in 0 .. job.size_pow, d' = level, todo' = Segments(level),
         at' = "up" \/ at' = "down", at' = "up" => level < job.size_pow, data' \in [0 .. size - 1 -> Int]
  PROVE  /\ Alone' /\ ScanShape' /\ size' = size /\ Segments(d)' = Segments(level)
         /\ \A i \in Segments(level) : ~ Finished(i)' /\ ~ Adding(i)'
<1>1. size' = size /\ Segments(d)' = Segments(level)
  BY DEF size, Segments, Shift
<1>2. Alone' /\ \A i \in Segments(level) : ~ Finished(i)' /\ ~ Adding(i)'
  BY DEF Alone, Finished, Adding
<1>3. ScanShape'
  BY <1>1 DEF ScanShape
<1> QED BY <1>1, <1>2, <1>3

LEMMA NextSweepStep == ASSUME IInv, NextSweep PROVE IInv'
<1>0. /\ job.kernel = "scan" /\ Alone /\ ScanShape /\ ScanSums /\ at \in {"up", "down"}
      /\ todo = {} /\ doing = {} /\ job' = job /\ doing' = {}
      /\ job.size_pow \in Nat /\ d \in Nat /\ d \in 0 .. job.size_pow /\ Low(d) /\ data \in [0 .. size - 1 -> Int]
  BY DEF IInv, NextSweep, ScanShape, ScanSums
<1>1. \A z \in doing' : z.step # "load" => z.t = Sum(Mid(z.i)', 2 ^ d')
  BY <1>0
<1>2. CASE at = "up" /\ d + 1 < job.size_pow /\ Loop("up", d + 1, Segments(d + 1)) /\ UNCHANGED data
  <2>1. PICK level : level = d + 1 /\ level \in 0 .. job.size_pow /\ level < job.size_pow
    BY <1>0, <1>2
  <2>2. at' = "up" /\ d' = level /\ todo' = Segments(level) /\ data' = data
    BY <1>2, <2>1 DEF Loop
  <2>3. /\ Alone' /\ ScanShape' /\ size' = size /\ Segments(d)' = Segments(level)
        /\ \A i \in Segments(level) : ~ Finished(i)' /\ ~ Adding(i)'
    BY <1>0, <2>1, <2>2, NewSweep
  <2>4. /\ Low(d + 1)
        /\ \A k \in 0 .. size - 1 : Multiple(2 ^ (d + 1), k) => data[k] = Sum(k, 2 ^ (d + 1))
    BY <1>0, <1>2, UpResult
  <2>5. \A k \in 0 .. size - 1 : Multiple(2 ^ level, k) => data[k] = Sum(k, 2 ^ level)
    BY <2>1, <2>4
  <2>6. Low(d)'
    <3>1. Low(level)
      BY <2>1, <2>4
    <3> QED BY <2>2, <2>3, <3>1 DEF Low
  <2>7. ASSUME NEW i \in Segments(d)' PROVE UpDone(i)'
    <3>1. PICK p, m : IsLevel(p, m)'
      BY <1>0, <2>1, <2>2, LevelsNext
    <3>2. PICK a, b : /\ a = Mid(i)' /\ b = End(i)' /\ a \in 0 .. size - 1 /\ b \in 0 .. size - 1
                      /\ Multiple(2 ^ level, a) /\ Multiple(2 ^ level, b)
      BY <2>2, <2>3, <3>1, EndsNext
    <3>3. data'[a] = Sum(a, 2 ^ level) /\ data'[b] = Sum(b, 2 ^ level)
      BY <2>2, <2>5, <3>2
    <3> QED BY <2>2, <2>3, <3>2, <3>3 DEF UpDone
  <2>8. ScanSums'
    BY <1>1, <2>2, <2>6, <2>7 DEF ScanSums
  <2> QED BY <1>0, <2>3, <2>8 DEF IInv
<1>3. CASE /\ at = "up" /\ d + 1 >= job.size_pow
           /\ Loop("down", job.size_pow, Segments(job.size_pow))
           /\ data' = [data EXCEPT ![size - 1] = 0]
  <2>1. PICK level : level = job.size_pow /\ level \in 0 .. job.size_pow /\ level \in Nat
    BY <1>0
  <2>2. at' = "down" /\ d' = level /\ todo' = Segments(level)
    BY <1>3, <2>1 DEF Loop
  <2>3. /\ size \in Nat \ {0} /\ size - 1 \in 0 .. size - 1 /\ Multiple(2 ^ level, size - 1)
    BY <1>0, <2>1, OnBack
  <2>4. /\ data' \in [0 .. size - 1 -> Int] /\ data'[size - 1] = 0
        /\ \A k \in 0 .. size - 1 : k # size - 1 => data'[k] = data[k]
    BY <1>0, <1>3, <2>3
  <2>5. /\ Alone' /\ ScanShape' /\ size' = size /\ Segments(d)' = Segments(level)
    BY <1>0, <2>1, <2>2, <2>4, NewSweep
  <2>6. Low(level)
    <3>1. CASE d = level
      BY <1>0, <3>1
    <3>2. CASE d < level
      <4>1. level = d + 1
        BY <1>0, <1>3, <2>1, <3>2
      <4>2. Low(d + 1)
        BY <1>0, <1>3, <2>1, <3>2, UpResult
      <4> QED BY <4>1, <4>2
    <3> QED BY <1>0, <2>1, <3>1, <3>2
  <2>7. Low(d)'
    <3>1. ASSUME NEW l \in 0 .. level - 1, NEW k \in 0 .. size - 1, Rank(k, l) PROVE data'[k] = Sum(k, 2 ^ l)
      <4>1. l \in Nat /\ l < level
        BY <2>1
      <4>2. k # size - 1
        <5>1. SUFFICES ASSUME k = size - 1 PROVE FALSE
          OBVIOUS
        <5>2. k \in Nat /\ Multiple(2 ^ level, k)
          BY <2>3, <5>1
        <5>3. Multiple(2 ^ (l + 1), k)
          BY <2>1, <4>1, <5>2, Coarser
        <5> QED BY <3>1, <5>3 DEF Rank
      <4>3. data'[k] = data[k]
        BY <2>4, <4>2
      <4> QED BY <2>6, <3>1, <4>3 DEF Low
    <3> QED BY <2>2, <2>5, <3>1 DEF Low
  <2>8. ScanSums'
    <3>1. job'.size_pow = level /\ ~ (d' < job'.size_pow) /\ data'[size' - 1] = 0
      BY <1>0, <2>1, <2>2, <2>4, <2>5
    <3> QED BY <1>1, <2>2, <2>7, <3>1 DEF ScanSums
  <2> QED BY <1>0, <2>5, <2>8 DEF IInv
<1>4. CASE at = "down" /\ d > 0 /\ Loop("down", d - 1, Segments(d - 1)) /\ UNCHANGED data
  <2>1. PICK level \in Nat : level = d - 1 /\ level \in 0 .. job.size_pow /\ level < job.size_pow /\ d = level + 1
    <3>1. /\ d - 1 \in Nat /\ d - 1 \in 0 .. job.size_pow /\ d - 1 < job.size_pow /\ d = d - 1 + 1
      BY <1>0, <1>4
    <3> QED BY <3>1
  <2>2. at' = "down" /\ d' = level /\ todo' = Segments(level) /\ data' = data
    BY <1>4, <2>1 DEF Loop
  <2>3. /\ Alone' /\ ScanShape' /\ size' = size /\ Segments(d)' = Segments(level)
        /\ \A i \in Segments(level) : ~ Finished(i)' /\ ~ Adding(i)'
    BY <1>0, <2>1, <2>2, NewSweep
  <2>4. ASSUME NEW k \in 0 .. size - 1, Multiple(2 ^ (level + 1), k)
        PROVE  data[k] = SumBefore(k, 2 ^ (level + 1))
    <3>1. Multiple(2 ^ d, k)
      BY <2>1, <2>4
    <3>2. data[k] = SumBefore(k, 2 ^ d)
      BY <1>0, <1>4, <3>1, DownResult
    <3> QED BY <2>1, <3>2
  <2>5. Low(d)'
    <3>1. \A l \in 0 .. level - 1 : l \in 0 .. d - 1
      BY <2>1
    <3> QED BY <1>0, <2>2, <2>3, <3>1 DEF Low
  <2>6. ASSUME NEW i \in Segments(d)' PROVE DownDone(i)'
    <3>1. PICK p, m : IsLevel(p, m)'
      BY <1>0, <2>1, <2>2, LevelsNext
    <3>2. PICK a, b : /\ a = Mid(i)' /\ b = End(i)' /\ a \in 0 .. size - 1 /\ b \in 0 .. size - 1
                      /\ Rank(a, level) /\ Multiple(2 ^ (level + 1), b)
      BY <2>2, <2>3, <3>1, EndsNext DEF Rank
    <3>3. data'[a] = Sum(a, 2 ^ level)
      <4>1. level \in 0 .. d - 1
        BY <2>1
      <4> QED BY <1>0, <2>2, <3>2, <4>1 DEF Low
    <3>4. data'[b] = SumBefore(b, 2 ^ (level + 1))
      BY <2>2, <2>4, <3>2
    <3> QED BY <2>2, <2>3, <3>2, <3>3, <3>4 DEF DownDone
  <2>7. ScanSums'
    <3>1. d' # job'.size_pow
      BY <1>0, <2>1, <2>2
    <3> QED BY <1>1, <2>2, <2>5, <2>6, <3>1 DEF ScanSums
  <2> QED BY <1>0, <2>3, <2>7 DEF IInv
<1>5. CASE at = "down" /\ d = 0 /\ Loop("end", 0, {}) /\ UNCHANGED data
  <2>1. at' = "end" /\ d' = 0 /\ todo' = {} /\ data' = data
    BY <1>5 DEF Loop
  <2>2. size' = size
    BY <1>0 DEF size
  <2>3. ScanShape'
    BY <1>0, <2>1, <2>2 DEF ScanShape
  <2>4. ASSUME NEW k \in 0 .. size - 1 PROVE data[k] = 2 ^ k - 1
    <3>1. k \in Nat /\ k + 1 = (k + 1) * 1 /\ k + 1 \in Nat /\ k + 1 - 1 = k
      <4>1. size \in Nat
        BY <1>0, OnBack
      <4> QED BY <4>1
    <3>2. Multiple(1, k)
      BY <3>1 DEF Multiple
    <3>3. 2 ^ d = 1
      BY <1>5, Powers
    <3>4. data[k] = SumBefore(k, 1)
      BY <1>0, <1>5, <3>2, <3>3, DownResult
    <3> QED BY <3>1, <3>4, Zenon DEF SumBefore
  <2>5. ScanSums'
    BY <1>1, <2>1, <2>2, <2>4 DEF ScanSums
  <2>6. Alone'
    BY <1>0 DEF Alone
  <2> QED BY <1>0, <2>3, <2>5, <2>6 DEF IInv
<1> QED BY <1>2, <1>3, <1>4, <1>5 DEF NextSweep

-----------------------------------------------------------------------------
(* The blocks of a matrix.                                                 *)

\* Parts of the rounded length are enough for all of it.
LEMMA EnoughParts ==
  ASSUME NEW n \in Nat \ {0}, NEW blocks \in Nat \ {0}, NEW k, k = Fewer(blocks, n), NEW s, s = Ceil(n, k)
  PROVE  k \in Nat \ {0} /\ s \in Nat \ {0} /\ n <= k * s
<1>1. k \in Nat \ {0}
  BY DEF Fewer
<1>2. PICK z \in Nat : z = n + k - 1
  BY <1>1
<1>3. PICK q \in Nat, r \in 0 .. k - 1 : q = z \div k /\ z = k * q + r
  <2>1. z \div k \in Nat /\ z % k \in 0 .. k - 1 /\ z = k * (z \div k) + (z % k)
    BY ONLY <1>1, z \in Nat
  <2> QED BY <2>1
<1>4. s = q
  BY <1>2, <1>3 DEF Ceil
<1>5. n <= k * q
  <2>1. PICK f \in Nat : f = k * q
    BY <1>1
  <2> QED BY <1>1, <1>2, <1>3, <2>1
<1>6. q # 0
  <2>1. SUFFICES ASSUME q = 0 PROVE FALSE
    OBVIOUS
  <2> QED BY <1>1, <1>5, <2>1
<1> QED BY <1>1, <1>4, <1>5, <1>6

\* A part ends before the next begins.
LEMMA PartsApart ==
  ASSUME NEW a \in Nat, NEW b \in Nat, a < b, NEW s \in Nat
  PROVE  a * s + s <= b * s
<1>1. PICK c \in Nat : b = a + 1 + c
  <2>1. b - a - 1 \in Nat /\ b = a + 1 + (b - a - 1)
    OBVIOUS
  <2> QED BY <2>1
<1>2. (a + 1 + c) * s = a * s + s + c * s /\ c * s >= 0
  OBVIOUS
<1>3. PICK f \in Nat, g \in Nat : f = a * s /\ g = c * s
  OBVIOUS
<1> QED BY <1>1, <1>2, <1>3

LEMMA LastBegins ==
  ASSUME NEW k \in Nat \ {0}, NEW a \in 0 .. k - 1, NEW s \in Nat
  PROVE  a * s <= (k - 1) * s
<1>1. PICK b \in Nat : b = k - 1
  OBVIOUS
<1>2. PICK f \in Nat, g \in Nat : f = a * s /\ g = b * s
  <2>1. a * s \in Nat /\ b * s \in Nat
    OBVIOUS
  <2> QED BY <2>1
<1>3. CASE a = b
  BY <1>1, <1>3
<1>4. CASE a < b
  <2>1. a \in Nat
    OBVIOUS
  <2>2. a * s + s <= b * s
    BY ONLY <1>4, <2>1, b \in Nat, s \in Nat, PartsApart
  <2> QED BY <1>1, <1>2, <2>2
<1> QED BY <1>1, <1>3, <1>4

\* Every number below n is in one of the parts.
LEMMA PartOf ==
  ASSUME NEW n \in Nat, NEW k \in Nat, NEW s \in Nat \ {0}, n <= k * s, NEW r \in 0 .. n - 1
  PROVE  \E a \in 0 .. k - 1 : a * s <= r /\ r < a * s + s
<1>1. PICK q \in Nat, e \in 0 .. s - 1 : r = s * q + e
  <2>1. r \div s \in Nat /\ r % s \in 0 .. s - 1 /\ r = s * (r \div s) + (r % s)
    OBVIOUS
  <2> QED BY <2>1
<1>2. PICK f \in Nat : f = q * s /\ r = f + e
  BY <1>1
<1>3. q < k
  <2>1. SUFFICES ASSUME ~ (q < k) PROVE FALSE
    OBVIOUS
  <2>2. PICK c \in Nat : q = k + c
    <3>1. q - k \in Nat /\ q = k + (q - k)
      BY <2>1
    <3> QED BY <3>1
  <2>3. (k + c) * s = k * s + c * s /\ c * s >= 0
    OBVIOUS
  <2>4. PICK g \in Nat, h \in Nat : g = k * s /\ h = c * s
    OBVIOUS
  <2>5. f = g + h /\ n <= g /\ r < n /\ r >= f
    BY <1>2, <2>2, <2>3, <2>4
  <2> QED BY <2>5
<1>4. q \in 0 .. k - 1
  BY <1>3
<1>5. q * s <= r /\ r < q * s + s
  BY ONLY <1>2, e \in 0 .. s - 1, s \in Nat \ {0}, f \in Nat
<1> QED BY ONLY <1>4, <1>5, Zenon

LEMMA BlocksOf ==
  ASSUME IsTranspose(job)
  PROVE  /\ job.kernel # "scan" /\ {job.rows, job.columns, job.blocks} \subseteq Nat \ {0}
         /\ BlockRows \in Nat \ {0} /\ BlockRowSize \in Nat \ {0} /\ job.rows <= BlockRows * BlockRowSize
         /\ BlockColumns \in Nat \ {0} /\ BlockColumnSize \in Nat \ {0} /\ job.columns <= BlockColumns * BlockColumnSize
         /\ \A b \in Blocks :
              /\ b[1] \in 0 .. BlockRows - 1 /\ b[2] \in 0 .. BlockColumns - 1 /\ b = <<b[1], b[2]>>
              /\ FromRow(b) \in Nat /\ ToRow(b) \in Nat /\ ToRow(b) <= job.rows
              /\ ToRow(b) <= FromRow(b) + BlockRowSize /\ (FromRow(b) <= job.rows => FromRow(b) <= ToRow(b))
              /\ FromColumn(b) \in Nat /\ ToColumn(b) \in Nat /\ ToColumn(b) <= job.columns
              /\ ToColumn(b) <= FromColumn(b) + BlockColumnSize
              /\ (FromColumn(b) <= job.columns => FromColumn(b) <= ToColumn(b))
<1>1. job.kernel = "transpose" /\ {job.rows, job.columns, job.blocks} \subseteq Nat \ {0}
  BY DEF IsTranspose
<1>2. BlockRows \in Nat \ {0} /\ BlockRowSize \in Nat \ {0} /\ job.rows <= BlockRows * BlockRowSize
  <2>1. PICK n \in Nat \ {0}, k \in Nat \ {0} : n = job.rows /\ k = job.blocks
    BY <1>1
  <2>2. PICK a, s : a = BlockRows /\ s = BlockRowSize /\ a = Fewer(k, n) /\ s = Ceil(n, a)
    BY <2>1 DEF BlockRows, BlockRowSize
  <2>3. a \in Nat \ {0} /\ s \in Nat \ {0} /\ n <= a * s
    BY ONLY <2>2, n \in Nat \ {0}, k \in Nat \ {0}, EnoughParts
  <2> QED BY <2>1, <2>2, <2>3
<1>3. BlockColumns \in Nat \ {0} /\ BlockColumnSize \in Nat \ {0} /\ job.columns <= BlockColumns * BlockColumnSize
  <2>1. PICK n \in Nat \ {0}, k \in Nat \ {0} : n = job.columns /\ k = job.blocks
    BY <1>1
  <2>2. PICK a, s : a = BlockColumns /\ s = BlockColumnSize /\ a = Fewer(k, n) /\ s = Ceil(n, a)
    BY <2>1 DEF BlockColumns, BlockColumnSize
  <2>3. a \in Nat \ {0} /\ s \in Nat \ {0} /\ n <= a * s
    BY ONLY <2>2, n \in Nat \ {0}, k \in Nat \ {0}, EnoughParts
  <2> QED BY <2>1, <2>2, <2>3
<1>4. ASSUME NEW b \in Blocks
      PROVE  /\ b[1] \in 0 .. BlockRows - 1 /\ b[2] \in 0 .. BlockColumns - 1 /\ b = <<b[1], b[2]>>
             /\ FromRow(b) \in Nat /\ ToRow(b) \in Nat /\ ToRow(b) <= job.rows
             /\ ToRow(b) <= FromRow(b) + BlockRowSize /\ (FromRow(b) <= job.rows => FromRow(b) <= ToRow(b))
             /\ FromColumn(b) \in Nat /\ ToColumn(b) \in Nat /\ ToColumn(b) <= job.columns
             /\ ToColumn(b) <= FromColumn(b) + BlockColumnSize
             /\ (FromColumn(b) <= job.columns => FromColumn(b) <= ToColumn(b))
  <2>1. b[1] \in 0 .. BlockRows - 1 /\ b[2] \in 0 .. BlockColumns - 1 /\ b = <<b[1], b[2]>>
    BY <1>4 DEF Blocks
  <2>2. PICK u \in Nat, v \in Nat, x \in Nat \ {0}, y \in Nat \ {0} :
          u = b[1] /\ v = b[2] /\ x = BlockRowSize /\ y = BlockColumnSize
    BY <1>2, <1>3, <2>1
  <2>3. PICK f \in Nat, g \in Nat : f = FromRow(b) /\ g = FromColumn(b)
    <3>1. u * x \in Nat /\ v * y \in Nat
      OBVIOUS
    <3> QED BY <2>2, <3>1 DEF FromRow, FromColumn
  <2>4. PICK r \in Nat, c \in Nat : r = job.rows /\ c = job.columns
    BY <1>1
  <2>5. ToRow(b) = (IF r <= f + x THEN r ELSE f + x) /\ ToColumn(b) = (IF c <= g + y THEN c ELSE g + y)
    BY <2>2, <2>3, <2>4 DEF ToRow, ToColumn, Fewer
  <2> QED BY <2>1, <2>2, <2>3, <2>4, <2>5
<1> QED BY <1>1, <1>2, <1>3, <1>4

\* No cell is in two blocks.
LEMMA BlocksApart ==
  ASSUME IsTranspose(job), NEW a \in Blocks, NEW b \in Blocks, a # b, NEW r \in Int, NEW c \in Int,
         FromRow(a) <= r, r < ToRow(a), FromRow(b) <= r, r < ToRow(b),
         FromColumn(a) <= c, c < ToColumn(a), FromColumn(b) <= c, c < ToColumn(b)
  PROVE  FALSE
<1>1. ASSUME NEW x \in Nat, NEW y \in Nat, x # y, NEW s \in Nat, NEW t \in Int,
             x * s <= t, t < x * s + s, y * s <= t, t < y * s + s
      PROVE  FALSE
  <2>1. PICK f \in Nat, g \in Nat : f = x * s /\ g = y * s
    OBVIOUS
  <2>2. f + s <= g \/ g + s <= f
    <3>1. CASE x < y
      BY <2>1, <3>1, PartsApart
    <3>2. CASE y < x
      BY <2>1, <3>2, PartsApart
    <3> QED BY <1>1, <3>1, <3>2
  <2> QED BY <1>1, <2>1, <2>2
<1>2. PICK u \in Nat, v \in Nat, w \in Nat, z \in Nat, x \in Nat, y \in Nat :
        /\ u = a[1] /\ v = a[2] /\ w = b[1] /\ z = b[2] /\ x = BlockRowSize /\ y = BlockColumnSize
        /\ a = <<u, v>> /\ b = <<w, z>>
  BY BlocksOf
<1>3. /\ FromRow(a) = u * x /\ FromRow(b) = w * x /\ FromColumn(a) = v * y /\ FromColumn(b) = z * y
  BY <1>2 DEF FromRow, FromColumn
<1>4. PICK e \in Nat, f \in Nat, g \in Nat, h \in Nat : e = u * x /\ f = w * x /\ g = v * y /\ h = z * y
  OBVIOUS
<1>5. /\ e <= r /\ r < e + x /\ f <= r /\ r < f + x
      /\ g <= c /\ c < g + y /\ h <= c /\ c < h + y
  <2>1. /\ ToRow(a) <= e + x /\ ToRow(b) <= f + x /\ ToColumn(a) <= g + y /\ ToColumn(b) <= h + y
        /\ ToRow(a) \in Int /\ ToRow(b) \in Int /\ ToColumn(a) \in Int /\ ToColumn(b) \in Int
    BY <1>2, <1>3, <1>4, BlocksOf
  <2> QED BY <1>3, <1>4, <2>1
<1>6. u # w \/ v # z
  BY <1>2
<1>7. CASE u # w
  BY <1>1, <1>4, <1>5, <1>7
<1>8. CASE v # z
  BY <1>1, <1>4, <1>5, <1>8
<1> QED BY <1>6, <1>7, <1>8

\* Every cell of the output is in a block.
LEMMA BlocksCover ==
  ASSUME IsTranspose(job), NEW c \in 0 .. job.columns - 1, NEW r \in 0 .. job.rows - 1
  PROVE  \E b \in Blocks : r \in FromRow(b) .. ToRow(b) - 1 /\ c \in FromColumn(b) .. ToColumn(b) - 1
<1>1. PICK n \in Nat, w \in Nat, k \in Nat, l \in Nat, x \in Nat \ {0}, y \in Nat \ {0} :
        /\ n = job.rows /\ w = job.columns /\ k = BlockRows /\ l = BlockColumns
        /\ x = BlockRowSize /\ y = BlockColumnSize /\ n <= k * x /\ w <= l * y
  BY BlocksOf
<1>2. PICK u \in 0 .. k - 1 : u * x <= r /\ r < u * x + x
  BY <1>1, PartOf
<1>3. PICK v \in 0 .. l - 1 : v * y <= c /\ c < v * y + y
  BY <1>1, PartOf
<1>4. PICK b : b = <<u, v>> /\ b \in Blocks
  <2>1. u \in 0 .. BlockRows - 1 /\ v \in 0 .. BlockColumns - 1
    BY <1>1
  <2>2. <<u, v>> \in Blocks
    BY <2>1, Zenon DEF Blocks
  <2> QED BY <2>2
<1>5. PICK f \in Nat, g \in Nat : f = u * x /\ g = v * y
  OBVIOUS
<1>6. FromRow(b) = f /\ FromColumn(b) = g
  BY <1>1, <1>4, <1>5 DEF FromRow, FromColumn
<1>7. ToRow(b) = (IF n <= f + x THEN n ELSE f + x) /\ ToColumn(b) = (IF w <= g + y THEN w ELSE g + y)
  BY <1>1, <1>6 DEF ToRow, ToColumn, Fewer
<1>8. r \in f .. ToRow(b) - 1 /\ c \in g .. ToColumn(b) - 1
  BY <1>1, <1>2, <1>3, <1>5, <1>7
<1> QED BY <1>4, <1>6, <1>8

LEMMA CellInside ==
  ASSUME IsTranspose(job), NEW b \in Blocks,
         NEW r \in FromRow(b) .. ToRow(b) - 1, NEW c \in FromColumn(b) .. ToColumn(b) - 1
  PROVE  /\ r \in Nat /\ c \in Nat /\ <<c, r>> \in Image /\ r < ToRow(b) /\ c < ToColumn(b)
         /\ FromRow(b) <= r /\ FromColumn(b) <= c
<1>1. PICK f \in Nat, t \in Nat, g \in Nat, u \in Nat, n \in Nat, w \in Nat :
        /\ f = FromRow(b) /\ t = ToRow(b) /\ g = FromColumn(b) /\ u = ToColumn(b)
        /\ n = job.rows /\ w = job.columns /\ t <= n /\ u <= w
  BY BlocksOf
<1>2. r \in f .. t - 1 /\ c \in g .. u - 1
  BY <1>1
<1>3. r \in 0 .. n - 1 /\ c \in 0 .. w - 1 /\ r \in Nat /\ c \in Nat /\ f <= r /\ r < t /\ g <= c /\ c < u
  BY ONLY <1>2, f \in Nat, t \in Nat, g \in Nat, u \in Nat, n \in Nat, w \in Nat, <1>1
<1> QED BY <1>1, <1>3 DEF Image

-----------------------------------------------------------------------------
(* The iterations of a transposition.                                      *)

LEMMA SameBlocks ==
  ASSUME job' = job
  PROVE  /\ Image' = Image /\ Blocks' = Blocks /\ BlockIterations' = BlockIterations
         /\ \A b : /\ FromRow(b)' = FromRow(b) /\ ToRow(b)' = ToRow(b)
                   /\ FromColumn(b)' = FromColumn(b) /\ ToColumn(b)' = ToColumn(b)
<1>1. BlockRows' = BlockRows /\ BlockColumns' = BlockColumns
  BY DEF BlockRows, BlockColumns
<1>2. BlockRowSize' = BlockRowSize /\ BlockColumnSize' = BlockColumnSize
  BY <1>1 DEF BlockRowSize, BlockColumnSize
<1>3. Image' = Image /\ Blocks' = Blocks
  BY <1>1 DEF Image, Blocks
<1>4. \A b : FromRow(b)' = FromRow(b) /\ FromColumn(b)' = FromColumn(b)
  BY <1>2 DEF FromRow, FromColumn
<1> QED BY <1>2, <1>3, <1>4 DEF BlockIterations, ToRow, ToColumn

\* Where an iteration of the right shape is in its block.
Placed(x) ==
  /\ FromRow(x.i) <= x.row /\ FromColumn(x.i) <= x.column
  /\ FromRow(x.i) <= ToRow(x.i) => x.row <= ToRow(x.i)
  /\ FromColumn(x.i) <= ToColumn(x.i) => x.column <= ToColumn(x.i)

LEMMA BlocksGoOn ==
  ASSUME IInv, job.kernel # "scan", job' = job, at' = at, Alone',
         data' \in [Image -> {Unwritten} \cup (Nat \X Nat)],
         todo' \subseteq Blocks, doing' \subseteq BlockIterations, at # "end",
         \A y \in doing' : y \in doing \/ Placed(y)
  PROVE  Alone' /\ TransposeShape' /\ Within'
<1>1. TransposeShape /\ Within
  BY DEF IInv
<1>2. TransposeShape'
  BY <1>1, SameBlocks DEF TransposeShape, IsTranspose
<1>3. Within'
  <2>1. SUFFICES ASSUME NEW y \in doing'
                 PROVE  /\ FromRow(y.i) <= y.row /\ FromColumn(y.i) <= y.column
                        /\ FromRow(y.i) <= ToRow(y.i) => y.row <= ToRow(y.i)
                        /\ FromColumn(y.i) <= ToColumn(y.i) => y.column <= ToColumn(y.i)
    BY SameBlocks DEF Within
  <2> QED BY <1>1, <2>1 DEF Within, Placed
<1> QED BY <1>2, <1>3

LEMMA CopyCellStep == ASSUME IInv, job.kernel # "scan", NEW x \in doing, CopyCell(x) PROVE IInv'
<1>0. /\ Alone /\ TransposeShape /\ Within /\ Copied /\ at = "blocks" /\ IsTranspose(job)
      /\ job' = job /\ at' = at /\ d' = d /\ todo' = todo
  BY DEF IInv, CopyCell, TransposeShape
<1>1. /\ x \in BlockIterations /\ x.i \in Blocks /\ x.row \in Nat /\ x.column \in Nat
      /\ data \in [Image -> {Unwritten} \cup (Nat \X Nat)] /\ Placed(x)
  BY <1>0 DEF TransposeShape, BlockIterations, Within, Placed
<1>2. PICK y : y = [x EXCEPT !.column = x.column + 1]
  OBVIOUS
<1>3. /\ Becomes(x, y) /\ doing' = (doing \ {x}) \cup {y} /\ y \in BlockIterations
      /\ y.i = x.i /\ y.row = x.row /\ y.column = x.column + 1
  BY <1>1, <1>2 DEF CopyCell, Becomes, BlockIterations
<1>4. PICK cell : cell = <<x.column, x.row>> /\ cell \in Image /\ data' = [data EXCEPT ![cell] = <<x.row, x.column>>]
  BY <1>1 DEF CopyCell
<1>5. /\ data' \in [Image -> {Unwritten} \cup (Nat \X Nat)] /\ data'[cell] = <<x.row, x.column>>
      /\ \A k \in Image : k # cell => data'[k] = data[k]
  BY <1>1, <1>4
<1>6. Alone'
  BY <1>0, <1>3, GoesOn
<1>7. Placed(y)
  <2>1. PICK f, t, g, u : f = FromRow(x.i) /\ t = ToRow(x.i) /\ g = FromColumn(x.i) /\ u = ToColumn(x.i)
    OBVIOUS
  <2>2. f \in Nat /\ t \in Nat /\ g \in Nat /\ u \in Nat
    BY <1>0, <1>1, <2>1, BlocksOf
  <2>3. x.column # u
    BY <2>1 DEF CopyCell
  <2>4. f <= x.row /\ g <= x.column /\ (f <= t => x.row <= t) /\ (g <= u => x.column <= u)
    BY <1>1, <2>1 DEF Placed
  <2>5. f <= y.row /\ g <= y.column /\ (f <= t => y.row <= t) /\ (g <= u => y.column <= u)
    BY <1>1, <1>3, <2>2, <2>3, <2>4
  <2> QED BY <1>3, <2>1, <2>5 DEF Placed
<1>8. TransposeShape' /\ Within'
  <2>1. todo' \subseteq Blocks /\ doing' \subseteq BlockIterations
    BY <1>0, <1>3 DEF TransposeShape
  <2> QED BY <1>0, <1>3, <1>5, <1>6, <1>7, <2>1, BlocksGoOn
<1>9. ASSUME NEW b \in Blocks, NEW r \in FromRow(b) .. ToRow(b) - 1, NEW c \in FromColumn(b) .. ToColumn(b) - 1,
             b \notin todo, \A z \in doing' : z.i = b => Passed(z, r, c)
      PROVE  data'[<<c, r>>] = <<r, c>>
  <2>0. r \in Nat /\ c \in Nat /\ <<c, r>> \in Image
    BY <1>0, CellInside
  <2>1. CASE <<c, r>> = cell
    BY <1>4, <1>5, <2>1
  <2>2. CASE <<c, r>> # cell
    <3>1. \A z \in doing : z.i = b => Passed(z, r, c)
      <4>1. SUFFICES ASSUME NEW z \in doing, z.i = b PROVE Passed(z, r, c)
        OBVIOUS
      <4>2. CASE z = x
        <5>1. Passed(y, r, c)
          BY <1>3, <1>9, <4>1, <4>2
        <5>2. ~ (r = x.row /\ c = x.column)
          BY <1>4, <2>2
        <5> QED BY <1>1, <1>3, <2>0, <4>2, <5>1, <5>2 DEF Passed
      <4>3. CASE z # x
        BY <1>3, <1>9, <4>1, <4>3
      <4> QED BY <4>2, <4>3
    <3>2. data[<<c, r>>] = <<r, c>>
      BY <1>0, <1>9, <3>1 DEF Copied
    <3> QED BY <1>5, <2>0, <2>2, <3>2
  <2> QED BY <2>1, <2>2
<1>10. Copied'
  BY <1>0, <1>9, SameBlocks DEF Copied, Passed
<1> QED BY <1>0, <1>6, <1>8, <1>10 DEF IInv

LEMMA RowCopiedStep == ASSUME IInv, job.kernel # "scan", NEW x \in doing, RowCopied(x) PROVE IInv'
<1>0. /\ Alone /\ TransposeShape /\ Within /\ Copied /\ at = "blocks" /\ IsTranspose(job)
      /\ job' = job /\ at' = at /\ d' = d /\ todo' = todo /\ data' = data
  BY DEF IInv, RowCopied, TransposeShape
<1>1. /\ x \in BlockIterations /\ x.i \in Blocks /\ x.row \in Nat /\ x.column \in Nat /\ Placed(x)
      /\ data \in [Image -> {Unwritten} \cup (Nat \X Nat)]
  BY <1>0 DEF TransposeShape, BlockIterations, Within, Placed
<1>2. PICK f, t, g, u : /\ f = FromRow(x.i) /\ t = ToRow(x.i) /\ g = FromColumn(x.i) /\ u = ToColumn(x.i)
                        /\ f \in Nat /\ t \in Nat /\ g \in Nat /\ u \in Nat
  BY <1>0, <1>1, BlocksOf
<1>3. PICK h, y : h = x.row + 1 /\ y = [x EXCEPT !.row = h, !.column = g]
  OBVIOUS
<1>4. /\ Becomes(x, y) /\ doing' = (doing \ {x}) \cup {y} /\ y \in BlockIterations
      /\ y.i = x.i /\ y.row = x.row + 1 /\ y.column = g
  <2>1. Becomes(x, y)
    BY <1>2, <1>3, Zenon DEF RowCopied
  <2>2. h \in Nat
    BY <1>1, <1>3
  <2>3. y \in BlockIterations /\ y.i = x.i /\ y.row = h /\ y.column = g
    <3>1. PICK B : B = Blocks
      OBVIOUS
    <3>2. x \in [i : B, row : Nat, column : Nat]
      BY <1>1, <3>1 DEF BlockIterations
    <3>3. y \in [i : B, row : Nat, column : Nat] /\ y.i = x.i /\ y.row = h /\ y.column = g
      BY ONLY <1>2, <1>3, <2>2, <3>2
    <3> QED BY <3>1, <3>3 DEF BlockIterations
  <2> QED BY <1>3, <2>1, <2>3 DEF Becomes
<1>5. x.row # t /\ x.column = u
  BY <1>2 DEF RowCopied
<1>6. Alone'
  BY <1>0, <1>4, GoesOn
<1>7. Placed(y)
  <2>1. f <= x.row /\ g <= x.column /\ (f <= t => x.row <= t)
    BY <1>1, <1>2 DEF Placed
  <2>2. f <= y.row /\ g <= y.column /\ (f <= t => y.row <= t) /\ (g <= u => y.column <= u)
    BY <1>1, <1>2, <1>4, <1>5, <2>1
  <2> QED BY <1>2, <1>4, <2>2 DEF Placed
<1>8. TransposeShape' /\ Within'
  <2>1. todo' \subseteq Blocks /\ doing' \subseteq BlockIterations
    BY <1>0, <1>4 DEF TransposeShape
  <2> QED BY <1>0, <1>1, <1>4, <1>6, <1>7, <2>1, BlocksGoOn
<1>9. ASSUME NEW b \in Blocks, NEW r \in FromRow(b) .. ToRow(b) - 1, NEW c \in FromColumn(b) .. ToColumn(b) - 1,
             b \notin todo, \A z \in doing' : z.i = b => Passed(z, r, c)
      PROVE  data'[<<c, r>>] = <<r, c>>
  <2>0. r \in Nat /\ c \in Nat
    BY <1>0, CellInside
  <2>1. \A z \in doing : z.i = b => Passed(z, r, c)
    <3>1. SUFFICES ASSUME NEW z \in doing, z.i = b PROVE Passed(z, r, c)
      OBVIOUS
    <3>2. CASE z = x
      <4>1. Passed(y, r, c)
        BY <1>4, <1>9, <3>1, <3>2
      <4>2. g <= c /\ c < u
        BY <1>2, <3>1, <3>2
      <4>3. r < x.row \/ (r = x.row /\ c < x.column)
        BY <1>1, <1>2, <1>4, <1>5, <2>0, <4>1, <4>2 DEF Passed
      <4> QED BY <3>2, <4>3 DEF Passed
    <3>3. CASE z # x
      BY <1>4, <1>9, <3>1, <3>3
    <3> QED BY <3>2, <3>3
  <2> QED BY <1>0, <1>9, <2>1 DEF Copied
<1>10. Copied'
  BY <1>0, <1>9, SameBlocks DEF Copied, Passed
<1> QED BY <1>0, <1>6, <1>8, <1>10 DEF IInv

LEMMA BlockCopiedStep == ASSUME IInv, job.kernel # "scan", NEW x \in doing, BlockCopied(x) PROVE IInv'
<1>0. /\ Alone /\ TransposeShape /\ Within /\ Copied /\ at = "blocks" /\ IsTranspose(job)
      /\ job' = job /\ at' = at /\ d' = d /\ todo' = todo /\ data' = data
      /\ Over(x) /\ doing' = doing \ {x}
  BY DEF IInv, BlockCopied, TransposeShape, Over
<1>1. /\ x \in BlockIterations /\ x.i \in Blocks /\ x.row \in Nat /\ x.row = ToRow(x.i)
      /\ data \in [Image -> {Unwritten} \cup (Nat \X Nat)]
  BY <1>0 DEF TransposeShape, BlockIterations, BlockCopied
<1>2. Alone'
  BY <1>0, IsOver
<1>3. TransposeShape' /\ Within'
  <2>1. todo' \subseteq Blocks /\ doing' \subseteq BlockIterations
    BY <1>0 DEF TransposeShape
  <2> QED BY <1>0, <1>1, <1>2, <2>1, BlocksGoOn
<1>4. ASSUME NEW b \in Blocks, NEW r \in FromRow(b) .. ToRow(b) - 1, NEW c \in FromColumn(b) .. ToColumn(b) - 1,
             b \notin todo, \A z \in doing' : z.i = b => Passed(z, r, c)
      PROVE  data'[<<c, r>>] = <<r, c>>
  <2>1. r \in Nat /\ r < ToRow(b)
    BY <1>0, CellInside
  <2>2. \A z \in doing : z.i = b => Passed(z, r, c)
    BY <1>0, <1>1, <1>4, <2>1 DEF Passed
  <2> QED BY <1>0, <1>4, <2>2 DEF Copied
<1>5. Copied'
  BY <1>0, <1>4, SameBlocks DEF Copied, Passed
<1> QED BY <1>0, <1>2, <1>3, <1>5 DEF IInv

LEMMA BlockBegins == ASSUME IInv, job.kernel # "scan", NEW i \in todo, Begin(i) PROVE IInv'
<1>0. /\ Alone /\ TransposeShape /\ Within /\ Copied /\ at = "blocks" /\ IsTranspose(job) /\ i \in Blocks
      /\ job' = job /\ at' = at /\ data' = data /\ data \in [Image -> {Unwritten} \cup (Nat \X Nat)]
  BY DEF IInv, Begin, TransposeShape
<1>1. PICK f, t, g, u : /\ f = FromRow(i) /\ t = ToRow(i) /\ g = FromColumn(i) /\ u = ToColumn(i)
                        /\ f \in Nat /\ t \in Nat /\ g \in Nat /\ u \in Nat
  BY <1>0, BlocksOf
<1>2. PICK y : y = [i |-> i, row |-> f, column |-> g]
  OBVIOUS
<1>3. /\ y = Iteration(i) /\ y.i = i /\ y.row = f /\ y.column = g /\ y \in BlockIterations
  BY <1>0, <1>1, <1>2 DEF Iteration, BlockIterations
<1>4. Alone' /\ doing' = doing \cup {y} /\ todo' = todo \ {i}
  BY <1>0, <1>3, Begins
<1>5. Placed(y)
  <2>1. f <= y.row /\ g <= y.column /\ (f <= t => y.row <= t) /\ (g <= u => y.column <= u)
    BY <1>1, <1>3
  <2> QED BY <1>1, <1>3, <2>1 DEF Placed
<1>6. TransposeShape' /\ Within'
  <2>1. todo' \subseteq Blocks /\ doing' \subseteq BlockIterations
    BY <1>0, <1>3, <1>4 DEF TransposeShape
  <2> QED BY <1>0, <1>4, <1>5, <2>1, BlocksGoOn
<1>7. ASSUME NEW b \in Blocks, NEW r \in FromRow(b) .. ToRow(b) - 1, NEW c \in FromColumn(b) .. ToColumn(b) - 1,
             b \notin todo', \A z \in doing' : z.i = b => Passed(z, r, c)
      PROVE  data'[<<c, r>>] = <<r, c>>
  <2>1. r \in Nat /\ c \in Nat /\ FromRow(b) <= r /\ FromColumn(b) <= c
    BY <1>0, CellInside
  <2>2. b # i
    <3>1. SUFFICES ASSUME b = i PROVE FALSE
      OBVIOUS
    <3>2. Passed(y, r, c)
      BY <1>3, <1>4, <1>7, <3>1
    <3> QED BY <1>1, <1>3, <2>1, <3>1, <3>2 DEF Passed
  <2> QED BY <1>0, <1>4, <1>7, <2>2 DEF Copied
<1>8. Copied'
  BY <1>0, <1>7, SameBlocks DEF Copied, Passed
<1> QED BY <1>0, <1>4, <1>6, <1>8 DEF IInv

LEMMA TransposedStep == ASSUME IInv, job.kernel # "scan", Transposed PROVE IInv'
<1>0. /\ Alone /\ TransposeShape /\ Within /\ Copied /\ IsTranspose(job)
      /\ job' = job /\ at' = "end" /\ data' = data /\ todo = {} /\ todo' = {} /\ doing = {} /\ doing' = {}
  BY DEF IInv, Transposed, TransposeShape, Loop
<1>1. Alone' /\ Within'
  <2>1. Alone'
    BY <1>0 DEF Alone
  <2>2. Within'
    BY <1>0, Zenon DEF Within
  <2> QED BY <2>1, <2>2
<1>2. TransposeShape'
  BY <1>0, SameBlocks DEF TransposeShape, IsTranspose
<1>3. Copied'
  BY <1>0, SameBlocks DEF Copied, Passed
<1> QED BY <1>0, <1>1, <1>2, <1>3 DEF IInv

-----------------------------------------------------------------------------
(* The theorems.                                                           *)

LEMMA ScanInit == ASSUME Init, IsScan(job) PROVE IInv
<1>1. /\ job.kernel = "scan" /\ job.size_pow \in Nat /\ at = "up" /\ d = 0 /\ doing = {}
      /\ data = [k \in 0 .. size - 1 |-> 2 ^ k]
      /\ todo = IF job.size_pow = 0 THEN {} ELSE Segments(0)
  BY DEF Init, IsScan
<1>2. Alone
  BY <1>1 DEF Alone
<1>3. \A k \in 0 .. size - 1 : k \in Nat /\ 2 ^ k \in Nat
  <2>1. size \in Nat
    BY <1>1, OnBack
  <2>2. \A k \in 0 .. size - 1 : k \in Nat
    BY <2>1
  <2> QED BY <2>2, Powers
<1>4. data \in [0 .. size - 1 -> Int]
  BY <1>1, <1>3
<1>5. ScanShape
  <2>1. todo \subseteq Segments(d) /\ (d < job.size_pow \/ todo = {})
    BY <1>1
  <2> QED BY <1>1, <1>4, <2>1 DEF ScanShape
<1>6. ASSUME d < job.size_pow, NEW i \in Segments(d) PROVE UpDone(i)
  <2>1. ~ Finished(i)
    BY <1>1, <1>6 DEF Finished
  <2>2. PICK p, m : IsLevel(p, m)
    BY <1>1, <1>6, Levels
  <2>3. ASSUME NEW k \in 0 .. size - 1 PROVE data[k] = Sum(k, 2 ^ d)
    <3>1. PICK x \in Nat, y \in Nat : x = 2 ^ k /\ y = 2 ^ (k + 1) /\ y = x + x
      BY <1>3, Powers, PowerStep
    <3>2. 2 ^ d = 1 /\ k + 1 - 1 = k
      BY <1>1, <1>3, Powers
    <3>3. Sum(k, 2 ^ d) = y - x
      BY <3>1, <3>2, Zenon DEF Sum
    <3>4. y - x = x
      BY <3>1
    <3> QED BY <1>1, <3>1, <3>3, <3>4
  <2>4. Mid(i) \in 0 .. size - 1 /\ End(i) \in 0 .. size - 1
    BY <1>6, <2>2 DEF IsLevel
  <2> QED BY <2>1, <2>3, <2>4 DEF UpDone
<1>7. Low(d)
  BY <1>1 DEF Low
<1>8. ScanSums
  BY <1>1, <1>6, <1>7 DEF ScanSums
<1> QED BY <1>1, <1>2, <1>5, <1>8 DEF IInv

LEMMA TransposeInit == ASSUME Init, IsTranspose(job) PROVE IInv
<1>1. /\ job.kernel # "scan" /\ at = "blocks" /\ doing = {} /\ todo = Blocks
      /\ data = [c \in Image |-> Unwritten]
  BY DEF Init, IsTranspose, Image
<1>2. Alone
  BY <1>1 DEF Alone
<1>3. TransposeShape
  BY <1>1 DEF TransposeShape
<1>4. Within /\ Copied
  BY <1>1 DEF Within, Copied
<1> QED BY <1>1, <1>2, <1>3, <1>4 DEF IInv

LEMMA InitInv == Init => IInv
<1> SUFFICES ASSUME Init PROVE IInv
  OBVIOUS
<1>1. IsScan(job) \/ IsTranspose(job)
  BY JobsAssumption DEF Init
<1> QED BY <1>1, ScanInit, TransposeInit

LEMMA StepInv == IInv /\ [Next]_vars => IInv'
<1> SUFFICES ASSUME IInv, [Next]_vars PROVE IInv'
  OBVIOUS
<1>1. CASE UNCHANGED vars
  <2>1. /\ job' = job /\ at' = at /\ d' = d /\ todo' = todo /\ doing' = doing /\ data' = data
    BY <1>1 DEF vars
  <2>2. Alone'
    BY <2>1 DEF IInv, Alone
  <2>3. ASSUME job.kernel = "scan" PROVE ScanShape' /\ ScanSums'
    <3>1. ScanShape /\ ScanSums
      BY <2>3 DEF IInv
    <3>2. /\ size' = size /\ Segments(d)' = Segments(d) /\ ScanIterations' = ScanIterations
          /\ \A i : Mid(i)' = Mid(i) /\ End(i)' = End(i)
      BY <2>1, SameLevel
    <3>3. ScanShape'
      BY <2>1, <3>1, <3>2 DEF ScanShape
    <3>4. \A i : Finished(i)' = Finished(i) /\ Adding(i)' = Adding(i)
      BY <2>1 DEF Finished, Adding
    <3>5. Low(d)' <=> Low(d)
      BY <2>1, <3>2 DEF Low
    <3>6. \A i : UpDone(i) => UpDone(i)'
      BY <2>1, <3>2, <3>4 DEF UpDone
    <3>7. \A i : DownDone(i) => DownDone(i)'
      BY <2>1, <3>2, <3>4 DEF DownDone
    <3> QED BY <2>1, <3>1, <3>2, <3>3, <3>5, <3>6, <3>7 DEF ScanSums
  <2>4. ASSUME job.kernel # "scan" PROVE TransposeShape' /\ Within' /\ Copied'
    <3>1. TransposeShape /\ Within /\ Copied
      BY <2>4 DEF IInv
    <3>2. TransposeShape' /\ Within'
      BY <2>1, <3>1, SameBlocks DEF TransposeShape, Within, IsTranspose
    <3>3. Copied'
      BY <2>1, <3>1, SameBlocks DEF Copied, Passed
    <3> QED BY <3>2, <3>3
  <2> QED BY <2>1, <2>2, <2>3, <2>4 DEF IInv
<1>2. ASSUME NEW i \in todo, Begin(i) PROVE IInv'
  BY <1>2, SweepBegins, BlockBegins
<1>3. ASSUME NEW x \in doing, Run(x) PROVE IInv'
  <2>1. CASE job.kernel = "scan"
    <3>1. at \in {"up", "down", "end"}
      BY <2>1 DEF IInv, ScanShape
    <3>2. UpSweep(x) \/ DownSweep(x)
      BY <1>3, <3>1 DEF Run, CopyCell, RowCopied, BlockCopied
    <3> QED BY <2>1, <3>2, UpSweepStep, DownSweepStep
  <2>2. CASE job.kernel # "scan"
    <3>1. at \in {"blocks", "end"}
      BY <2>2 DEF IInv, TransposeShape
    <3>2. CopyCell(x) \/ RowCopied(x) \/ BlockCopied(x)
      BY <1>3, <3>1 DEF Run, UpSweep, DownSweep
    <3> QED BY <2>2, <3>2, CopyCellStep, RowCopiedStep, BlockCopiedStep
  <2> QED BY <2>1, <2>2
<1>4. CASE NextSweep
  BY <1>4, NextSweepStep
<1>5. CASE Transposed
  <2>1. job.kernel # "scan"
    BY <1>5 DEF Transposed, IInv, ScanShape
  <2> QED BY <1>5, <2>1, TransposedStep
<1>6. CASE Ended
  BY <1>1, <1>6 DEF Ended
<1> QED BY <1>1, <1>2, <1>3, <1>4, <1>5, <1>6 DEF Next

LEMMA Inductive == Spec => []IInv
BY InitInv, StepInv, PTL DEF Spec

\* Two iterations that may run at the same time, of a sweep of the scan or two
\* blocks of the transposition, touch no cell in common, whatever the size, the
\* number of blocks and the number of workers.
THEOREM NoRace == Spec => []NoSharedCell
<1>1. IInv => NoSharedCell
  <2> SUFFICES ASSUME IInv, NEW i \in todo \cup {x.i : x \in doing}, NEW j \in todo \cup {x.i : x \in doing}, i # j
               PROVE  Cells(i) \cap Cells(j) = {}
    BY DEF NoSharedCell
  <2>1. CASE job.kernel = "scan"
    <3>1. ScanShape /\ i \in Segments(d) /\ j \in Segments(d) /\ at # "blocks" /\ job.size_pow \in Nat /\ d \in 0 .. job.size_pow
      BY <2>1 DEF IInv, ScanShape, ScanIterations
    <3>2. d < job.size_pow
      <4>1. SUFFICES ASSUME d = job.size_pow PROVE FALSE
        BY <3>1
      <4>2. Segments(d) = {0}
        BY <3>1, <4>1, TopLevel
      <4> QED BY <3>1, <4>2
    <3>3. PICK p, m : IsLevel(p, m)
      BY <3>1, <3>2, Levels
    <3>4. /\ Mid(i) # Mid(j) /\ Mid(i) # End(j) /\ End(i) # Mid(j) /\ End(i) # End(j)
      BY <3>1, <3>3, SegmentsApart
    <3> QED BY <3>1, <3>4 DEF Cells
  <2>2. CASE job.kernel # "scan"
    <3>1. IsTranspose(job) /\ i \in Blocks /\ j \in Blocks /\ at = "blocks"
      BY <2>2 DEF IInv, TransposeShape, BlockIterations
    <3>2. SUFFICES ASSUME NEW c, c \in Cells(i), c \in Cells(j) PROVE FALSE
      OBVIOUS
    <3>3. PICK r \in FromRow(i) .. ToRow(i) - 1, k \in FromColumn(i) .. ToColumn(i) - 1 :
            r \in FromRow(j) .. ToRow(j) - 1 /\ k \in FromColumn(j) .. ToColumn(j) - 1
      BY <3>1, <3>2 DEF Cells
    <3>4. /\ r \in Nat /\ k \in Nat /\ FromRow(i) <= r /\ r < ToRow(i) /\ FromColumn(i) <= k /\ k < ToColumn(i)
          /\ FromRow(j) <= r /\ r < ToRow(j) /\ FromColumn(j) <= k /\ k < ToColumn(j)
      BY <3>1, <3>3, CellInside
    <3>5. r \in Int /\ k \in Int
      BY <3>4
    <3> QED BY <3>1, <3>4, <3>5, BlocksApart
  <2> QED BY <2>1, <2>2
<1> QED BY <1>1, Inductive, PTL

\* When the last loop has returned, element k of the scanned vector is the sum of
\* the elements before it, and every cell of the output is its mirror image's,
\* whatever the size, the number of blocks and the number of workers.
THEOREM Computed == Spec => []Result
<1>1. IInv => Result
  <2> SUFFICES ASSUME IInv, at = "end"
               PROVE  IF job.kernel = "scan" THEN \A k \in DOMAIN data : data[k] = 2 ^ k - 1
                      ELSE \A c \in DOMAIN data : data[c] = <<c[2], c[1]>>
    BY DEF Result
  <2>1. CASE job.kernel = "scan"
    BY <2>1 DEF IInv, ScanShape, ScanSums
  <2>2. CASE job.kernel # "scan"
    <3>1. /\ IsTranspose(job) /\ todo = {} /\ doing = {} /\ Copied /\ DOMAIN data = Image
      BY <2>2 DEF IInv, TransposeShape
    <3>2. ASSUME NEW c \in Image PROVE data[c] = <<c[2], c[1]>>
      <4>1. PICK k \in 0 .. job.columns - 1, r \in 0 .. job.rows - 1 : c = <<k, r>>
        BY <3>2 DEF Image
      <4>2. PICK b \in Blocks : r \in FromRow(b) .. ToRow(b) - 1 /\ k \in FromColumn(b) .. ToColumn(b) - 1
        BY <3>1, BlocksCover
      <4>3. data[<<k, r>>] = <<r, k>>
        BY <3>1, <4>2 DEF Copied
      <4> QED BY <4>1, <4>3
    <3> QED BY <2>2, <3>1, <3>2
  <2> QED BY <2>1, <2>2
<1> QED BY <1>1, Inductive, PTL

\* The loops over the parts are sound for the job: every scan, and the
\* transpositions in which no part begins after the end of the matrix.
Fitting == job.kernel # "scan" => Fits(job.rows, job.blocks) /\ Fits(job.columns, job.blocks)

\* No iteration leaves the vector or the matrices: none of a scan, whatever its
\* size, and none of a transposition whose parts fit. The others do, as the run
\* tr_blocks shows.
THEOREM FittingStaysInside == Spec => [](Fitting => InData)
<1>1. IInv => (Fitting => InData)
  <2> SUFFICES ASSUME IInv, Fitting, NEW x \in doing
               PROVE  IF at # "blocks" THEN Cells(x.i) \subseteq DOMAIN data
                      ELSE x.row # ToRow(x.i) /\ x.column # ToColumn(x.i) => <<x.column, x.row>> \in DOMAIN data
    BY DEF InData
  <2>1. CASE job.kernel = "scan"
    <3>1. /\ x.i \in Segments(d) /\ at # "blocks" /\ job.size_pow \in Nat /\ d \in 0 .. job.size_pow /\ d \in Nat
          /\ DOMAIN data = 0 .. size - 1
      BY <2>1 DEF IInv, ScanShape, ScanIterations
    <3>2. CASE d = job.size_pow
      <4>1. x.i = 0 /\ size \in Nat \ {0} /\ Mid(0) = size - 1 /\ ~ (End(0) < size)
        BY <3>1, <3>2, TopLevel
      <4>2. size - 1 \in 0 .. size - 1
        BY <4>1
      <4> QED BY <3>1, <4>1, <4>2 DEF Cells
    <3>3. CASE d < job.size_pow
      <4>1. PICK p, m : IsLevel(p, m)
        BY <3>1, <3>3, Levels
      <4>2. Mid(x.i) \in 0 .. size - 1 /\ End(x.i) \in 0 .. size - 1
        BY <3>1, <4>1 DEF IsLevel
      <4> QED BY <3>1, <4>2 DEF Cells
    <3> QED BY <3>1, <3>2, <3>3
  <2>2. CASE job.kernel # "scan"
    <3>1. /\ IsTranspose(job) /\ x.i \in Blocks /\ x.row \in Nat /\ x.column \in Nat /\ Placed(x)
          /\ DOMAIN data = Image
      BY <2>2 DEF IInv, TransposeShape, BlockIterations, Within, Placed
    <3>2. at = "blocks"
      BY <2>2 DEF IInv, TransposeShape
    <3>3. FromRow(x.i) <= ToRow(x.i) /\ FromColumn(x.i) <= ToColumn(x.i)
      <4>1. /\ x.i[1] \in 0 .. BlockRows - 1 /\ x.i[2] \in 0 .. BlockColumns - 1
            /\ (FromRow(x.i) <= job.rows => FromRow(x.i) <= ToRow(x.i))
            /\ (FromColumn(x.i) <= job.columns => FromColumn(x.i) <= ToColumn(x.i))
        BY <3>1, BlocksOf
      <4>2. PICK k \in Nat \ {0}, l \in Nat \ {0}, s \in Nat \ {0}, t \in Nat \ {0}, n \in Nat, w \in Nat :
              /\ k = BlockRows /\ l = BlockColumns /\ s = BlockRowSize /\ t = BlockColumnSize
              /\ n = job.rows /\ w = job.columns
        BY <3>1, BlocksOf
      <4>3. (k - 1) * s <= n /\ (l - 1) * t <= w
        BY <2>2, <4>2 DEF Fitting, Fits, BlockRows, BlockColumns, BlockRowSize, BlockColumnSize
      <4>4. PICK u \in 0 .. k - 1, v \in 0 .. l - 1 : u = x.i[1] /\ v = x.i[2]
        BY <4>1, <4>2
      <4>5. u * s <= (k - 1) * s /\ v * t <= (l - 1) * t
        BY <4>4, LastBegins
      <4>6. u * s <= n /\ v * t <= w
        <5>1. u * s \in Int /\ v * t \in Int /\ (k - 1) * s \in Int /\ (l - 1) * t \in Int
          OBVIOUS
        <5> QED BY <4>3, <4>5, <5>1
      <4>7. FromRow(x.i) <= job.rows /\ FromColumn(x.i) <= job.columns
        BY <4>2, <4>4, <4>6 DEF FromRow, FromColumn
      <4> QED BY <4>1, <4>7
    <3>4. ASSUME x.row # ToRow(x.i), x.column # ToColumn(x.i) PROVE <<x.column, x.row>> \in Image
      <4>1. x.row <= ToRow(x.i) /\ x.column <= ToColumn(x.i)
        BY <3>1, <3>3 DEF Placed
      <4>2. PICK t \in Nat, u \in Nat, n \in Nat, w \in Nat :
              /\ t = ToRow(x.i) /\ u = ToColumn(x.i) /\ n = job.rows /\ w = job.columns /\ t <= n /\ u <= w
        BY <3>1, BlocksOf
      <4>3. x.row \in 0 .. n - 1 /\ x.column \in 0 .. w - 1
        BY <3>1, <3>4, <4>1, <4>2
      <4> QED BY <4>2, <4>3 DEF Image
    <3> QED BY <3>1, <3>2, <3>4
  <2> QED BY <2>1, <2>2
<1> QED BY <1>1, Inductive, PTL
=============================================================================
