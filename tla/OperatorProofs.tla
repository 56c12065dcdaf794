--------------------------- MODULE OperatorProofs ---------------------------
(***************************************************************************)
(* Lemmas about the operators that Distribution and ForkJoin share: where  *)
(* DistributeWork cuts a job, and which threads the walk of a thief visits.*)
(* They and Kernels need the inductions at the beginning.                  *)
(***************************************************************************)
EXTENDS WorkSplit, StealWalk, FiniteSetTheorems, SequenceTheorems, FunctionTheorems, NaturalsInduction, WellFoundedInduction, TLAPS

-----------------------------------------------------------------------------
(* Counting, and the smallest number of a set.                             *)

\* Induction over the natural numbers, for a set.
Below == {ss \in Nat \X Nat : ss[1] < ss[2]}

LEMMA Smallest == ASSUME NEW T, T \subseteq Nat, T # {} PROVE \E x \in T : \A y \in T : x <= y
<1>1. IsWellFoundedOn(Below, Nat)
  BY NatLessThanWellFounded DEF OpToRel, Below
<1>2. PICK x \in T : \A y \in T : ~ (<<y, x>> \in Below)
  BY <1>1, WFMin
<1>3. ASSUME NEW y \in T PROVE x <= y
  <2>1. ~ (y < x) /\ x \in Nat /\ y \in Nat
    BY <1>2 DEF Below
  <2> QED BY <2>1
<1> QED BY <1>3

LEMMA Counting == ASSUME NEW T, 0 \in T, \A i \in Nat : i \in T => i + 1 \in T PROVE Nat \subseteq T
<1> SUFFICES ASSUME Nat \ T # {} PROVE FALSE
  OBVIOUS
<1>1. PICK x \in Nat \ T : \A y \in Nat \ T : x <= y
  <2>1. Nat \ T \subseteq Nat
    OBVIOUS
  <2> QED BY <2>1, Smallest
<1>2. x - 1 \in Nat /\ x - 1 \in T
  <2>1. x - 1 \in Nat
    OBVIOUS
  <2> QED BY <1>1, <2>1
<1> QED BY <1>1, <1>2

-----------------------------------------------------------------------------
(* The jobs of DistributeWork.                                             *)

\* Iterations, and threads for them.
ProperJob(j) ==
  /\ j.from \in Nat /\ j.to \in Nat /\ j.from < j.to
  /\ j.lo \in Nat /\ j.hi \in Nat /\ j.lo < j.hi
JobSet == [from : Nat, to : Nat, lo : Nat, hi : Nat, grain : Nat \ {0}]
PartSet == {j \in JobSet : ProperJob(j)}

-----------------------------------------------------------------------------
(* The arithmetic of one DistributeWork.                                   *)

LEMMA Ceiling == ASSUME NEW a \in Nat, NEW t \in Nat, a >= 1, t >= 1
                 PROVE  (a + t - 1) \div t \in Nat /\ (a + t - 1) \div t >= 1
OBVIOUS

LEMMA KeepOne == ASSUME NEW j, ProperJob(j)
                 PROVE  Keep(j) \in Nat /\ j.from < Keep(j)
<1> DEFINE a == j.to - j.from
           t == j.hi - j.lo
<1>1. a \in Nat /\ t \in Nat /\ a >= 1 /\ t >= 1 /\ j.from \in Nat
  BY DEF ProperJob
<1> HIDE DEF a, t
<1>2. (a + t - 1) \div t \in Nat /\ (a + t - 1) \div t >= 1
  BY <1>1, Ceiling
<1>3. Keep(j) = j.from + (a + t - 1) \div t
  BY DEF Keep, Threads, a, t
<1> QED BY <1>1, <1>2, <1>3

\* Of a job that is shared, the parts follow one another and reach the end of
\* its iterations and of its threads: the asserts of the loop.
LEMMA Cuts == ASSUME NEW j, ProperJob(j), Shares(j)
              PROVE  /\ Keep(j) \in Nat /\ j.from < Keep(j) /\ Keep(j) < j.to /\ j.lo + 1 < j.hi
                     /\ First(j).from = Keep(j) /\ First(j).lo = j.lo + 1
                     /\ First(j).grain = j.grain /\ Second(j).grain = j.grain
                     /\ Parts(j) = 1 => First(j).to = j.to /\ First(j).hi = j.hi
                     /\ Parts(j) # 1 =>
                          /\ Second(j).from = First(j).to /\ Second(j).lo = First(j).hi
                          /\ First(j).to \in Nat /\ First(j).hi \in Nat
                          /\ Keep(j) < First(j).to /\ First(j).to < Second(j).to
                          /\ j.lo + 1 < First(j).hi /\ First(j).hi < Second(j).hi
                          /\ Second(j).to = j.to /\ Second(j).hi = j.hi
<1> DEFINE k == Keep(j)
           d == j.to - k
           t == j.hi - j.lo - 1
<1>1. k \in Nat /\ j.from < k /\ k < j.to
  BY KeepOne DEF Shares
<1>2. j.to \in Nat /\ j.lo \in Nat /\ j.hi \in Nat /\ j.lo + 1 < j.hi
  BY DEF ProperJob, Shares, Threads
<1>3. OtherData(j) = d /\ OtherThreads(j) = t /\ d \in Nat /\ d >= 1 /\ t \in Nat /\ t >= 1
  <2>1. OtherData(j) = d /\ OtherThreads(j) = t
    BY DEF OtherData, OtherThreads, Threads
  <2>2. d \in Nat /\ d >= 1
    BY <1>1, <1>2
  <2>3. t \in Nat /\ t >= 1
    BY <1>2
  <2> QED BY <2>1, <2>2, <2>3
<1>4. Parts(j) \in {1, 2} /\ (Parts(j) = 2 => d >= 2 /\ t >= 2)
  <2> HIDE DEF d, t
  <2>1. Parts(j) = Least(Least(2, t), d)
    BY <1>3 DEF Parts, K_SPLIT
  <2> QED BY <1>3, <2>1 DEF Least
<1>5. First(j).from = k /\ First(j).lo = j.lo + 1 /\ First(j).grain = j.grain /\ Second(j).grain = j.grain
      /\ First(j).to = DataSplit(j, k, 0) /\ First(j).hi = ThreadSplit(j, j.lo + 1, 0)
      /\ Second(j).from = First(j).to /\ Second(j).lo = First(j).hi
      /\ Second(j).to = DataSplit(j, First(j).to, 1)
      /\ Second(j).hi = ThreadSplit(j, First(j).hi, 1)
  BY DEF First, Second, Part
<1> HIDE DEF k
<1>6. CASE Parts(j) = 1
  <2>1. d \div 1 = d /\ d % 1 = 0 /\ t \div 1 = t /\ t % 1 = 0
    BY <1>3
  <2>2. First(j).to = Least(j.to, k + d) /\ First(j).hi = Least(j.hi, j.lo + 1 + t)
    BY <1>3, <1>5, <1>6, <2>1, <1>1, <1>2 DEF DataSplit, ThreadSplit, Extra
  <2> QED BY <1>1, <1>2, <1>5, <1>6, <2>2 DEF Least, k
<1>7. CASE Parts(j) = 2
  <2> DEFINE dm == d % 2
             dh == d \div 2
             tm == t % 2
             th == t \div 2
  <2>1. j.hi = j.lo + 1 + t /\ j.to = k + d
    BY <1>1, <1>2
  <2> HIDE DEF d, t
  <2>2. /\ dm \in {0, 1} /\ d = 2 * dh + dm /\ dh \in Nat /\ dh >= 1
        /\ tm \in {0, 1} /\ t = 2 * th + tm /\ th \in Nat /\ th >= 1
    BY <1>3, <1>4, <1>7
  <2>3. /\ Extra(1, tm) = 0 /\ Extra(0, tm) = tm /\ Extra(1, dm) = 0 /\ Extra(0, dm) = dm
    BY <2>2 DEF Extra
  <2>4. /\ First(j).hi = Least(j.hi, j.lo + 1 + th + Extra(1, tm))
        /\ Second(j).hi = Least(j.hi, First(j).hi + th + Extra(0, tm))
        /\ First(j).to = Least(j.to, k + dh + Extra(IF tm = 0 THEN 0 ELSE 1, dm))
        /\ Second(j).to = Least(j.to, First(j).to + dh + Extra(IF tm = 0 THEN 1 ELSE 0, dm))
    BY <1>3, <1>5, <1>7 DEF ThreadSplit, DataSplit
  <2> HIDE DEF dm, dh, tm, th
  <2>5. First(j).hi = j.lo + 1 + th
    BY <1>2, <2>1, <2>2, <2>3, <2>4 DEF Least
  <2>6. Second(j).hi = j.hi
    BY <1>2, <2>1, <2>2, <2>3, <2>4, <2>5 DEF Least
  <2>7. First(j).to = k + dh + (IF tm = 0 THEN dm ELSE 0)
    BY <1>1, <1>2, <2>1, <2>2, <2>3, <2>4 DEF Least
  <2>8. Second(j).to = j.to
    BY <1>1, <1>2, <2>1, <2>2, <2>3, <2>4, <2>7 DEF Least
  <2>9. First(j).to \in Nat /\ k < First(j).to /\ First(j).to < j.to
    BY <1>1, <2>1, <2>2, <2>7
  <2>10. First(j).hi \in Nat /\ j.lo + 1 < First(j).hi /\ First(j).hi < j.hi
    BY <1>2, <2>1, <2>2, <2>5
  <2> QED BY <1>1, <1>2, <1>5, <1>7, <2>6, <2>8, <2>9, <2>10 DEF k
<1> QED BY <1>4, <1>6, <1>7

\* Every part that is handed out has iterations, and threads for them.
LEMMA HandedParts == ASSUME NEW j \in PartSet, Shares(j)
                     PROVE  Handed(j) \in Seq(PartSet) /\ Handed(j) # <<>>
<1>1. ProperJob(j) /\ j.grain \in Nat \ {0}
  BY DEF PartSet, JobSet
<1>2. /\ Keep(j) \in Nat /\ j.from < Keep(j) /\ Keep(j) < j.to /\ j.lo + 1 < j.hi
      /\ First(j).from = Keep(j) /\ First(j).lo = j.lo + 1
      /\ First(j).grain = j.grain /\ Second(j).grain = j.grain
      /\ Parts(j) = 1 => First(j).to = j.to /\ First(j).hi = j.hi
      /\ Parts(j) # 1 =>
           /\ Second(j).from = First(j).to /\ Second(j).lo = First(j).hi
           /\ First(j).to \in Nat /\ First(j).hi \in Nat
           /\ Keep(j) < First(j).to /\ First(j).to < Second(j).to
           /\ j.lo + 1 < First(j).hi /\ First(j).hi < Second(j).hi
           /\ Second(j).to = j.to /\ Second(j).hi = j.hi
  BY <1>1, Cuts
<1>3. /\ First(j) = [from |-> First(j).from, to |-> First(j).to, lo |-> First(j).lo,
                     hi |-> First(j).hi, grain |-> First(j).grain]
      /\ Second(j) = [from |-> Second(j).from, to |-> Second(j).to, lo |-> Second(j).lo,
                      hi |-> Second(j).hi, grain |-> Second(j).grain]
  BY DEF First, Second, Part
<1>4. CASE Parts(j) = 1
  <2>1. First(j) \in PartSet
    BY <1>1, <1>2, <1>3, <1>4 DEF PartSet, JobSet, ProperJob
  <2> QED BY <1>4, <2>1 DEF Handed
<1>5. CASE Parts(j) # 1
  <2>1. First(j) \in PartSet
    BY <1>1, <1>2, <1>3, <1>5 DEF PartSet, JobSet, ProperJob
  <2>2. Second(j) \in PartSet
    BY <1>1, <1>2, <1>3, <1>5 DEF PartSet, JobSet, ProperJob
  <2> QED BY <1>5, <2>1, <2>2 DEF Handed
<1> QED BY <1>4, <1>5

-----------------------------------------------------------------------------
(* The walk of a thief.                                                    *)

\* Euclid's algorithm computes what its loop says: some function has the
\* equations of the loop, the one that picks of the common divisors of a pair
\* the number they are the divisors of.
Divides(d, m) == \E q \in Nat : m = d * q
Common(a, b) == {d \in Nat : Divides(d, a) /\ Divides(d, b)}
Leader(S) == CHOOSE g \in Nat : {d \in Nat : Divides(d, g)} = S

LEMMA DividesBoth == ASSUME NEW a \in Nat, NEW b \in Nat, Divides(a, b), Divides(b, a) PROVE a = b
<1>1. PICK q \in Nat : b = a * q
  BY DEF Divides
<1>2. PICK r \in Nat : a = b * r
  BY DEF Divides
<1>3. CASE a = 0
  BY <1>1, <1>3
<1>4. CASE a >= 1 /\ q >= 1 /\ r >= 1
  <2>1. b >= a
    <3>1. a * (q - 1) >= 0
      <4>1. PICK x \in Nat : x = q - 1
        BY <1>4
      <4>2. a * x >= 0
        OBVIOUS
      <4> QED BY <4>1, <4>2
    <3>2. a * (q - 1) = a * q - a
      OBVIOUS
    <3> QED BY <1>1, <3>1, <3>2
  <2>2. a >= b
    <3>1. b * (r - 1) >= 0
      <4>1. PICK x \in Nat : x = r - 1
        BY <1>4
      <4>2. b * x >= 0
        OBVIOUS
      <4> QED BY <4>1, <4>2
    <3>2. b * (r - 1) = b * r - b
      OBVIOUS
    <3> QED BY <1>2, <3>1, <3>2
  <2> QED BY <2>1, <2>2
<1>5. CASE a >= 1 /\ q = 0
  <2>1. b = 0
    BY <1>1, <1>5
  <2>2. a = 0
    BY <1>2, <2>1
  <2> QED BY <2>1, <2>2
<1>6. CASE a >= 1 /\ r = 0
  <2>1. a = 0
    BY <1>2, <1>6
  <2> QED BY <1>6, <2>1
<1> QED BY <1>3, <1>4, <1>5, <1>6

LEMMA CommonOfZero == ASSUME NEW a \in Nat PROVE Leader(Common(a, 0)) = a
<1>1. {d \in Nat : Divides(d, a)} = Common(a, 0)
  <2>1. ASSUME NEW d \in Nat PROVE Divides(d, 0)
    <3>1. 0 = d * 0
      OBVIOUS
    <3> QED BY <3>1 DEF Divides
  <2> QED BY <2>1 DEF Common
<1>2. ASSUME NEW g \in Nat, {d \in Nat : Divides(d, g)} = Common(a, 0) PROVE g = a
  <2>1. ASSUME NEW x \in Nat PROVE Divides(x, x)
    <3>1. x = x * 1
      OBVIOUS
    <3> QED BY <3>1 DEF Divides
  <2>2. Divides(g, a) /\ Divides(a, g)
    BY <1>1, <1>2, <2>1
  <2> QED BY <2>2, DividesBoth
<1>3. PICK S : S = Common(a, 0)
  OBVIOUS
<1> QED BY <1>1, <1>2, <1>3 DEF Leader

\* A remainder has the same common divisors.
LEMMA CommonOfRest == ASSUME NEW a \in Nat, NEW b \in Nat \ {0}
                      PROVE  a % b \in Nat /\ a % b < b /\ Common(a, b) = Common(b, a % b)
<1>1. PICK q \in Nat, r \in Nat : a = b * q + r /\ r = a % b /\ r < b
  <2>1. a \div b \in Nat /\ a % b \in Nat /\ a % b < b /\ a = b * (a \div b) + (a % b)
    OBVIOUS
  <2> QED BY <2>1
<1>2. ASSUME NEW d \in Nat, Divides(d, a), Divides(d, b) PROVE Divides(d, r)
  <2>1. PICK x \in Nat : a = d * x
    BY <1>2 DEF Divides
  <2>2. PICK y \in Nat : b = d * y
    BY <1>2 DEF Divides
  <2>3. PICK z \in Int : z = x - y * q
    OBVIOUS
  <2>4. d * z = r
    <3>1. d * z = d * x - (d * y) * q
      BY <2>3
    <3>2. (d * y) * q = b * q
      BY <2>2
    <3> QED BY <1>1, <2>1, <3>1, <3>2
  <2>5. CASE z >= 0
    BY <2>4, <2>5 DEF Divides
  <2>6. CASE z < 0
    <3>1. d >= 1
      BY <2>2
    <3>2. PICK m \in Nat : m = -z /\ m >= 1
      BY <2>6
    <3>3. d * m >= 1
      BY <3>1, <3>2
    <3>4. d * z = -(d * m)
      BY <3>2
    <3> QED BY <2>4, <3>3, <3>4
  <2> QED BY <2>5, <2>6
<1>3. ASSUME NEW d \in Nat, Divides(d, b), Divides(d, r) PROVE Divides(d, a)
  <2>1. PICK y \in Nat : b = d * y
    BY <1>3 DEF Divides
  <2>2. PICK z \in Nat : r = d * z
    BY <1>3 DEF Divides
  <2>3. a = d * (y * q + z) /\ y * q + z \in Nat
    <3>1. d * (y * q + z) = (d * y) * q + d * z
      OBVIOUS
    <3>2. (d * y) * q + d * z = b * q + r
      BY <2>1, <2>2
    <3> QED BY <1>1, <3>1, <3>2
  <2> QED BY <2>3 DEF Divides
<1> QED BY <1>1, <1>2, <1>3 DEF Common

IsEuclid(e) ==
  e = [p \in Nat \X Nat |-> IF p[2] = 0 THEN p[1] ELSE e[<<p[2], p[1] % p[2]>>]]

LEMMA EuclidSteps == ASSUME NEW a \in Nat, NEW b \in Nat
                     PROVE  Euclid[<<a, b>>] = IF b = 0 THEN a ELSE Euclid[<<b, a % b>>]
<1> DEFINE e == [p \in Nat \X Nat |-> Leader(Common(p[1], p[2]))]
           h == [p \in Nat \X Nat |-> IF p[2] = 0 THEN p[1] ELSE e[<<p[2], p[1] % p[2]>>]]
<1>1. ASSUME NEW p \in Nat \X Nat PROVE e[p] = h[p]
  <2>1. PICK x \in Nat, y \in Nat : p[1] = x /\ p[2] = y /\ p = <<x, y>>
    OBVIOUS
  <2>2. e[p] = Leader(Common(x, y))
    BY <2>1
  <2>3. CASE y = 0
    <3>1. h[p] = x
      BY <2>1, <2>3
    <3> QED BY <2>2, <2>3, <3>1, CommonOfZero
  <2>4. CASE y # 0
    <3>1. PICK r \in Nat : r = x % y /\ Common(x, y) = Common(y, r)
      BY <2>4, CommonOfRest
    <3>2. h[p] = e[<<y, r>>]
      BY <2>1, <2>4, <3>1
    <3>3. <<y, r>> \in Nat \X Nat /\ <<y, r>>[1] = y /\ <<y, r>>[2] = r
      OBVIOUS
    <3>4. e[<<y, r>>] = Leader(Common(y, r))
      BY <3>3
    <3> QED BY <2>2, <3>1, <3>2, <3>4
  <2> QED BY <2>3, <2>4
<1>2. IsEuclid(e)
  <2>1. e = [p \in Nat \X Nat |-> e[p]] /\ h = [p \in Nat \X Nat |-> h[p]]
    OBVIOUS
  <2> HIDE DEF e, h
  <2>2. e = h
    BY <1>1, <2>1
  <2> QED BY <2>2 DEF IsEuclid, h
<1> HIDE DEF e, h
<1>3. IsEuclid(Euclid)
  BY <1>2 DEF Euclid, IsEuclid
<1>4. PICK p : p = <<a, b>> /\ p[1] = a /\ p[2] = b /\ p \in Nat \X Nat
  <2>1. <<a, b>>[1] = a /\ <<a, b>>[2] = b /\ <<a, b>> \in Nat \X Nat
    OBVIOUS
  <2> QED BY <2>1
<1>5. Euclid[p] = IF p[2] = 0 THEN p[1] ELSE Euclid[<<p[2], p[1] % p[2]>>]
  BY ONLY <1>3, <1>4 DEF IsEuclid
<1> QED BY <1>4, <1>5

\* A common divisor of two numbers divides what the algorithm returns.
LEMMA EuclidDivides ==
  ASSUME NEW d \in Nat, NEW a0 \in Nat, NEW b0 \in Nat, Divides(d, a0), Divides(d, b0)
  PROVE  Divides(d, Euclid[<<a0, b0>>])
<1> DEFINE Fails(b) == \E a \in Nat : Divides(d, a) /\ Divides(d, b) /\ ~ Divides(d, Euclid[<<a, b>>])
           T == {b \in Nat : Fails(b)}
<1> SUFFICES ASSUME T # {} PROVE FALSE
  OBVIOUS
<1>1. PICK b \in T : \A y \in T : b <= y
  <2>1. T \subseteq Nat
    OBVIOUS
  <2> HIDE DEF T
  <2> QED BY <2>1, Smallest
<1>2. PICK a \in Nat : Divides(d, a) /\ Divides(d, b) /\ ~ Divides(d, Euclid[<<a, b>>])
  OBVIOUS
<1>3. b \in Nat
  OBVIOUS
<1>4. CASE b = 0
  BY <1>2, <1>3, <1>4, EuclidSteps
<1>5. CASE b # 0
  <2>1. PICK r \in Nat : r = a % b /\ r < b /\ Common(a, b) = Common(b, r)
    BY <1>3, <1>5, CommonOfRest
  <2>2. Divides(d, r)
    BY <1>2, <2>1 DEF Common
  <2>3. Euclid[<<a, b>>] = Euclid[<<b, r>>]
    BY <1>3, <1>5, <2>1, EuclidSteps
  <2>4. r \in T
    BY <1>2, <1>3, <2>2, <2>3
  <2> QED BY <1>1, <1>3, <2>1, <2>4
<1> QED BY <1>4, <1>5

CoprimeTo(n) == {i \in 1 .. n : Euclid[<<i, n>>] = 1}

\* Multiples of a step that is coprime to n are multiples of n only where the
\* factor is.  Of the factors that make a multiple of n the smallest, x,
\* divides all others, n among them, and n \div x divides step and n.
LEMMA CoprimeFactor ==
  ASSUME NEW n \in Nat \ {0}, NEW inc \in CoprimeTo(n), NEW m \in Nat, Divides(n, m * inc)
  PROVE  Divides(n, m)
<1>1. inc \in Nat \ {0} /\ Euclid[<<inc, n>>] = 1
  BY DEF CoprimeTo
<1> DEFINE T == {y \in Nat : y >= 1 /\ Divides(n, y * inc)}
<1>2. n \in T
  BY <1>1 DEF Divides
<1>3. PICK x \in T : \A y \in T : x <= y
  <2>1. T \subseteq Nat
    OBVIOUS
  <2> HIDE DEF T
  <2> QED BY <1>2, <2>1, Smallest
<1>4. PICK j \in Nat : x * inc = n * j
  BY DEF Divides
<1>5. x \in Nat /\ x >= 1
  OBVIOUS
<1>6. ASSUME NEW y \in Nat, Divides(n, y * inc) PROVE Divides(x, y)
  <2>1. PICK i \in Nat : y * inc = n * i
    BY <1>6 DEF Divides
  <2>2. PICK q \in Nat, r \in Nat : y = x * q + r /\ r < x
    <3>1. y \div x \in Nat /\ y % x \in Nat /\ y % x < x /\ y = x * (y \div x) + (y % x)
      BY <1>5
    <3> QED BY <3>1
  <2>3. r * inc = n * (i - j * q)
    <3>1. y * inc = (x * inc) * q + r * inc
      BY <1>1, <1>5, <2>2
    <3>2. (x * inc) * q = (n * j) * q
      BY <1>4
    <3>3. n * (i - j * q) = n * i - (n * j) * q
      OBVIOUS
    <3> QED BY <1>1, <1>5, <2>1, <3>1, <3>2, <3>3
  <2>4. CASE r = 0
    <3>1. y = x * q
      BY <1>5, <2>2, <2>4
    <3> QED BY <3>1 DEF Divides
  <2>5. CASE r >= 1
    <3>1. PICK z \in Int : z = i - j * q
      OBVIOUS
    <3>2. r * inc = n * z
      BY <2>3, <3>1
    <3>3. r * inc >= 0
      BY <1>1
    <3>4. z >= 0
      <4>1. SUFFICES ASSUME z < 0 PROVE FALSE
        OBVIOUS
      <4>2. PICK k \in Nat : k = -z /\ k >= 1
        BY <4>1
      <4>3. n * k >= 1
        BY <4>2
      <4>4. n * z = -(n * k)
        BY <4>2
      <4> QED BY <3>2, <3>3, <4>3, <4>4
    <3>5. Divides(n, r * inc)
      BY <3>2, <3>4 DEF Divides
    <3>6. r \in T
      BY <2>5, <3>5
    <3> QED BY <1>3, <1>5, <2>2, <3>6
  <2> QED BY <2>4, <2>5
<1>7. PICK k \in Nat : n = x * k
  <2>1. n \in Nat /\ Divides(n, n * inc)
    BY <1>2
  <2>2. Divides(x, n)
    BY <1>6, <2>1
  <2> QED BY <2>2 DEF Divides
<1>8. inc = k * j
  <2>1. x * inc = x * (k * j)
    BY <1>4, <1>5, <1>7
  <2>2. PICK y \in Nat : y = k * j
    OBVIOUS
  <2>3. x * inc = x * y
    BY <2>1, <2>2
  <2>4. inc = y
    <3>1. PICK d \in Int : d = inc - y
      BY <1>1
    <3>2. x * d = 0
      BY <1>1, <1>5, <2>3, <3>1
    <3>3. d = 0
      BY ONLY <1>5, <3>1, <3>2
    <3> QED BY <1>1, <3>1, <3>3
  <2> QED BY <2>2, <2>4
<1>9. k = 1
  <2>1. Divides(k, inc) /\ Divides(k, n)
    <3>1. n = k * x
      BY <1>5, <1>7
    <3> QED BY <1>5, <1>8, <3>1 DEF Divides
  <2>2. Divides(k, 1)
    BY <1>1, <2>1, EuclidDivides
  <2>3. Divides(1, k)
    <3>1. k = 1 * k
      OBVIOUS
    <3> QED BY <3>1 DEF Divides
  <2> QED BY <2>2, <2>3, DividesBoth
<1> QED BY <1>5, <1>6, <1>7, <1>9

LEMMA OneCoprime == ASSUME NEW n \in Nat \ {0} PROVE 1 \in CoprimeTo(n)
<1>1. PICK one \in Nat \ {0} : one = 1
  OBVIOUS
<1>2. ASSUME NEW m \in Nat PROVE Euclid[<<m, one>>] = 1
  <2>1. m % one \in Nat /\ m % one = 0
    BY <1>1
  <2>2. Euclid[<<m, one>>] = Euclid[<<one, m % one>>]
    BY EuclidSteps
  <2>3. PICK zero \in Nat : zero = m % one /\ zero = 0
    BY <2>1
  <2>4. Euclid[<<one, zero>>] = one
    BY <2>3, EuclidSteps
  <2> QED BY <1>1, <2>2, <2>3, <2>4
<1>3. Euclid[<<one, n>>] = 1
  <2>1. CASE n = 1
    BY <1>1, <1>2, <2>1
  <2>2. CASE n > 1
    <3>1. one % n = one
      BY <1>1, <2>2
    <3>2. Euclid[<<one, n>>] = Euclid[<<n, one % n>>]
      BY EuclidSteps
    <3> QED BY <1>2, <3>1, <3>2
  <2> QED BY <2>1, <2>2
<1> QED BY <1>1, <1>3 DEF CoprimeTo

\* The steps of a walk are between 1 and n and coprime to n, and there are some.
LEMMA StepsType == ASSUME NEW n \in Nat
                   PROVE  /\ ComputeCoprimes(n) \in Seq(CoprimeTo(n))
                          /\ n >= 1 => ComputeCoprimes(n) # <<>>
<1> DEFINE Coprime(i) == Euclid[<<i, n>>] = 1
           Grown(s, i) == IF Coprime(i) THEN Append(s, i) ELSE s
           IsUpto(m, f) == f = [i \in 0 .. m |-> IF i = 0 THEN <<>> ELSE Grown(f[i - 1], i)]
           T == {m \in Nat : \E f : IsUpto(m, f)}
<1>1. 0 \in T
  <2> DEFINE f == [i \in 0 .. 0 |-> <<>>]
  <2>1. f = [i \in 0 .. 0 |-> IF i = 0 THEN <<>> ELSE Grown(f[i - 1], i)]
    <3> HIDE DEF Grown
    <3> QED OBVIOUS
  <2> HIDE DEF f, Grown
  <2> QED BY <2>1
<1> HIDE DEF Grown
<1>2. ASSUME NEW m \in Nat, m \in T PROVE m + 1 \in T
  <2>1. PICK f : IsUpto(m, f)
    BY <1>2
  <2> DEFINE g == [i \in 0 .. m + 1 |-> IF i = m + 1 THEN Grown(f[m], m + 1) ELSE f[i]]
             h == [i \in 0 .. m + 1 |-> IF i = 0 THEN <<>> ELSE Grown(g[i - 1], i)]
  <2>2. \A i \in 0 .. m : f[i] = IF i = 0 THEN <<>> ELSE Grown(f[i - 1], i)
    BY <2>1
  <2>3. \A i \in 0 .. m : g[i] = f[i]
    OBVIOUS
  <2>4. g[m + 1] = Grown(f[m], m + 1)
    OBVIOUS
  <2>5. DOMAIN g = 0 .. m + 1
    OBVIOUS
  <2>9. g = [i \in 0 .. m + 1 |-> g[i]]
    OBVIOUS
  <2> HIDE DEF g
  <2>6. ASSUME NEW i \in 0 .. m + 1 PROVE g[i] = h[i]
    <3>1. CASE i = m + 1
      <4>1. i # 0 /\ i - 1 = m /\ m \in 0 .. m
        BY <3>1
      <4>2. h[i] = Grown(g[i - 1], i)
        BY <4>1
      <4> QED BY <2>3, <2>4, <3>1, <4>1, <4>2
    <3>2. CASE i = 0
      <4>1. 0 \in 0 .. m /\ h[i] = <<>>
        BY <3>2
      <4> QED BY <2>2, <2>3, <3>2, <4>1
    <3>3. CASE i \in 1 .. m
      <4>1. i \in 0 .. m /\ i - 1 \in 0 .. m /\ i # 0 /\ h[i] = Grown(g[i - 1], i)
        BY <3>3
      <4> QED BY <2>2, <2>3, <4>1
    <3>4. i = m + 1 \/ i = 0 \/ i \in 1 .. m
      OBVIOUS
    <3> QED BY <3>1, <3>2, <3>3, <3>4
  <2>7. g = h
    <3>1. h = [i \in 0 .. m + 1 |-> h[i]]
      OBVIOUS
    <3> HIDE DEF h
    <3>2. [i \in 0 .. m + 1 |-> h[i]] = [i \in 0 .. m + 1 |-> g[i]]
      BY <2>6
    <3> QED BY <2>9, <3>1, <3>2
  <2>8. IsUpto(m + 1, g)
    BY <2>7
  <2> QED BY <2>8
<1>3. n \in T
  <2> HIDE DEF T
  <2>1. Nat \subseteq T
    BY <1>1, <1>2, Counting
  <2> QED BY <2>1
<1> DEFINE Upto == CHOOSE f : f = [i \in 0 .. n |-> IF i = 0 THEN <<>> ELSE Grown(f[i - 1], i)]
<1>4. Upto = [i \in 0 .. n |-> IF i = 0 THEN <<>> ELSE Grown(Upto[i - 1], i)]
  BY <1>3
<1>5. ComputeCoprimes(n) = Upto[n]
  BY DEF ComputeCoprimes, Grown
<1> HIDE DEF Upto
<1> DEFINE S == {i \in Nat : i <= n => Upto[i] \in Seq(CoprimeTo(n)) /\ (i >= 1 => Upto[i] # <<>>)}
<1>6. 0 \in S
  <2>1. Upto[0] = <<>> /\ <<>> \in Seq(CoprimeTo(n))
    BY <1>4, EmptySeq
  <2>2. Upto[0] \in Seq(CoprimeTo(n)) /\ (0 >= 1 => Upto[0] # <<>>)
    <3>1. ~ (0 >= 1)
      OBVIOUS
    <3> QED BY ONLY <2>1, <3>1
  <2>3. 0 \in Nat
    OBVIOUS
  <2> QED BY ONLY <2>2, <2>3
<1>7. ASSUME NEW i \in Nat, i \in S PROVE i + 1 \in S
  <2>1. CASE i + 1 <= n
    <3>1. i <= n /\ i + 1 \in 1 .. n /\ i + 1 \in 0 .. n /\ i + 1 # 0 /\ i + 1 - 1 = i
      BY <2>1
    <3>2. Upto[i] \in Seq(CoprimeTo(n)) /\ (i >= 1 => Upto[i] # <<>>)
      BY <1>7, <3>1
    <3>3. Upto[i + 1] = Grown(Upto[i + 1 - 1], i + 1)
      BY <1>4, <3>1
    <3>4. Coprime(i + 1) => Append(Upto[i], i + 1) \in Seq(CoprimeTo(n)) /\ Append(Upto[i], i + 1) # <<>>
      <4>1. Coprime(i + 1) => i + 1 \in CoprimeTo(n)
        BY <3>1 DEF CoprimeTo
      <4> HIDE DEF Coprime
      <4> QED BY <3>2, <4>1, AppendProperties
    <3>5. Upto[i + 1] \in Seq(CoprimeTo(n)) /\ Upto[i + 1] # <<>>
      <4>1. Upto[i + 1 - 1] = Upto[i]
        BY <3>1
      <4>2. i >= 1 \/ Coprime(i + 1)
        BY <3>1, OneCoprime DEF CoprimeTo
      <4> HIDE DEF Coprime
      <4> QED BY <3>2, <3>3, <3>4, <4>1, <4>2 DEF Grown
    <3> QED BY <3>5
  <2>2. CASE ~(i + 1 <= n)
    BY <2>2
  <2> QED BY <2>1, <2>2
<1>8. n \in S
  <2> HIDE DEF S
  <2>1. Nat \subseteq S
    BY <1>6, <1>7, Counting
  <2> QED BY <2>1
<1> QED BY <1>5, <1>8

LEMMA Scaled == ASSUME NEW r \in Nat, NEW w \in Nat, NEW k \in Nat, r < w
                PROVE  (r * k) \div w \in Nat /\ (k >= 1 => (r * k) \div w < k)
<1> DEFINE q == (r * k) \div w
<1>1. w >= 1 /\ r * k \in Nat
  OBVIOUS
<1>2. q \in Nat /\ q * w <= r * k
  BY <1>1
<1> HIDE DEF q
<1>3. ASSUME k >= 1, q >= k PROVE FALSE
  <2>1. q * w >= k * w
    BY <1>1, <1>2, <1>3
  <2>2. k * w >= r * k + k
    <3>1. w - r - 1 \in Nat
      OBVIOUS
    <3>2. k * (w - r - 1) >= 0
      BY <3>1
    <3>3. k * (w - r - 1) = k * w - r * k - k
      OBVIOUS
    <3> QED BY <3>2, <3>3
  <2> QED BY <1>2, <1>3, <2>1, <2>2
<1> QED BY <1>2, <1>3 DEF q

LEMMA WalksInside == ASSUME NEW n \in Nat \ {0}, NEW w \in Walks(n)
                     PROVE  w.victim \in 0 .. n - 1 /\ w.inc \in CoprimeTo(n)
<1> DEFINE steps == ComputeCoprimes(n)
           len == Len(steps)
<1>1. steps \in Seq(CoprimeTo(n)) /\ len \in Nat
  BY StepsType, LenProperties
<1>2. PICK r \in 0 .. n * len - 1 : w = Draw(n, steps, r, n * len)
  BY DEF Walks
<1> HIDE DEF steps, len
<1>3. r \in Nat /\ n * len \in Nat /\ r < n * len
  BY <1>1, <1>2
<1>4. len >= 1
  BY <1>1, <1>3
<1>5. (r * n) \div (n * len) \in Nat /\ (r * n) \div (n * len) < n
  <2>1. n \in Nat /\ n >= 1
    OBVIOUS
  <2> QED BY <1>3, <2>1, Scaled
<1>6. (len * r) \div (n * len) \in Nat /\ (len * r) \div (n * len) < len
  <2>1. len * r = r * len
    BY <1>1, <1>3
  <2> QED BY <1>1, <1>3, <1>4, <2>1, Scaled
<1>7. (len * r) \div (n * len) + 1 \in 1 .. len
  BY <1>1, <1>6
<1>8. steps[(len * r) \div (n * len) + 1] \in CoprimeTo(n)
  BY <1>1, <1>7, ElementOfSeq DEF len
<1> QED BY <1>2, <1>5, <1>8 DEF Draw, len

LEMMA SomeWalk == ASSUME NEW n \in Nat \ {0} PROVE Walks(n) # {}
<1> DEFINE steps == ComputeCoprimes(n)
           len == Len(steps)
<1>1. steps \in Seq(CoprimeTo(n)) /\ steps # <<>>
  BY StepsType
<1>2. len \in Nat /\ len >= 1
  BY <1>1, LenProperties
<1> HIDE DEF steps, len
<1>3. n * len >= 1
  BY <1>2
<1>4. 0 \in 0 .. n * len - 1
  BY <1>2, <1>3
<1> QED BY <1>4 DEF Walks, steps, len

LEMMA AdvanceInside == ASSUME NEW n \in Nat \ {0}, NEW v \in 0 .. n - 1, NEW i \in 0 .. n
                       PROVE  Advance(n, v, i) \in 0 .. n - 1
BY DEF Advance

\* Visit k of a sweep is at the first victim and k steps, around the team.
Stop(n, v, inc, k) == (v + k * inc) % n

LEMMA Remainder ==
  ASSUME NEW n \in Nat \ {0}, NEW c \in Nat, NEW r \in 0 .. n - 1, NEW y \in Nat, y = n * c + r
  PROVE  y % n = r
<1>0. y \div n \in Nat /\ y % n \in 0 .. n - 1 /\ y = n * (y \div n) + (y % n)
  OBVIOUS
<1>1. PICK q \in Nat, s \in 0 .. n - 1 : q = y \div n /\ s = y % n
  BY <1>0
<1>2. PICK d \in Int : d = q - c
  OBVIOUS
<1>3. n * d = r - s
  <2>1. PICK f \in Nat, g \in Nat : f = n * c /\ g = n * q /\ n * d = g - f
    <3>1. n * c \in Nat /\ n * q \in Nat
      OBVIOUS
    <3>2. n * d = n * q - n * c
      BY <1>2
    <3> QED BY ONLY <3>1, <3>2
  <2>2. y = f + r /\ y = g + s
    BY <1>0, <1>1, <2>1
  <2>3. g - f = r - s
    BY ONLY <2>2, y \in Nat, r \in 0 .. n - 1, s \in 0 .. n - 1, f \in Nat, g \in Nat
  <2> QED BY <2>1, <2>3
<1>4. CASE d = 0
  <2>1. n * d = 0
    BY <1>4
  <2>2. r = s
    BY <1>3, <2>1
  <2> QED BY <1>1, <2>2
<1>5. CASE d >= 1
  <2>1. PICK k \in Nat : k = d - 1
    BY <1>5
  <2>2. n * k >= 0 /\ n * d = n * k + n
    BY <2>1
  <2> QED BY <1>3, <2>2
<1>6. CASE d <= -1
  <2>1. PICK k \in Nat : k = -d - 1
    BY <1>6
  <2>2. n * k >= 0 /\ n * d = -(n * k) - n
    BY <2>1
  <2> QED BY <1>3, <2>2
<1> QED BY <1>4, <1>5, <1>6

LEMMA StopSteps ==
  ASSUME NEW n \in Nat \ {0}, NEW v \in 0 .. n - 1, NEW inc \in 1 .. n, NEW k \in Nat
  PROVE  /\ Stop(n, v, inc, k) \in 0 .. n - 1 /\ Stop(n, v, inc, 0) = v
         /\ Advance(n, Stop(n, v, inc, k), inc) = Stop(n, v, inc, k + 1)
<1>1. PICK x \in Nat : x = v + k * inc
  OBVIOUS
<1>2. PICK s \in 0 .. n - 1 : s = x % n
  <2>1. x % n \in 0 .. n - 1
    OBVIOUS
  <2> QED BY <2>1
<1>3. Stop(n, v, inc, k) = s /\ Stop(n, v, inc, 0) = v
  <2>1. v + 0 * inc = v /\ v % n = v
    OBVIOUS
  <2> QED BY <1>1, <1>2, <2>1 DEF Stop
<1>4. Stop(n, v, inc, k + 1) = (x + inc) % n
  <2>1. v + (k + 1) * inc = x + inc
    BY <1>1
  <2> QED BY <2>1 DEF Stop
<1>5. (x + inc) % n = Advance(n, s, inc)
  <2>1. PICK q \in Nat : x = n * q + s
    <3>1. x \div n \in Nat /\ x = n * (x \div n) + (x % n)
      OBVIOUS
    <3> QED BY <1>2, <3>1
  <2>2. ASSUME NEW c \in Nat, NEW r \in 0 .. n - 1, x + inc = n * c + r PROVE (x + inc) % n = r
    <3>1. PICK y \in Nat : y = x + inc
      OBVIOUS
    <3>2. y = n * c + r
      BY <2>2, <3>1
    <3>3. y % n = r
      BY ONLY <3>2, n \in Nat \ {0}, c \in Nat, r \in 0 .. n - 1, y \in Nat, Remainder
    <3> QED BY <3>1, <3>3
  <2>3. CASE s + inc >= n
    <3>1. x + inc = n * (q + 1) + (s + inc - n) /\ s + inc - n \in 0 .. n - 1 /\ q + 1 \in Nat
      BY <2>1, <2>3
    <3>2. (x + inc) % n = s + inc - n
      BY <2>2, <3>1
    <3> QED BY <2>3, <3>2 DEF Advance
  <2>4. CASE ~ (s + inc >= n)
    <3>1. x + inc = n * q + (s + inc) /\ s + inc \in 0 .. n - 1
      BY <2>1, <2>4
    <3>2. (x + inc) % n = s + inc
      BY <2>2, <3>1
    <3> QED BY <2>4, <3>2 DEF Advance
  <2> QED BY <2>3, <2>4
<1> QED BY <1>3, <1>4, <1>5

LEMMA SweepStops ==
  ASSUME NEW n \in Nat \ {0}, NEW w, w.victim \in 0 .. n - 1, w.inc \in 1 .. n
  PROVE  \A k \in 0 .. n - 1 : Sweep(n, w)[k] = Stop(n, w.victim, w.inc, k)
<1>1. PICK v \in 0 .. n - 1, inc \in 1 .. n : v = w.victim /\ inc = w.inc
  OBVIOUS
<1> DEFINE IsVisit(f) == f = [k \in Nat |-> IF k = 0 THEN v ELSE Advance(n, f[k - 1], inc)]
           e == [k \in Nat |-> Stop(n, v, inc, k)]
           h == [k \in Nat |-> IF k = 0 THEN v ELSE Advance(n, e[k - 1], inc)]
           visit == CHOOSE f : f = [k \in Nat |-> IF k = 0 THEN v ELSE Advance(n, f[k - 1], inc)]
<1>2. \A k \in Nat : Stop(n, v, inc, k + 1) = Advance(n, Stop(n, v, inc, k), inc)
  BY StopSteps
<1>3. ASSUME NEW k \in Nat PROVE e[k] = h[k]
  <2>1. CASE k = 0
    <3>1. Stop(n, v, inc, 0) = v /\ 0 \in Nat
      BY StopSteps
    <3> QED BY <2>1, <3>1
  <2>2. CASE k # 0
    <3>1. PICK i \in Nat : i = k - 1 /\ i + 1 = k
      BY <2>2
    <3>2. h[k] = Advance(n, e[i], inc) /\ e[i] = Stop(n, v, inc, i) /\ e[k] = Stop(n, v, inc, i + 1)
      BY <2>2, <3>1
    <3> QED BY <1>2, <3>1, <3>2
  <2> QED BY <2>1, <2>2
<1>4. IsVisit(e)
  <2>1. e = [k \in Nat |-> e[k]] /\ h = [k \in Nat |-> h[k]]
    OBVIOUS
  <2> HIDE DEF e, h
  <2>2. e = h
    BY <1>3, <2>1
  <2> QED BY <2>2 DEF h
<1>5. IsVisit(visit)
  <2> HIDE DEF e
  <2> QED BY <1>4
<1>6. Sweep(n, w) = [k \in 0 .. n - 1 |-> visit[k]]
  BY <1>1 DEF Sweep
<1> HIDE DEF visit
<1> DEFINE T == {k \in Nat : visit[k] = Stop(n, v, inc, k)}
<1>7. 0 \in T
  <2>1. visit[0] = v
    BY <1>5
  <2> QED BY <2>1, StopSteps
<1>8. ASSUME NEW k \in Nat, k \in T PROVE k + 1 \in T
  <2>1. k + 1 \in Nat /\ k + 1 # 0 /\ k + 1 - 1 = k
    OBVIOUS
  <2>2. visit[k + 1] = Advance(n, visit[k + 1 - 1], inc)
    BY <1>5, <2>1
  <2>3. visit[k] = Stop(n, v, inc, k)
    BY <1>8
  <2> QED BY <1>2, <2>1, <2>2, <2>3
<1>9. Nat \subseteq T
  <2> HIDE DEF T
  <2> QED BY <1>7, <1>8, Counting
<1> QED BY <1>1, <1>6, <1>9

LEMMA StopsApart ==
  ASSUME NEW n \in Nat \ {0}, NEW v \in 0 .. n - 1, NEW inc \in CoprimeTo(n),
         NEW i \in 0 .. n - 1, NEW j \in 0 .. n - 1, i < j
  PROVE  Stop(n, v, inc, i) # Stop(n, v, inc, j)
<1> SUFFICES ASSUME Stop(n, v, inc, i) = Stop(n, v, inc, j) PROVE FALSE
  OBVIOUS
<1>1. inc \in Nat /\ inc >= 1
  BY DEF CoprimeTo
<1>2. PICK x \in Nat, y \in Nat : x = v + i * inc /\ y = v + j * inc
  BY <1>1
<1>3. PICK m \in Nat : m = j - i
  OBVIOUS
<1>4. y = x + m * inc
  <2>1. (i + m) * inc = i * inc + m * inc /\ i + m = j
    BY <1>1, <1>3
  <2> QED BY <1>1, <1>2, <2>1
<1>5. x % n = y % n
  BY <1>2 DEF Stop
<1>6. PICK a \in Nat, b \in Nat, s \in Nat : x = n * a + s /\ y = n * b + s
  <2>1. /\ x \div n \in Nat /\ x % n \in Nat /\ x = n * (x \div n) + (x % n)
        /\ y \div n \in Nat /\ y % n \in Nat /\ y = n * (y \div n) + (y % n)
    OBVIOUS
  <2> QED BY <1>5, <2>1
<1>7. PICK t \in Nat : t = m * inc
  BY <1>1
<1>8. t = n * (b - a)
  <2>1. PICK f \in Int, g \in Int : f = n * a /\ g = n * b /\ n * (b - a) = g - f
    <3>1. n * a \in Int /\ n * b \in Int /\ n * (b - a) = n * b - n * a
      OBVIOUS
    <3> QED BY <3>1
  <2>2. y = x + t /\ x = f + s /\ y = g + s
    BY <1>4, <1>6, <1>7, <2>1
  <2>3. t = g - f
    BY ONLY <2>2, t \in Nat, x \in Nat, y \in Nat, s \in Nat, f \in Int, g \in Int
  <2> QED BY <2>1, <2>3
<1>9. b - a \in Nat
  <2>1. SUFFICES ASSUME b < a PROVE FALSE
    OBVIOUS
  <2>2. PICK c \in Nat : c = a - b /\ c >= 1
    BY <2>1
  <2>3. n * c >= 1
    BY <2>2
  <2>4. n * (b - a) = -(n * c)
    BY <2>2
  <2> QED BY <1>8, <2>3, <2>4
<1>10. Divides(n, m)
  <2>1. Divides(n, m * inc)
    BY <1>7, <1>8, <1>9 DEF Divides
  <2> QED BY <2>1, CoprimeFactor
<1>11. PICK q \in Nat : m = n * q
  BY <1>10 DEF Divides
<1>12. m >= 1 /\ m < n
  BY <1>3
<1>13. CASE q = 0
  BY <1>11, <1>12, <1>13
<1>14. CASE q >= 1
  <2>1. n * (q - 1) >= 0
    <3>1. PICK p \in Nat : p = q - 1
      BY <1>14
    <3>2. n * p >= 0
      OBVIOUS
    <3> QED BY <3>1, <3>2
  <2>2. n * (q - 1) = n * q - n
    OBVIOUS
  <2> QED BY <1>11, <1>12, <2>1, <2>2
<1> QED BY <1>13, <1>14

\* One sweep visits every thread: n stops, no two of them the same.
LEMMA SweepsVisit ==
  ASSUME NEW n \in Nat \ {0}, NEW w \in Walks(n)
  PROVE  {Sweep(n, w)[k] : k \in 0 .. n - 1} = 0 .. n - 1
<1>1. PICK v \in 0 .. n - 1, inc \in CoprimeTo(n) : v = w.victim /\ inc = w.inc
  BY WalksInside
<1>2. inc \in 1 .. n
  BY DEF CoprimeTo
<1> DEFINE P == 0 .. n - 1
           g == [k \in P |-> Stop(n, v, inc, k)]
<1>3. \A k \in P : k \in Nat /\ Stop(n, v, inc, k) \in P
  BY <1>2, StopSteps
<1>4. g \in [P -> P]
  BY <1>3
<1>5. ASSUME NEW i \in P, NEW j \in P, g[i] = g[j] PROVE i = j
  <2>1. CASE i < j
    BY <1>5, <2>1, StopsApart
  <2>2. CASE j < i
    BY <1>5, <2>2, StopsApart
  <2> QED BY <2>1, <2>2
<1>6. g \in Injection(P, P)
  <2> HIDE DEF g, P
  <2> QED BY <1>4, <1>5 DEF Injection, IsInjective
<1>7. IsFiniteSet(P)
  <2>1. 0 \in Int /\ n - 1 \in Int
    OBVIOUS
  <2> QED BY <2>1, FS_Interval
<1>8. g \in Surjection(P, P)
  <2> HIDE DEF g, P
  <2> QED BY <1>6, <1>7, FS_Injection
<1>9. \A t \in P : \E k \in P : g[k] = t
  <2> HIDE DEF g, P
  <2> QED BY <1>8 DEF Surjection
<1>10. \A k \in P : Sweep(n, w)[k] = g[k]
  <2>1. \A k \in 0 .. n - 1 : Sweep(n, w)[k] = Stop(n, w.victim, w.inc, k)
    BY <1>1, <1>2, SweepStops
  <2> QED BY <1>1, <2>1
<1> HIDE DEF g, P
<1>11. {Sweep(n, w)[k] : k \in P} = P
  BY <1>4, <1>9, <1>10
<1> QED BY <1>11 DEF P
=============================================================================
