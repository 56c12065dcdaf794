------------------------- MODULE DistributionProofs -------------------------
(***************************************************************************)
(* Theorems about Distribution for every loop and every team: the initial  *)
(* distribution gives every iteration to exactly one thread, no thread is  *)
(* hinted twice, and none has more than twice its share.  And for every    *)
(* team: a sweep of a thief visits all of it.                              *)
(***************************************************************************)
EXTENDS Distribution, OperatorProofs, FiniteSetTheorems

-----------------------------------------------------------------------------
(* What DistributeWork makes of a job.                                     *)

LEMMA Proper == ASSUME n \in Nat, team \in Nat, NEW j, GoodJob(j) PROVE ProperJob(j)
BY DEF GoodJob, ProperJob

Share(j) == Job(j.from, IF Shares(j) THEN Keep(j) ELSE j.to, j.lo, j.lo + 1)
Pieces(j) == {Share(j)} \cup IF Shares(j) THEN Elements(Handed(j)) ELSE {}
Inside(p, j) == j.from <= p.from /\ p.to <= j.to /\ j.lo <= p.lo /\ p.hi <= j.hi

LEMMA PieceList == ASSUME NEW j, Shares(j)
                   PROVE  Pieces(j) = IF Parts(j) = 1 THEN {Share(j), First(j)}
                                                      ELSE {Share(j), First(j), Second(j)}
<1>1. ASSUME NEW a, NEW b PROVE Elements(<<a>>) = {a} /\ Elements(<<a, b>>) = {a, b}
  <2>1. DOMAIN <<a>> = {1} /\ DOMAIN <<a, b>> = {1, 2}
    OBVIOUS
  <2> QED BY <2>1 DEF Elements
<1>2. CASE Parts(j) = 1
  <2>1. Handed(j) = <<First(j)>>
    BY <1>2 DEF Handed
  <2>2. Elements(Handed(j)) = {First(j)}
    BY <1>1, <2>1
  <2> QED BY <1>2, <2>2 DEF Pieces
<1>3. CASE Parts(j) # 1
  <2>1. Handed(j) = <<First(j), Second(j)>>
    BY <1>3 DEF Handed
  <2>2. Elements(Handed(j)) = {First(j), Second(j)}
    BY <1>1, <2>1
  <2> QED BY <1>3, <2>2 DEF Pieces
<1> QED BY <1>2, <1>3

LEMMA GoodPieces == ASSUME n \in Nat, team \in Nat, NEW j, GoodJob(j)
                    PROVE  \A p \in Pieces(j) : GoodJob(p) /\ Inside(p, j)
<1>1. /\ j.from \in Nat /\ j.to \in Nat /\ j.from < j.to /\ j.to <= n
      /\ j.lo \in Nat /\ j.hi \in Nat /\ j.lo < j.hi /\ j.hi <= team /\ j.grain = grain
  BY DEF GoodJob, Job
<1>2. CASE ~Shares(j)
  BY <1>1, <1>2 DEF Pieces, Share, Job, GoodJob, Inside
<1>3. CASE Shares(j)
  <2>1. GoodJob(Share(j)) /\ Inside(Share(j), j)
    BY <1>1, <1>3, Cuts, Proper DEF Share, Job, GoodJob, Inside
  <2>2. /\ First(j) = Job(First(j).from, First(j).to, First(j).lo, First(j).hi)
        /\ Second(j) = Job(Second(j).from, Second(j).to, Second(j).lo, Second(j).hi)
    BY <1>1 DEF First, Second, Part, Job
  <2>3. GoodJob(First(j)) /\ Inside(First(j), j)
    <3>1. CASE Parts(j) = 1
      BY <1>1, <1>3, <2>2, <3>1, Cuts, Proper DEF GoodJob, Inside
    <3>2. CASE Parts(j) # 1
      BY <1>1, <1>3, <2>2, <3>2, Cuts, Proper DEF GoodJob, Inside
    <3> QED BY <3>1, <3>2
  <2>4. Parts(j) # 1 => GoodJob(Second(j)) /\ Inside(Second(j), j)
    BY <1>1, <1>3, <2>2, Cuts, Proper DEF GoodJob, Inside
  <2> QED BY <1>3, <2>1, <2>3, <2>4, PieceList
<1> QED BY <1>2, <1>3

LEMMA OrderedPieces == ASSUME n \in Nat, team \in Nat, NEW j, GoodJob(j)
                       PROVE  \A p, q \in Pieces(j) : p # q => Before(p, q) \/ Before(q, p)
<1>1. CASE ~Shares(j)
  BY <1>1 DEF Pieces
<1>2. CASE Shares(j)
  <2>1. Share(j).to = Keep(j) /\ Share(j).hi = j.lo + 1
    BY <1>2 DEF Share, Job
  <2>2. /\ Keep(j) \in Nat /\ j.lo \in Nat
        /\ First(j).from = Keep(j) /\ First(j).lo = j.lo + 1
    BY <1>2, Cuts, Proper DEF GoodJob
  <2>3. Before(Share(j), First(j))
    BY <2>1, <2>2 DEF Before
  <2>4. CASE Parts(j) # 1
    <3>1. /\ Second(j).from = First(j).to /\ Second(j).lo = First(j).hi
          /\ First(j).to \in Nat /\ First(j).hi \in Nat
          /\ Keep(j) < First(j).to /\ j.lo + 1 < First(j).hi
      BY <1>2, <2>4, Cuts, Proper
    <3>2. Before(Share(j), Second(j)) /\ Before(First(j), Second(j))
      BY <2>1, <2>2, <3>1 DEF Before
    <3>3. Pieces(j) = {Share(j), First(j), Second(j)}
      BY <1>2, <2>4, PieceList
    <3> QED BY <2>3, <3>2, <3>3
  <2>5. CASE Parts(j) = 1
    BY <1>2, <2>3, <2>5, PieceList
  <2> QED BY <2>4, <2>5
<1> QED BY <1>1, <1>2

LEMMA CompletePieces == ASSUME n \in Nat, team \in Nat, NEW j, GoodJob(j),
                               NEW i \in j.from .. j.to - 1
                        PROVE  \E p \in Pieces(j) : i \in p.from .. p.to - 1
<1>0. j.from \in Nat /\ j.to \in Nat
  BY DEF GoodJob
<1>1. CASE ~Shares(j)
  <2>1. Share(j).from = j.from /\ Share(j).to = j.to /\ Share(j) \in Pieces(j)
    BY <1>1 DEF Pieces, Share, Job
  <2> QED BY <2>1
<1>2. CASE Shares(j)
  <2>1. Share(j).from = j.from /\ Share(j).to = Keep(j) /\ Share(j) \in Pieces(j) /\ Keep(j) \in Nat
    BY <1>2, Cuts, Proper DEF Pieces, Share, Job
  <2>2. CASE i < Keep(j)
    BY <1>0, <2>1, <2>2
  <2>3. CASE i >= Keep(j) /\ Parts(j) = 1
    BY <1>0, <1>2, <2>1, <2>3, Cuts, Proper, PieceList
  <2>4. CASE i >= Keep(j) /\ Parts(j) # 1
    <3>1. First(j) \in Pieces(j) /\ Second(j) \in Pieces(j)
      BY <1>2, <2>4, PieceList
    <3>2. /\ First(j).from = Keep(j) /\ First(j).to \in Nat
          /\ Second(j).from = First(j).to /\ Second(j).to = j.to
      BY <1>2, <2>4, Cuts, Proper
    <3>3. CASE i < First(j).to
      BY <1>0, <2>1, <2>4, <3>1, <3>2, <3>3
    <3>4. CASE i >= First(j).to
      BY <1>0, <2>1, <2>4, <3>1, <3>2, <3>4
    <3> QED BY <1>0, <3>2, <3>3, <3>4
  <2> QED BY <1>0, <2>1, <2>2, <2>3, <2>4
<1> QED BY <1>1, <1>2

-----------------------------------------------------------------------------
(* The balance of one DistributeWork: a job with an iteration for each of  *)
(* its threads makes jobs of that kind only.                               *)

LEMMA Times == ASSUME NEW t \in Nat, NEW q \in Nat, NEW b \in Nat, t >= 1, q >= b + 2
               PROVE  t * q >= t * b + 2 * t
<1>1. PICK x \in Nat : q = b + 2 + x
  <2>1. q - b - 2 \in Nat /\ q = b + 2 + (q - b - 2)
    OBVIOUS
  <2> QED BY <2>1
<1>2. t * q = t * b + 2 * t + t * x
  BY <1>1
<1>3. t * x \in Nat /\ t * b \in Nat
  BY <1>1
<1> QED BY <1>2, <1>3

LEMMA Quotient == ASSUME NEW c \in Nat, NEW t \in Nat, t >= 1
                  PROVE  c \div t \in Nat /\ t * (c \div t) <= c
OBVIOUS

\* The thread's own share leaves an iteration for each of the others.
LEMMA EnoughLeft == ASSUME NEW a \in Nat, NEW t \in Nat, t >= 2, a >= t
                    PROVE  a - (a + t - 1) \div t >= t - 1
<1> DEFINE q == (a + t - 1) \div t
           b == a - t
<1>1. b \in Nat /\ a = b + t
  OBVIOUS
<1>2. q \in Nat /\ t * q <= a + t - 1
  BY Quotient
<1> HIDE DEF q, b
<1>3. ASSUME q >= b + 2 PROVE FALSE
  <2>1. t * q >= t * b + 2 * t
    BY <1>1, <1>2, <1>3, Times
  <2>2. t * b \in Nat /\ t * b >= b
    BY <1>1
  <2> QED BY <1>1, <1>2, <2>1, <2>2
<1> QED BY <1>1, <1>2, <1>3 DEF q

LEMMA OneForItself == ASSUME NEW t \in Nat, t >= 1 PROVE (t + t - 1) \div t = 1
OBVIOUS

Enough(j) == j.hi - j.lo <= j.to - j.from
Exact(j) == j.from = j.lo /\ j.to = j.hi

\* Such a job keeps all its threads: it is shared unless it has but one.
LEMMA SharesOrAlone == ASSUME n \in Nat, team \in Nat, NEW j, GoodJob(j), Enough(j), j.grain = 1
                       PROVE  Shares(j) \/ j.hi = j.lo + 1
<1> DEFINE a == j.to - j.from
           t == j.hi - j.lo
<1>1. j.from \in Nat /\ j.to \in Nat /\ j.lo \in Nat /\ j.hi \in Nat /\ a \in Nat /\ t \in Nat /\ t >= 1 /\ a >= t
  BY DEF GoodJob, Enough
<1>2. Keep(j) = j.from + (a + t - 1) \div t /\ Threads(j) = t
  BY DEF Keep, Threads
<1>3. CASE t = 1
  BY <1>1, <1>3
<1>4. CASE t # 1
  <2> HIDE DEF a, t
  <2>1. a - (a + t - 1) \div t >= t - 1 /\ (a + t - 1) \div t \in Nat
    <3>1. t >= 2 /\ a >= 1
      BY <1>1, <1>4
    <3>2. a - (a + t - 1) \div t >= t - 1
      BY <1>1, <3>1, EnoughLeft
    <3>3. (a + t - 1) \div t \in Nat
      BY <1>1, <3>1, Ceiling
    <3> QED BY <3>2, <3>3
  <2>2. (a + t - 1) \div t < a
    BY <1>1, <1>4, <2>1
  <2>3. Keep(j) < j.to
    BY <1>1, <1>2, <2>1, <2>2 DEF a
  <2>4. LongerThanGrain(j)
    BY <1>1, <1>4 DEF LongerThanGrain, a
  <2> QED BY <1>2, <1>4, <2>3, <2>4 DEF Shares
<1> QED BY <1>3, <1>4

\* How the two parts of a job that is handed out divide its rest of d
\* iterations and t threads.
LEMMA Halves == ASSUME n \in Nat, team \in Nat, NEW j, GoodJob(j), Shares(j), Parts(j) # 1,
                       NEW d \in Nat, NEW t \in Nat,
                       j.to = Keep(j) + d, j.hi = j.lo + 1 + t
                PROVE  /\ First(j).hi = j.lo + 1 + t \div 2
                       /\ First(j).to = Keep(j) + d \div 2 + (IF t % 2 = 0 THEN d % 2 ELSE 0)
<1> DEFINE k == Keep(j)
           dm == d % 2
           dh == d \div 2
           tm == t % 2
           th == t \div 2
<1>1. k \in Nat /\ k < j.to /\ j.to \in Nat /\ j.lo \in Nat /\ j.hi \in Nat
  BY Cuts, Proper DEF GoodJob
<1>2. OtherData(j) = d /\ OtherThreads(j) = t
  BY <1>1 DEF OtherData, OtherThreads, Threads
<1>3. Parts(j) = 2
  <2>1. d >= 1 /\ t >= 1
    BY <1>1, Cuts, Proper
  <2>2. Parts(j) = Least(Least(2, t), d)
    BY <1>2 DEF Parts, K_SPLIT
  <2>3. Least(Least(2, t), d) \in {1, 2}
    BY <2>1 DEF Least
  <2> QED BY <2>2, <2>3
<1>4. /\ First(j).hi = Least(j.hi, j.lo + 1 + th + Extra(1, tm))
      /\ First(j).to = Least(j.to, k + dh + Extra(IF tm = 0 THEN 0 ELSE 1, dm))
  BY <1>2, <1>3 DEF First, Part, ThreadSplit, DataSplit
<1>5. /\ dm \in {0, 1} /\ d = 2 * dh + dm /\ dh \in Nat
      /\ tm \in {0, 1} /\ t = 2 * th + tm /\ th \in Nat
  OBVIOUS
<1>6. j.hi = j.lo + 1 + t /\ j.to = k + d
  OBVIOUS
<1> HIDE DEF k, dm, dh, tm, th
<1>7. /\ Extra(1, tm) = 0 /\ Extra(1, dm) = 0 /\ Extra(0, dm) = dm
  BY <1>5 DEF Extra
<1>8. First(j).hi = j.lo + 1 + th
  BY <1>1, <1>4, <1>5, <1>6, <1>7 DEF Least
<1>9. First(j).to = k + dh + (IF tm = 0 THEN dm ELSE 0)
  BY <1>1, <1>4, <1>5, <1>6, <1>7 DEF Least
<1> QED BY <1>8, <1>9 DEF k, dm, dh, tm, th

LEMMA EnoughPieces == ASSUME n \in Nat, team \in Nat, NEW j, GoodJob(j), Enough(j)
                      PROVE  \A p \in Pieces(j) : Enough(p)
<1>1. j.from \in Nat /\ j.to \in Nat /\ j.lo \in Nat /\ j.hi \in Nat /\ j.from < j.to
  BY DEF GoodJob
<1>2. Enough(Share(j))
  <2>1. Keep(j) \in Nat /\ j.from < Keep(j)
    BY KeepOne, Proper
  <2> QED BY <1>1, <2>1 DEF Share, Job, Enough
<1>3. CASE ~Shares(j)
  BY <1>2, <1>3 DEF Pieces
<1>4. CASE Shares(j)
  <2> DEFINE d == j.to - Keep(j)
             t == j.hi - j.lo - 1
  <2>1. /\ Keep(j) \in Nat /\ d \in Nat /\ t \in Nat /\ t >= 1
        /\ First(j).from = Keep(j) /\ First(j).lo = j.lo + 1
    BY <1>1, <1>4, Cuts, Proper
  <2>2. d >= t
    <3> DEFINE a == j.to - j.from
               s == j.hi - j.lo
    <3>1. a \in Nat /\ s \in Nat /\ s >= 2 /\ a >= s /\ t = s - 1
      BY <1>1, <2>1 DEF Enough
    <3>2. Keep(j) = j.from + (a + s - 1) \div s
      BY DEF Keep, Threads
    <3>3. a - (a + s - 1) \div s >= s - 1 /\ (a + s - 1) \div s \in Nat
      <4> HIDE DEF a, s, t
      <4>1. a - (a + s - 1) \div s >= s - 1
        BY <3>1, EnoughLeft
      <4>2. a >= 1 /\ s >= 1
        BY <3>1
      <4>3. (a + s - 1) \div s \in Nat
        BY <3>1, <4>2, Ceiling
      <4> QED BY <4>1, <4>3
    <3>4. d = a - (a + s - 1) \div s
      <4> DEFINE q == (a + s - 1) \div s
      <4>1. q \in Nat /\ Keep(j) = j.from + q
        BY <3>2, <3>3
      <4> HIDE DEF q
      <4>2. d = a - q
        BY <1>1, <4>1
      <4> QED BY <4>2 DEF q
    <3> HIDE DEF a, s, d, t
    <3> QED BY <3>1, <3>3, <3>4
  <2>3. CASE Parts(j) = 1
    <3>1. First(j).to = j.to /\ First(j).hi = j.hi
      BY <1>4, <2>3, Cuts, Proper
    <3>2. Enough(First(j))
      BY <1>1, <2>1, <2>2, <3>1 DEF Enough
    <3> QED BY <1>2, <1>4, <2>3, <3>2, PieceList
  <2>4. CASE Parts(j) # 1
    <3>1. /\ Second(j).from = First(j).to /\ Second(j).lo = First(j).hi
          /\ Second(j).to = j.to /\ Second(j).hi = j.hi
      BY <1>4, <2>4, Cuts, Proper
    <3>2. j.to = Keep(j) + d /\ j.hi = j.lo + 1 + t
      BY <1>1, <2>1
    <3> HIDE DEF d, t
    <3>3. /\ First(j).hi = j.lo + 1 + t \div 2
          /\ First(j).to = Keep(j) + d \div 2 + (IF t % 2 = 0 THEN d % 2 ELSE 0)
      BY <1>4, <2>1, <2>4, <3>2, Halves
    <3>4. Enough(First(j))
      BY <1>1, <2>1, <2>2, <3>3 DEF Enough
    <3>5. Enough(Second(j))
      BY <1>1, <2>1, <2>2, <3>1, <3>2, <3>3 DEF Enough
    <3> QED BY <1>2, <1>4, <2>4, <3>4, <3>5, PieceList
  <2> QED BY <2>3, <2>4
<1> QED BY <1>3, <1>4

LEMMA ExactPieces == ASSUME n \in Nat, team \in Nat, NEW j, GoodJob(j), Exact(j), j.grain = 1
                     PROVE  \A p \in Pieces(j) : Exact(p)
<1>1. j.from \in Nat /\ j.to \in Nat /\ j.lo \in Nat /\ j.hi \in Nat /\ j.from < j.to
  BY DEF GoodJob
<1>2. Keep(j) = j.from + 1
  <2> DEFINE t == j.hi - j.lo
  <2>1. t \in Nat /\ t >= 1 /\ j.to - j.from = t
    BY <1>1 DEF Exact
  <2>2. Keep(j) = j.from + (t + t - 1) \div t
    BY <2>1 DEF Keep, Threads
  <2> HIDE DEF t
  <2> QED BY <1>1, <2>1, <2>2, OneForItself
<1>3. CASE ~Shares(j)
  <2>1. j.hi = j.lo + 1
    BY <1>1, <1>3, SharesOrAlone DEF Enough, Exact
  <2> QED BY <1>1, <1>3, <2>1 DEF Pieces, Share, Job, Exact
<1>4. CASE Shares(j)
  <2>1. Exact(Share(j))
    BY <1>1, <1>2, <1>4 DEF Share, Job, Exact
  <2>2. First(j).from = j.lo + 1 /\ First(j).lo = j.lo + 1 /\ j.lo + 1 < j.hi
    BY <1>2, <1>4, Cuts, Proper DEF Exact
  <2>3. CASE Parts(j) = 1
    <3>1. Exact(First(j))
      BY <1>4, <2>2, <2>3, Cuts, Proper DEF Exact
    <3> QED BY <1>4, <2>1, <2>3, <3>1, PieceList
  <2>4. CASE Parts(j) # 1
    <3> DEFINE t == j.hi - j.lo - 1
    <3>1. /\ t \in Nat /\ Keep(j) = j.lo + 1
          /\ j.to = Keep(j) + t /\ j.hi = j.lo + 1 + t
      BY <1>1, <1>2, <2>2 DEF Exact
    <3> HIDE DEF t
    <3>2. /\ First(j).hi = j.lo + 1 + t \div 2
          /\ First(j).to = Keep(j) + t \div 2 + (IF t % 2 = 0 THEN t % 2 ELSE 0)
      BY <1>4, <2>4, <3>1, Halves
    <3>3. Exact(First(j))
      BY <1>1, <2>2, <3>1, <3>2 DEF Exact
    <3>4. Exact(Second(j))
      BY <1>4, <2>4, <3>3, Cuts, Proper DEF Exact
    <3> QED BY <1>4, <2>1, <2>4, <3>3, <3>4, PieceList
  <2> QED BY <2>3, <2>4
<1> QED BY <1>3, <1>4

\* The threads of a job are those of its pieces.
LEMMA ThreadPieces == ASSUME n \in Nat, team \in Nat, NEW j, GoodJob(j), Enough(j), j.grain = 1,
                             NEW t \in Nat, j.lo <= t, t < j.hi
                      PROVE  \E p \in Pieces(j) : p.lo <= t /\ t < p.hi
<1>1. j.lo \in Nat /\ j.hi \in Nat
  BY DEF GoodJob
<1>2. Share(j) \in Pieces(j) /\ Share(j).lo = j.lo /\ Share(j).hi = j.lo + 1
  BY DEF Pieces, Share, Job
<1>3. CASE t = j.lo
  BY <1>1, <1>2, <1>3
<1>4. CASE t # j.lo
  <2>1. Shares(j)
    BY <1>1, <1>4, SharesOrAlone
  <2>2. First(j).lo = j.lo + 1
    BY <2>1, Cuts, Proper
  <2>3. CASE Parts(j) = 1
    BY <1>1, <1>4, <2>1, <2>2, <2>3, Cuts, Proper, PieceList
  <2>4. CASE Parts(j) # 1
    <3>1. First(j) \in Pieces(j) /\ Second(j) \in Pieces(j)
      BY <2>1, <2>4, PieceList
    <3>2. First(j).hi \in Nat /\ Second(j).lo = First(j).hi /\ Second(j).hi = j.hi
      BY <2>1, <2>4, Cuts, Proper
    <3>3. t < First(j).hi \/ First(j).hi <= t
      BY <3>2
    <3> QED BY <1>1, <1>4, <2>2, <3>1, <3>2, <3>3
  <2> QED BY <2>3, <2>4
<1> QED BY <1>3, <1>4

-----------------------------------------------------------------------------
LEMMA IInvInit == Init => IInv
<1> SUFFICES ASSUME Init PROVE IInv
  OBVIOUS
<1>1. n \in Nat /\ n >= 1 /\ team \in Nat /\ team >= 1
  BY InputsAssumption DEF Init
<1>2. todo \cup held = {Job(0, n, 0, team)}
  BY DEF Init
<1>3. TypeOK
  BY <1>1, <1>2 DEF Init, TypeOK, GoodJob, Job
<1>4. Ordered
  BY <1>2 DEF Ordered
<1>5. Complete
  <2>1. Job(0, n, 0, team).from = 0 /\ Job(0, n, 0, team).to = n
    BY DEF Job
  <2> QED BY <1>1, <1>2, <2>1 DEF Complete
<1>6. todo \cap held = {}
  BY DEF Init
<1> QED BY <1>6, <1>3, <1>4, <1>5 DEF IInv

\* The step puts the pieces of a job in its place, apart from all others.
LEMMA Replaced ==
  ASSUME IInv, NEW j \in todo, DistributeWork(j)
  PROVE  /\ \A p \in Pieces(j), k \in (todo \cup held) \ {j} : Before(p, k) \/ Before(k, p)
         /\ (todo \cup held)' = ((todo \cup held) \ {j}) \cup Pieces(j)
         /\ (todo \cap held)' = {}
<1>1. UNCHANGED <<n, team, grain>> /\ n \in Nat /\ team \in Nat
  BY InputsAssumption DEF DistributeWork, IInv, TypeOK
<1>2. j \in todo \cup held /\ GoodJob(j)
  BY DEF IInv, TypeOK
<1>3. \A p \in Pieces(j) : GoodJob(p) /\ Inside(p, j)
  BY <1>1, <1>2, GoodPieces
<1>4. \A p, q \in Pieces(j) : p # q => Before(p, q) \/ Before(q, p)
  BY <1>1, <1>2, OrderedPieces
<1>5. ASSUME NEW p \in Pieces(j), NEW k \in (todo \cup held) \ {j}
      PROVE  p # k /\ (Before(p, k) \/ Before(k, p))
  <2>1. GoodJob(p) /\ Inside(p, j) /\ GoodJob(k)
    BY <1>3 DEF IInv, TypeOK
  <2>2. Before(j, k) \/ Before(k, j)
    BY <1>2 DEF IInv, Ordered
  <2> QED BY <1>1, <1>2, <2>1, <2>2 DEF Before, Inside, GoodJob
<1>6. /\ todo' = (todo \ {j}) \cup (Pieces(j) \ {Share(j)})
      /\ held' = held \cup {Share(j)} /\ Share(j) \in Pieces(j)
  <2>1. Share(j) \in Pieces(j) /\ held' = held \cup {Share(j)}
    BY DEF DistributeWork, Pieces, Share
  <2>2. CASE ~Shares(j)
    BY <2>1, <2>2 DEF DistributeWork, Pieces
  <2>3. CASE Shares(j)
    <3>1. Share(j).from = j.from
      BY DEF Share, Job
    <3>2. First(j).from # j.from
      BY <1>1, <1>2, <2>3, Cuts, Proper DEF GoodJob
    <3>3. Parts(j) # 1 => Second(j).from # j.from
      BY <1>1, <1>2, <2>3, Cuts, Proper DEF GoodJob
    <3>4. Elements(Handed(j)) = Pieces(j) \ {Share(j)}
      <4>1. Elements(Handed(j)) \subseteq IF Parts(j) = 1 THEN {First(j)} ELSE {First(j), Second(j)}
        BY DEF Elements, Handed
      <4>2. Share(j) \notin Elements(Handed(j))
        BY <3>1, <3>2, <3>3, <4>1
      <4> QED BY <2>3, <4>2 DEF Pieces
    <3> QED BY <2>1, <2>3, <3>4 DEF DistributeWork
  <2> QED BY <2>1, <2>2, <2>3
<1>7. (todo \cup held)' = ((todo \cup held) \ {j}) \cup Pieces(j) /\ (todo \cap held)' = {}
  BY <1>5, <1>6 DEF IInv
<1> QED BY <1>5, <1>7

LEMMA IInvStep == IInv /\ [Next]_vars => IInv'
<1> SUFFICES ASSUME IInv, [Next]_vars PROVE IInv'
  OBVIOUS
<1>1. CASE UNCHANGED vars
  BY <1>1 DEF IInv, vars, TypeOK, GoodJob, Job, Ordered, Complete
<1>2. ASSUME NEW j \in todo, DistributeWork(j) PROVE IInv'
  <2>1. UNCHANGED <<n, team, grain>> /\ n \in Nat /\ team \in Nat
    BY <1>2, InputsAssumption DEF DistributeWork, IInv, TypeOK
  <2>2. j \in todo \cup held /\ GoodJob(j)
    BY DEF IInv, TypeOK
  <2>3. \A p \in Pieces(j) : GoodJob(p) /\ Inside(p, j)
    BY <2>1, <2>2, GoodPieces
  <2>4. \A p, q \in Pieces(j) : p # q => Before(p, q) \/ Before(q, p)
    BY <2>1, <2>2, OrderedPieces
  <2>5. \A p \in Pieces(j), k \in (todo \cup held) \ {j} : Before(p, k) \/ Before(k, p)
    BY <1>2, Replaced
  <2>6. (todo \cup held)' = ((todo \cup held) \ {j}) \cup Pieces(j) /\ (todo \cap held)' = {}
    BY <1>2, Replaced
  <2>7. TypeOK'
    <3>1. \A p \in (todo \cup held)' : GoodJob(p)
      BY <2>3, <2>6 DEF IInv, TypeOK
    <3> QED BY <2>1, <3>1 DEF IInv, TypeOK, GoodJob, Job
  <2>8. Ordered'
    <3> SUFFICES ASSUME NEW p \in (todo \cup held)', NEW q \in (todo \cup held)', p # q
                 PROVE  Before(p, q) \/ Before(q, p)
      BY DEF Ordered, Before
    <3>1. CASE p \in Pieces(j) /\ q \in Pieces(j)
      BY <2>4, <3>1
    <3>2. CASE p \notin Pieces(j) /\ q \notin Pieces(j)
      BY <2>6, <3>2 DEF IInv, Ordered
    <3> QED BY <2>5, <2>6, <3>1, <3>2
  <2>9. Complete'
    <3> SUFFICES ASSUME NEW i \in 0 .. n - 1
                 PROVE  \E p \in (todo \cup held)' : i \in p.from .. p.to - 1
      BY <2>1 DEF Complete
    <3>1. PICK k \in todo \cup held : i \in k.from .. k.to - 1
      BY DEF IInv, Complete
    <3>2. CASE k = j
      BY <2>1, <2>2, <2>6, <3>1, <3>2, CompletePieces
    <3>3. CASE k # j
      BY <2>6, <3>1, <3>3
    <3> QED BY <3>2, <3>3
  <2> QED BY <2>6, <2>7, <2>8, <2>9 DEF IInv
<1>3. CASE Done
  BY <1>1, <1>3 DEF Done
<1> QED BY <1>1, <1>2, <1>3 DEF Next

-----------------------------------------------------------------------------
(* Nobody idle.  With iterations for all, every thread is in the range of  *)
(* some job all the time, and in the end each job is down to one thread.   *)

Everyone == \A t \in 0 .. team - 1 : \E j \in todo \cup held : j.lo <= t /\ t < j.hi
Alone == \A j \in held : j.hi = j.lo + 1
Plenty == n >= team /\ grain = 1 => Everyone /\ \A j \in todo \cup held : Enough(j)
Tight == n = team /\ grain = 1 => \A j \in todo \cup held : Exact(j)
Fair == IInv /\ Alone /\ Plenty /\ Tight

LEMMA FairInit == Init => Fair
<1> SUFFICES ASSUME Init PROVE Fair
  OBVIOUS
<1>1. n \in Nat /\ team \in Nat
  BY InputsAssumption DEF Init
<1>2. held = {} /\ todo \cup held = {Job(0, n, 0, team)}
  BY DEF Init
<1>3. /\ Job(0, n, 0, team).from = 0 /\ Job(0, n, 0, team).to = n
      /\ Job(0, n, 0, team).lo = 0 /\ Job(0, n, 0, team).hi = team
  BY DEF Job
<1>4. Plenty
  BY <1>1, <1>2, <1>3 DEF Plenty, Everyone, Enough
<1>5. Tight
  BY <1>1, <1>2, <1>3 DEF Tight, Exact
<1> QED BY <1>2, <1>4, <1>5, IInvInit DEF Fair, Alone

LEMMA FairStep == Fair /\ [Next]_vars => Fair'
<1> SUFFICES ASSUME Fair, [Next]_vars PROVE Fair'
  OBVIOUS
<1>1. IInv'
  BY IInvStep DEF Fair
<1>2. CASE UNCHANGED vars
  BY <1>1, <1>2 DEF Fair, vars, Alone, Plenty, Everyone, Tight, Enough, Exact
<1>3. ASSUME NEW j \in todo, DistributeWork(j) PROVE Fair'
  <2>1. UNCHANGED <<n, team, grain>> /\ n \in Nat /\ team \in Nat
    BY <1>3, InputsAssumption DEF DistributeWork, Fair, IInv, TypeOK
  <2>2. j \in todo \cup held /\ GoodJob(j) /\ j.grain = grain
    BY DEF Fair, IInv, TypeOK, GoodJob, Job
  <2>3. held' = held \cup {Share(j)} /\ Share(j).hi = Share(j).lo + 1
    BY <1>3 DEF DistributeWork, Share, Job
  <2>4. (todo \cup held)' = ((todo \cup held) \ {j}) \cup Pieces(j)
    BY <1>3, Replaced DEF Fair
  <2>5. Alone'
    BY <2>3 DEF Fair, Alone
  <2>6. ASSUME n >= team, grain = 1 PROVE Everyone' /\ \A k \in (todo \cup held)' : Enough(k)
    <3>1. Enough(j) /\ Everyone /\ \A k \in todo \cup held : Enough(k)
      BY <2>2, <2>6 DEF Fair, Plenty
    <3>2. \A p \in Pieces(j) : Enough(p)
      BY <2>1, <2>2, <3>1, EnoughPieces
    <3>3. ASSUME NEW t \in 0 .. team - 1
          PROVE  \E k \in (todo \cup held)' : k.lo <= t /\ t < k.hi
      <4>1. PICK k \in todo \cup held : k.lo <= t /\ t < k.hi
        BY <3>1 DEF Everyone
      <4>2. CASE k # j
        BY <2>4, <4>1, <4>2
      <4>3. CASE k = j
        <5>1. t \in Nat
          BY <2>1
        <5>2. \E p \in Pieces(j) : p.lo <= t /\ t < p.hi
          BY <2>1, <2>2, <2>6, <3>1, <4>1, <4>3, <5>1, ThreadPieces
        <5> QED BY <2>4, <5>2
      <4> QED BY <4>2, <4>3
    <3> QED BY <2>1, <2>4, <3>1, <3>2, <3>3 DEF Everyone
  <2>7. ASSUME n = team, grain = 1 PROVE \A k \in (todo \cup held)' : Exact(k)
    <3>1. Exact(j) /\ \A k \in todo \cup held : Exact(k)
      BY <2>2, <2>7 DEF Fair, Tight
    <3>2. \A p \in Pieces(j) : Exact(p)
      BY <2>1, <2>2, <2>7, <3>1, ExactPieces
    <3> QED BY <2>4, <3>1, <3>2
  <2>8. Plenty'
    BY <2>1, <2>6 DEF Plenty, Enough
  <2>9. Tight'
    BY <2>1, <2>7 DEF Tight, Exact
  <2> QED BY <1>1, <2>5, <2>8, <2>9 DEF Fair
<1>4. CASE Done
  BY <1>2, <1>4 DEF Done
<1> QED BY <1>2, <1>3, <1>4 DEF Next

LEMMA FairAlways == Spec => []Fair
BY FairInit, FairStep, PTL DEF Spec

-----------------------------------------------------------------------------
LEMMA Invariance == Spec => []IInv
BY IInvInit, IInvStep, PTL DEF Spec

\* THEOREM: no iteration is given to two threads and no thread is hinted
\* twice, for every loop, team and grain size.
THEOREM NoOverlap == Spec => []Ordered
<1>1. IInv => Ordered
  BY DEF IInv
<1> QED BY <1>1, Invariance, PTL

\* THEOREM: no iteration is lost in the roundings of DistributeWork.
THEOREM NothingLost == Spec => []Complete
<1>1. IInv => Complete
  BY DEF IInv
<1> QED BY <1>1, Invariance, PTL

\* THEOREM: every job has iterations and threads, which the asserts of
\* DistributeWork say, for every loop, team and grain size.
THEOREM TypeCorrect == Spec => []TypeOK
<1>1. IInv => TypeOK
  BY DEF IInv
<1> QED BY <1>1, Invariance, PTL

\* THEOREM: with at least as many iterations as threads, and a grain of one,
\* DistributeWork leaves no thread without an iteration.
THEOREM NobodyLeftOut == Spec => []NobodyIdle
<1>1. Fair => NobodyIdle
  <2> SUFFICES ASSUME Fair, Ready, n >= team, grain = 1, NEW t \in 0 .. team - 1
               PROVE  ShareOf(t) # {}
    BY DEF NobodyIdle
  <2>1. n \in Nat /\ team \in Nat
    BY InputsAssumption DEF Fair, IInv, TypeOK
  <2>2. PICK j \in held : j.lo <= t /\ t < j.hi
    BY DEF Fair, Plenty, Everyone, Ready
  <2>3. GoodJob(j) /\ j.hi = j.lo + 1
    BY <2>2 DEF Fair, IInv, TypeOK, Alone
  <2>4. j.lo = t /\ j.from \in j.from .. j.to - 1
    BY <2>1, <2>2, <2>3 DEF GoodJob
  <2> QED BY <2>2, <2>4 DEF ShareOf
<1> QED BY <1>1, FairAlways, PTL

\* THEOREM: with as many iterations as threads, and a grain of one, thread t
\* is hinted iteration t, as the test InitialDistribution expects.
THEOREM EachItsOwn == Spec => []OneEach
<1>1. Fair => OneEach
  <2> SUFFICES ASSUME Fair, Ready, n = team, grain = 1, NEW t \in 0 .. team - 1
               PROVE  ShareOf(t) = {t}
    BY DEF OneEach
  <2>1. n \in Nat /\ team \in Nat /\ t \in Nat
    BY InputsAssumption DEF Fair, IInv, TypeOK
  <2>2. ASSUME NEW j \in held, j.lo = t PROVE j.from .. j.to - 1 = {t}
    <3>1. j.hi = j.lo + 1 /\ Exact(j)
      BY DEF Fair, Alone, Tight
    <3>2. j.from = t /\ j.to = t + 1
      BY <2>2, <3>1 DEF Exact
    <3>3. t .. t + 1 - 1 = {t}
      BY <2>1
    <3> QED BY <3>2, <3>3
  <2>3. PICK j \in held : j.lo <= t /\ t < j.hi
    BY <2>1 DEF Fair, Plenty, Everyone, Ready
  <2>4. j.lo = t
    <3>1. GoodJob(j) /\ j.hi = j.lo + 1
      BY <2>3 DEF Fair, IInv, TypeOK, Alone
    <3> QED BY <2>1, <2>3, <3>1 DEF GoodJob
  <2> QED BY <2>2, <2>3, <2>4 DEF ShareOf
<1> QED BY <1>1, FairAlways, PTL

-----------------------------------------------------------------------------
(* Nobody has more than twice its share.  What a job may have too much of  *)
(* is one share in all, however many threads it has: cutting it keeps the  *)
(* excess, and a job for one thread has two shares at most.                *)

FairShare == (n + team - 1) \div team
Within(j, c) == j.to - j.from <= c * (j.hi - j.lo + 1)

LEMMA Grow == ASSUME NEW q \in Nat, NEW b \in Nat, NEW s \in Nat, q >= b PROVE q * s >= b * s
<1>1. PICK x \in Nat : q = b + x
  <2>1. q - b \in Nat /\ q = b + (q - b)
    OBVIOUS
  <2> QED BY <2>1
<1>2. q * s = b * s + x * s /\ b * s \in Nat /\ x * s \in Nat
  BY <1>1
<1> QED BY <1>2

\* Taking the own share of a job that has a share too much.
LEMMA OwnShare ==
  ASSUME NEW a \in Nat, NEW s \in Nat, NEW c \in Nat, s >= 2, c >= 1, a <= c * (s + 1)
  PROVE  /\ (a + s - 1) \div s \in Nat /\ (a + s - 1) \div s <= 2 * c
         /\ a - (a + s - 1) \div s <= c * s
<1>1. PICK q \in Int : q = (a + s - 1) \div s
  OBVIOUS
<1>2. q \in Nat /\ s * q <= a + s - 1 /\ a + s - 1 < s * q + s
  BY <1>1
<1>3. PICK x \in Nat : x = c * s
  OBVIOUS
<1>4. c * (s + 1) = x + c /\ x >= 2 * c
  BY <1>3
<1>5. q <= 2 * c
  <2>1. ASSUME q >= 2 * c + 1 PROVE FALSE
    <3>1. q * s >= (2 * c + 1) * s
      <4>1. PICK b \in Nat : b = 2 * c + 1
        OBVIOUS
      <4> QED BY <1>2, <2>1, <4>1, Grow
    <3>2. (2 * c + 1) * s = 2 * x + s
      BY <1>3
    <3>3. q * s = s * q /\ q * s \in Nat
      BY <1>2
    <3> QED BY <1>2, <1>4, <3>1, <3>2, <3>3
  <2> QED BY <1>2, <2>1
<1>6. a - q <= x
  <2>1. CASE a <= x
    BY <1>2, <2>1
  <2>2. CASE a > x
    <3>1. ASSUME q <= c - 1 PROVE FALSE
      <4>1. PICK b \in Nat : b = q + 1
        BY <1>2
      <4>2. c * s >= b * s
        BY <3>1, <4>1, <1>2, Grow
      <4>3. b * s = s * q + s /\ b * s \in Nat
        BY <4>1, <1>2
      <4> QED BY <1>2, <1>3, <2>2, <4>2, <4>3
    <3> QED BY <1>2, <1>4, <3>1
  <2> QED BY <1>2, <2>1, <2>2
<1> QED BY <1>1, <1>2, <1>3, <1>5, <1>6

\* The halves that are handed out.
LEMMA HalfWithin ==
  ASSUME NEW d \in Nat, NEW t \in Nat, NEW c \in Nat, c >= 1, d <= c * (t + 1),
         NEW x, x = d \div 2 + (IF t % 2 = 0 THEN d % 2 ELSE 0)
  PROVE  /\ x <= c * (t \div 2 + 1)
         /\ d - x <= c * (t - t \div 2 + 1)
<1>1. PICK h \in Nat, r \in {0, 1} : h = t \div 2 /\ r = t % 2 /\ t = 2 * h + r
  OBVIOUS
<1>2. PICK e \in Nat, m \in {0, 1} : e = d \div 2 /\ m = d % 2 /\ d = 2 * e + m
  OBVIOUS
<1>3. x = e + (IF r = 0 THEN m ELSE 0)
  BY <1>1, <1>2
<1>4. PICK y \in Nat : y = c * h
  OBVIOUS
<1>5. /\ c * (t + 1) = 2 * y + c * r + c /\ c * (h + 1) = y + c
      /\ c * (t - h + 1) = y + c * r + c
  BY <1>1, <1>4
<1>6. CASE r = 0
  <2>1. 2 * e + m <= 2 * y + c /\ x = e + m
    BY <1>2, <1>3, <1>5, <1>6
  <2>2. e + m <= y + c /\ e <= y + c
    BY <2>1
  <2>3. c * (h + 1) = y + c /\ c * (t - h + 1) = y + c /\ d - x = e
    BY <1>2, <1>5, <1>6, <2>1
  <2> QED BY <1>1, <2>1, <2>2, <2>3
<1>7. CASE r = 1
  <2>1. 2 * e + m <= 2 * y + 2 * c /\ x = e
    BY <1>2, <1>3, <1>5, <1>7
  <2>2. e <= y + c /\ e + m <= y + 2 * c
    BY <2>1
  <2>3. c * (h + 1) = y + c /\ c * (t - h + 1) = y + 2 * c /\ d - x = e + m
    BY <1>2, <1>5, <1>7, <2>1
  <2> QED BY <1>1, <2>1, <2>2, <2>3
<1> QED BY <1>6, <1>7

LEMMA WithinPieces ==
  ASSUME n \in Nat, team \in Nat, NEW j, GoodJob(j), NEW c \in Nat, c >= 1, Within(j, c),
         Shares(j)
  PROVE  /\ Keep(j) - j.from <= 2 * c
         /\ Within(First(j), c) /\ (Parts(j) # 1 => Within(Second(j), c))
<1>1. j.from \in Nat /\ j.to \in Nat /\ j.lo \in Nat /\ j.hi \in Nat /\ j.from < j.to
  BY DEF GoodJob
<1>2. /\ Keep(j) \in Nat /\ Keep(j) < j.to /\ j.lo + 1 < j.hi
      /\ First(j).from = Keep(j) /\ First(j).lo = j.lo + 1
  BY Cuts, Proper
<1>3. PICK a \in Nat, s \in Nat : a = j.to - j.from /\ s = j.hi - j.lo
  BY <1>1, <1>2
<1>4. s >= 2 /\ a <= c * (s + 1)
  BY <1>1, <1>2, <1>3 DEF Within
<1>5. PICK q : q = (a + s - 1) \div s
  OBVIOUS
<1>6. q \in Nat /\ q <= 2 * c /\ a - q <= c * s
  BY <1>3, <1>4, <1>5, OwnShare
<1>7. Keep(j) = j.from + q
  BY <1>3, <1>5 DEF Keep, Threads
<1>8. PICK d \in Nat, t \in Nat : d = j.to - Keep(j) /\ t = j.hi - j.lo - 1
  BY <1>1, <1>2
<1>9. d = a - q /\ s = t + 1 /\ d <= c * (t + 1)
  BY <1>1, <1>3, <1>6, <1>7, <1>8
<1>10. CASE Parts(j) = 1
  <2>1. First(j).to = j.to /\ First(j).hi = j.hi
    BY <1>10, Cuts, Proper
  <2>2. First(j).hi - First(j).lo = t /\ First(j).to - First(j).from = d
    BY <1>1, <1>2, <1>8, <2>1
  <2> QED BY <1>1, <1>6, <1>7, <1>9, <1>10, <2>2 DEF Within
<1>11. CASE Parts(j) # 1
  <2>1. /\ Second(j).from = First(j).to /\ Second(j).lo = First(j).hi
        /\ Second(j).to = j.to /\ Second(j).hi = j.hi
    BY <1>11, Cuts, Proper
  <2>2. j.to = Keep(j) + d /\ j.hi = j.lo + 1 + t
    BY <1>1, <1>2, <1>8
  <2>3. PICK x : x = d \div 2 + (IF t % 2 = 0 THEN d % 2 ELSE 0)
    OBVIOUS
  <2>4. PICK h : h = t \div 2
    OBVIOUS
  <2>5. /\ First(j).hi = j.lo + 1 + h /\ First(j).to = Keep(j) + x
    <3>1. /\ First(j).hi = j.lo + 1 + t \div 2
          /\ First(j).to = Keep(j) + d \div 2 + (IF t % 2 = 0 THEN d % 2 ELSE 0)
      BY <1>8, <1>11, <2>2, Halves, Zenon
    <3> QED BY <1>2, <1>8, <2>3, <2>4, <3>1
  <2>6. x <= c * (h + 1) /\ d - x <= c * (t - h + 1)
    BY <1>8, <1>9, <2>3, <2>4, HalfWithin
  <2>7. x \in Nat /\ h \in Nat
    BY <2>3, <2>4, <1>8
  <2>8. /\ First(j).hi - First(j).lo = h /\ First(j).to - First(j).from = x
        /\ Second(j).hi - Second(j).lo = t - h /\ Second(j).to - Second(j).from = d - x
    BY <1>1, <1>2, <2>1, <2>2, <2>5, <2>7
  <2> QED BY <1>1, <1>6, <1>7, <2>6, <2>8 DEF Within
<1> QED BY <1>10, <1>11

\* What a thread keeps.
LEMMA KeptWithin ==
  ASSUME n \in Nat, team \in Nat, NEW j, GoodJob(j), j.grain \in Nat, j.grain >= 1,
         NEW c \in Nat, c >= 1, Within(j, c)
  PROVE  Share(j).to - Share(j).from <= 2 * c + (j.grain - 1)
<1>1. j.from \in Nat /\ j.to \in Nat /\ j.lo \in Nat /\ j.hi \in Nat /\ j.from < j.to /\ j.lo < j.hi
  BY DEF GoodJob
<1>2. CASE Shares(j)
  <2>1. Share(j).from = j.from /\ Share(j).to = Keep(j)
    BY <1>2 DEF Share, Job
  <2>2. Keep(j) - j.from <= 2 * c /\ Keep(j) \in Nat
    BY <1>2, WithinPieces, Cuts, Proper
  <2> QED BY <1>1, <2>1, <2>2
<1>3. CASE ~Shares(j)
  <2>1. Share(j).from = j.from /\ Share(j).to = j.to
    BY <1>3 DEF Share, Job
  <2>2. CASE Threads(j) = 1
    <3>1. j.to - j.from <= c * (1 + 1)
      BY <1>1, <2>2 DEF Within, Threads
    <3> QED BY <1>1, <2>1, <3>1
  <2>3. CASE ~LongerThanGrain(j)
    <3>1. j.to - j.from <= j.grain
      BY <1>1, <2>3 DEF LongerThanGrain
    <3> QED BY <1>1, <2>1, <3>1
  <2>4. CASE Threads(j) # 1 /\ Keep(j) >= j.to
    <3>1. PICK a \in Nat, s \in Nat : a = j.to - j.from /\ s = j.hi - j.lo
      BY <1>1
    <3>2. s >= 2 /\ a <= c * (s + 1)
      BY <1>1, <2>4, <3>1 DEF Within, Threads
    <3>3. PICK q : q = (a + s - 1) \div s
      OBVIOUS
    <3>4. q \in Nat /\ q <= 2 * c
      BY <3>1, <3>2, <3>3, OwnShare
    <3>5. Keep(j) = j.from + q
      BY <3>1, <3>3 DEF Keep, Threads
    <3> QED BY <1>1, <2>1, <2>4, <3>4, <3>5
  <2>5. Keep(j) \in Nat
    BY KeepOne, Proper
  <2> QED BY <1>1, <1>3, <2>2, <2>3, <2>4, <2>5 DEF Shares
<1> QED BY <1>2, <1>3

Even == /\ \A j \in todo : Within(j, FairShare)
        /\ \A j \in held : j.to - j.from <= 2 * FairShare + (grain - 1)

LEMMA FairShareCovers == ASSUME NEW N \in Nat, NEW T \in Nat, N >= 1, T >= 1
                         PROVE  /\ (N + T - 1) \div T \in Nat /\ (N + T - 1) \div T >= 1
                                /\ N <= ((N + T - 1) \div T) * (T + 1)
<1>1. PICK c \in Int : c = (N + T - 1) \div T
  OBVIOUS
<1>2. c \in Nat /\ N + T - 1 < T * c + T
  BY <1>1
<1>3. c >= 1
  BY <1>1
<1>4. c * (T + 1) = T * c + c
  BY <1>2
<1>5. T * c \in Nat
  BY <1>2
<1> QED BY <1>1, <1>2, <1>3, <1>4, <1>5

LEMMA FairShareNat == ASSUME TypeOK PROVE FairShare \in Nat /\ FairShare >= 1 /\ n <= FairShare * (team + 1)
<1>1. n \in Nat /\ n >= 1 /\ team \in Nat /\ team >= 1
  BY InputsAssumption DEF TypeOK
<1> QED BY <1>1, FairShareCovers DEF FairShare

LEMMA EvenInit == Init => Even
<1> SUFFICES ASSUME Init PROVE Even
  OBVIOUS
<1>1. n \in Nat /\ team \in Nat /\ TypeOK
  BY InputsAssumption, IInvInit DEF Init, IInv
<1>2. held = {} /\ todo = {Job(0, n, 0, team)}
  BY DEF Init
<1>3. /\ Job(0, n, 0, team).from = 0 /\ Job(0, n, 0, team).to = n
      /\ Job(0, n, 0, team).lo = 0 /\ Job(0, n, 0, team).hi = team
  BY DEF Job
<1>4. n - 0 <= FairShare * (team - 0 + 1)
  BY <1>1, FairShareNat
<1> QED BY <1>2, <1>3, <1>4 DEF Even, Within

LEMMA EvenStep == IInv /\ Even /\ [Next]_vars => Even'
<1> SUFFICES ASSUME IInv, Even, [Next]_vars PROVE Even'
  OBVIOUS
<1>1. CASE UNCHANGED vars
  BY <1>1 DEF Even, vars, Within, FairShare
<1>2. ASSUME NEW j \in todo, DistributeWork(j) PROVE Even'
  <2>1. UNCHANGED <<n, team, grain>> /\ n \in Nat /\ team \in Nat /\ grain \in Nat /\ grain >= 1
    BY <1>2, InputsAssumption DEF DistributeWork, IInv, TypeOK
  <2>2. PICK c \in Nat : c = FairShare /\ c >= 1
    BY FairShareNat DEF IInv
  <2>3. FairShare' = c
    BY <2>1, <2>2 DEF FairShare
  <2>4. GoodJob(j) /\ j.grain = grain /\ Within(j, c)
    BY <2>2 DEF IInv, TypeOK, GoodJob, Job, Even
  <2>5. held' = held \cup {Share(j)}
    BY <1>2 DEF DistributeWork, Share
  <2>6. Share(j).to - Share(j).from <= 2 * c + (grain - 1)
    BY <2>1, <2>2, <2>4, KeptWithin
  <2>7. \A k \in held' : k.to - k.from <= 2 * c + (grain - 1)
    BY <2>2, <2>5, <2>6 DEF Even
  <2>8. ASSUME NEW k \in todo' PROVE Within(k, c)
    <3>1. CASE k \in todo
      BY <2>2, <3>1 DEF Even
    <3>2. CASE k \notin todo
      <4>1. Shares(j) /\ k \in Elements(Handed(j))
        BY <1>2, <3>2 DEF DistributeWork
      <4>2. k = First(j) \/ (Parts(j) # 1 /\ k = Second(j))
        BY <4>1 DEF Elements, Handed
      <4> QED BY <2>1, <2>2, <2>4, <4>1, <4>2, WithinPieces
    <3> QED BY <3>1, <3>2
  <2>9. \A k \in todo' : k.to - k.from <= c * (k.hi - k.lo + 1)
    BY <2>8 DEF Within
  <2>10. Even' <=> /\ \A k \in todo' : k.to - k.from <= FairShare' * (k.hi - k.lo + 1)
                   /\ \A k \in held' : k.to - k.from <= 2 * FairShare' + (grain' - 1)
    BY DEF Even, Within
  <2> QED BY <2>1, <2>3, <2>7, <2>9, <2>10
<1>3. CASE Done
  BY <1>1, <1>3 DEF Done
<1> QED BY <1>1, <1>2, <1>3 DEF Next

\* THEOREM: although half of the data goes to either half of the threads, of
\* which one may have a thread more, no thread is given more than twice the
\* fair share and a grain, for every loop, team and grain size.
THEOREM ShareBounded == Spec => []AtMostTwice
<1>1. IInv /\ Even => AtMostTwice
  <2> SUFFICES ASSUME IInv, Even, NEW t \in 0 .. team - 1
               PROVE  Cardinality(ShareOf(t)) <= 2 * ((n + team - 1) \div team) + (grain - 1)
    BY DEF AtMostTwice
  <2>1. n \in Nat /\ team \in Nat /\ grain \in Nat /\ grain >= 1
    BY InputsAssumption DEF IInv, TypeOK
  <2>2. PICK c \in Nat : c = FairShare /\ c >= 1
    BY FairShareNat DEF IInv
  <2>3. CASE \A j \in held : j.lo # t
    <3>1. ShareOf(t) = {}
      BY <2>3 DEF ShareOf
    <3>2. Cardinality(ShareOf(t)) = 0
      BY <3>1, FS_EmptySet
    <3> QED BY <2>1, <2>2, <3>2 DEF FairShare
  <2>4. ASSUME NEW j \in held, j.lo = t
        PROVE  Cardinality(ShareOf(t)) <= 2 * c + (grain - 1)
    <3>1. GoodJob(j) /\ j.to - j.from <= 2 * c + (grain - 1)
      BY <2>2 DEF IInv, TypeOK, Even
    <3>2. ASSUME NEW k \in held, k.lo = t PROVE k = j
      <4>1. GoodJob(k)
        BY DEF IInv, TypeOK
      <4>2. ~Before(j, k) /\ ~Before(k, j)
        BY <2>1, <2>4, <3>1, <3>2, <4>1 DEF Before, GoodJob
      <4> QED BY <4>2 DEF IInv, Ordered
    <3>3. ShareOf(t) = j.from .. j.to - 1
      BY <2>4, <3>2 DEF ShareOf
    <3>4. PICK a \in Nat, b \in Nat : a = j.from /\ b = j.to /\ a < b
      BY <2>1, <3>1 DEF GoodJob
    <3>5. Cardinality(a .. b - 1) = b - a
      <4>1. PICK e \in Int : e = b - 1 /\ a <= e
        BY <3>4
      <4>2. Cardinality(a .. e) = IF a > e THEN 0 ELSE e - a + 1
        <5>1. a \in Int /\ e \in Int
          BY <3>4, <4>1
        <5> QED BY <5>1, FS_Interval, Zenon
      <4> QED BY <3>4, <4>1, <4>2
    <3> QED BY <3>1, <3>3, <3>4, <3>5
  <2> QED BY <2>2, <2>3, <2>4 DEF FairShare
<1>2. Spec => []Even
  BY EvenInit, EvenStep, Invariance, PTL DEF Spec
<1> QED BY <1>1, <1>2, Invariance, PTL

-----------------------------------------------------------------------------
(* The walks of the team.                                                  *)

\* THEOREM: from whatever random number it starts, a sweep of Steal visits
\* every thread of the pool once, for every size of the pool.
THEOREM SweepIsComplete == Spec => []SweepVisitsEach
<1>1. IInv => SweepVisitsEach
  <2>1. IInv => team \in Nat \ {0}
    BY InputsAssumption DEF IInv, TypeOK
  <2>2. ASSUME team \in Nat \ {0}, NEW w \in Walks(team)
        PROVE  {Sweep(team, w)[k] : k \in 0 .. team - 1} = 0 .. team - 1
    BY <2>2, SweepsVisit
  <2> QED BY <2>1, <2>2 DEF SweepVisitsEach
<1> QED BY <1>1, Invariance, PTL
=============================================================================
